-------------------------- MODULE ParallelCommitProofs --------------------------
(***************************************************************************)
(* Proofs about ParallelCommit, for any plans, ranges, trees, deletions,   *)
(* consumers and limits: its types, the tiling of the units, and that what *)
(* is published is whole.                                                  *)
(***************************************************************************)
EXTENDS ParallelCommit, WellFoundedInduction, TLAPS

-----------------------------------------------------------------------------
(* The inductive invariant.                                                *)

\* Ranges whose last keys are gone, all before one whose last key is there: what a merge
\* makes one unit of.  (A single range, if its last key is there and the one's before it is.)
Run(from, to) ==
    /\ from \in Ranges /\ to \in Ranges /\ from <= to
    /\ to \notin Gone /\ \A k \in from .. (to - 1) : k \in Gone
    /\ from - 1 \notin Gone

\* A unit is a planned range, or merged over a run.
Shaped(u) ==
    \/ u.copy = 0 /\ u.from = u.to
    \/ u.copy # 0 /\ u.from # u.to /\ Run(u.from, u.to)

\* How a unit ends depends on nothing but its last key; merged units stay.
Ending(u) ==
    /\ Shaped(u)
    /\ unit[u].status = "done" => u.to \notin Gone
    /\ unit[u].status = "failed" => u.to \in Gone
    /\ u.copy # 0 => unit[u].status \in {"pending", "done"}

UnitsEnd == \A u \in DOMAIN unit : Ending(u)

Replaces(m, p, k) == m \in DOMAIN unit /\ m.plan = p /\ m.copy # 0 /\ m.from <= k /\ k <= m.to

\* A planned unit counts until a merged one has its place, and a merged one never comes
\* before the plan's rows are all written.
ReplacedOnce ==
    /\ \A u \in DOMAIN unit :
          u.copy = 0 => (unit[u].status = "superseded" <=> \E m \in DOMAIN unit : Replaces(m, u.plan, u.from))
    /\ \A m \in DOMAIN unit : m.copy # 0 => written[m.plan] = Chunks

RowsThere ==
    \A p \in Plans, k \in Ranges : ChunkOf(k) \in written[p] => Planned(p, k) \in DOMAIN unit

\* The planning of a commit has a plan, and ends when all rows are there.
Planning(s) ==
    /\ s.phase = "planning" => s.plan # NoPlan
    /\ s.status = "committing" /\ s.plan # NoPlan /\ s.phase = "none" => written[s.plan] = Chunks

PlanReady == Planning(session)

\* What an assembly holds of the rows, however old: units that have ended, and of every run
\* all of its planned units or none.
HeldUnits(x) ==
    \A u \in x.list :
        u \in DOMAIN unit /\ u.plan = x.plan /\ unit[u].status # "pending"

HeldRuns(x) ==
    \A from, to \in Ranges : Run(from, to) /\ Planned(x.plan, from) \in x.list =>
        /\ \A k \in from .. to : Planned(x.plan, k) \in x.list
        /\ \A m \in x.list : m.copy # 0 => (m.to < from \/ to < m.from)

\* The failed units it has still to merge: of every run all that failed, or none.
HeldBad(x) ==
    /\ x.bad \subseteq x.list /\ x.bad # {}
    /\ \A u \in x.bad : u.copy = 0 /\ u.from \in Gone
    /\ \A from, to \in Ranges : Run(from, to) =>
          \/ \A k \in from .. (to - 1) : Planned(x.plan, k) \in x.bad
          \/ \A k \in from .. (to - 1) : Planned(x.plan, k) \notin x.bad

\* The units it builds the trees from.
HeldWhole(x) ==
    /\ \A u \in x.list : u.plan = x.plan /\ Shaped(u) /\ u.to \notin Gone
    /\ \A k \in Ranges : \E u \in x.list : u.from <= k /\ k <= u.to

Knows(x) ==
    /\ x.pc = "rows" => \E c \in Chunks : x.plan \in Plans /\ x.job = PlanJob(x.plan, c)
    /\ x.pc = "unit" => \E u \in DOMAIN unit : x.job = UnitJob(u)
    /\ x.pc \in {"lease", "read", "merge", "trees"} => x.plan \in Plans /\ written[x.plan] = Chunks
    /\ x.pc = "merge" => HeldUnits(x) /\ HeldRuns(x) /\ HeldBad(x)
    /\ x.pc = "trees" => HeldWhole(x)
    /\ x.pc = "settle" => x.outcome # "none"

RunnersKnow == \A r \in Runners : Knows(runner[r])

TreesDisjoint == \A p \in Plans, e \in Ends : Disjoint(trees[p][e])

ParallelInv ==
    /\ TypeOK /\ UnitsEnd /\ ReplacedOnce /\ RowsThere /\ PlanReady /\ RunnersKnow /\ TreesDisjoint
    /\ PublishedWhole

-----------------------------------------------------------------------------
(* Runs, trees and chunks.                                                 *)

LEMMA LeastOf ==
    ASSUME NEW S, S \subseteq Nat, S # {} PROVE \E n \in S : \A m \in S : n <= m
<1>1. PICK n \in S : \A m \in S : ~(<<m, n>> \in OpToRel(<, Nat))
  BY NatLessThanWellFounded, WFMin
<1>2. \A m \in S : ~(m < n)
  BY <1>1 DEF OpToRel
<1> QED
  BY <1>2

LEMMA RangesAre ==
    /\ N \in Nat \ {0} /\ Ranges \subseteq Nat /\ N \in Ranges
    /\ \A k : k \in Ranges <=> k \in Nat /\ 1 <= k /\ k <= N
    /\ Gone \subseteq Ranges /\ 0 \notin Gone /\ N \notin Gone
    /\ \A k \in Gone : k \notin Ends /\ k \notin Gaps
  BY PlanShape DEF Ranges

\* A range whose last key is gone is in a run, before its last.
LEMMA RunAround ==
    ASSUME NEW k \in Gone PROVE \E from, to \in Ranges : Run(from, to) /\ from <= k /\ k < to
<1> DEFINE A == {i \in Ranges : i <= k /\ \A j \in i .. k : j \in Gone}
           B == {j \in Ranges : k <= j /\ j \notin Gone}
<1>1. k \in A /\ N \in B /\ A \subseteq Nat /\ B \subseteq Nat
  BY RangesAre
<1>2. PICK from \in A : \A i \in A : from <= i
  <2> HIDE DEF A
  <2> QED
    BY <1>1, LeastOf
<1>3. PICK to \in B : \A j \in B : to <= j
  <2> HIDE DEF B
  <2> QED
    BY <1>1, LeastOf
<1>4. from - 1 \notin Gone
  <2> SUFFICES ASSUME from - 1 \in Gone PROVE FALSE
    OBVIOUS
  <2>1. from - 1 \in A
    BY RangesAre
  <2> QED
    BY <1>2, <2>1, RangesAre
<1>5. \A j \in from .. (to - 1) : j \in Gone
  <2> SUFFICES ASSUME NEW j \in from .. (to - 1), j \notin Gone PROVE FALSE
    OBVIOUS
  <2>1. j \in Ranges /\ k <= j
    BY RangesAre
  <2>2. j \in B
    BY <2>1
  <2> QED
    BY <1>3, <2>2, RangesAre
<1>6. from \in Ranges /\ to \in Ranges /\ to \notin Gone /\ from <= k /\ k < to
  BY RangesAre
<1>7. from <= to
  BY <1>6, RangesAre
<1> QED
  BY <1>4, <1>5, <1>6, <1>7 DEF Run

\* Runs that meet are one.
LEMMA RunsMeet ==
    ASSUME NEW a, NEW b, NEW c, NEW d, Run(a, b), Run(c, d),
           NEW k \in Nat, a <= k, k <= b, c <= k, k <= d
    PROVE  a = c /\ b = d
<1>1. a \in Nat /\ b \in Nat /\ c \in Nat /\ d \in Nat
  BY RangesAre DEF Run
<1>2. ~(a < c) /\ ~(c < a)
  BY <1>1 DEF Run
<1>3. ~(b < d) /\ ~(d < b)
  BY <1>1 DEF Run
<1> QED
  BY <1>1, <1>2, <1>3

\* A run lies in one tree.
LEMMA RunInTree ==
    ASSUME NEW from, NEW to, Run(from, to), NEW k \in Nat, from <= k, k <= to
    PROVE  TreeOf(k) = TreeOf(to)
<1>1. from \in Nat /\ to \in Nat /\ Ends \subseteq Nat
  BY RangesAre, PlanShape DEF Run
<1>2. \A e \in Ends : e >= k <=> e >= to
  <2> SUFFICES ASSUME NEW e \in Ends, e >= k, ~(e >= to) PROVE FALSE
    BY <1>1
  <2>1. e \in from .. (to - 1)
    BY <1>1
  <2> QED
    BY <2>1, RangesAre DEF Run
<1> QED
  BY <1>2 DEF TreeOf

LEMMA ShapeInTree ==
    ASSUME NEW u \in UnitId, Shaped(u), NEW k \in Nat, u.from <= k, k <= u.to
    PROVE  TreeOf(k) = TreeOf(u.to)
<1>1. u.from \in Nat /\ u.to \in Nat
  BY RangesAre DEF UnitId
<1>2. CASE u.from = u.to
  BY <1>1, <1>2
<1>3. CASE Run(u.from, u.to)
  BY <1>3, RunInTree
<1> QED
  BY <1>2, <1>3 DEF Shaped

LEMMA ChunkIs == ASSUME NEW k \in Ranges PROVE ChunkOf(k) \in Chunks
<1> DEFINE a == k - 1
           c == a \div ChunkUnits
<1>1. a \in Nat /\ ChunkUnits \in Nat \ {0} /\ a < N /\ k <= N /\ N \in Nat
  BY RangesAre, ParallelLimits
<1>2. c \in Nat /\ c * ChunkUnits <= a
  BY <1>1
<1>3. c <= a
  BY <1>1
<1> QED
  BY <1>1, <1>2, <1>3 DEF Chunks, ChunkOf, Ranges

LEMMA PlannedIs ==
    ASSUME NEW p \in Plans, NEW k \in Ranges
    PROVE  /\ Planned(p, k) \in UnitId /\ Shaped(Planned(p, k))
           /\ Planned(p, k).plan = p /\ Planned(p, k).from = k /\ Planned(p, k).to = k
           /\ Planned(p, k).copy = 0
<1>1. 0 \in 0 .. MaxCopies
  BY ParallelLimits
<1> QED
  BY <1>1 DEF Planned, UnitId, Shaped

\* A unit that is not merged is the planned unit of its range.
LEMMA PlannedOnly ==
    ASSUME NEW u \in UnitId, Shaped(u), u.copy = 0 PROVE u = Planned(u.plan, u.from) /\ u.to = u.from
  BY DEF UnitId, Shaped, Planned

LEMMA UnitIs ==
    ASSUME ParallelInv, NEW u \in DOMAIN unit
    PROVE  /\ u \in UnitId /\ Ending(u) /\ Shaped(u) /\ unit[u] \in UnitRow
           /\ u.from \in Nat /\ u.to \in Nat /\ u.from <= u.to /\ u.plan \in Plans
           /\ u.from \in Ranges /\ u.to \in Ranges
<1>1. u \in UnitId /\ Ending(u) /\ unit[u] \in UnitRow
  BY DEF ParallelInv, TypeOK, UnitsEnd
<1>2. Shaped(u) /\ u.from \in Ranges /\ u.to \in Ranges /\ u.plan \in Plans
  BY <1>1 DEF Ending, UnitId
<1>3. u.from <= u.to
  BY <1>2, RangesAre DEF Shaped, Run
<1> QED
  BY <1>1, <1>2, <1>3, RangesAre

-----------------------------------------------------------------------------
(* Kinds of steps.                                                         *)

Turns(r, x) == x \in RunnerState /\ runner' = [runner EXCEPT ![r] = x]

\* Rows may be queued or counted: how far each unit is stays.
SameUnits ==
    /\ DOMAIN unit' = DOMAIN unit
    /\ \A u \in DOMAIN unit : unit'[u] \in UnitRow /\ unit'[u].status = unit[u].status

\* A consumer that from now on holds nothing the units say.
Rests(r, x) ==
    /\ Turns(r, x) /\ x.pc \notin {"rows", "unit", "lease", "read", "merge", "trees"}
    /\ x.pc = "settle" => x.outcome # "none"
    /\ SameUnits /\ UNCHANGED <<written, trees, versions>>

Sends == runner' = runner /\ SameUnits /\ UNCHANGED <<written, trees, versions>>

\* A message is taken, or an assembly takes its lease.
Takes(r, x) ==
    /\ Turns(r, x) /\ UNCHANGED <<unit, written, trees, versions>>
    /\ \/ x.pc = "rows" /\ x.plan \in Plans /\ \E c \in Chunks : x.job = PlanJob(x.plan, c)
       \/ x.pc = "unit" /\ \E u \in DOMAIN unit : x.job = UnitJob(u)
       \/ x.pc = "lease" /\ x.plan \in Plans /\ written[x.plan] = Chunks
       \/ x.pc = "read" /\ runner[r].pc = "lease" /\ x.plan = runner[r].plan

Reads(r, x) ==
    /\ Turns(r, x) /\ UNCHANGED <<unit, written, trees, versions>>
    /\ runner[r].pc = "read" /\ x.plan = runner[r].plan /\ PendingUnits(x.plan) = {}
    /\ x.list = Live(x.plan) /\ x.bad = {u \in Live(x.plan) : unit[u].status = "failed"}
    /\ x.pc = IF x.bad # {} THEN "merge" ELSE "trees"

Fills(r) ==
    /\ runner[r].pc = "rows" /\ UNCHANGED <<written, trees, versions, runner>>
    /\ \E S \in SUBSET Missing(r) :
          unit' = [u \in DOMAIN unit \cup S |-> IF u \in S THEN NewRow(u) ELSE unit[u]]

Marks(r, x) ==
    /\ Turns(r, x) /\ x.pc = "count" /\ runner[r].pc = "rows" /\ Missing(r) = {}
    /\ written' = [written EXCEPT ![runner[r].plan] = written[runner[r].plan] \cup {runner[r].job[3]}]
    /\ UNCHANGED <<unit, trees, versions>>

Finishes(r, x) ==
    /\ Turns(r, x) /\ x.pc = "last" /\ runner[r].pc = "unit"
    /\ \E u \in DOMAIN unit :
          unit' = IF unit[u].status # "pending" THEN unit
                  ELSE [unit EXCEPT ![u].status = IF Survives(u) THEN "done" ELSE "failed"]
    /\ UNCHANGED <<written, trees, versions>>

MergedUnit(u, to, copy) == [plan |-> u.plan, from |-> u.from, to |-> to, copy |-> copy]

Merges(r, x) ==
    /\ Turns(r, x) /\ runner[r].pc = "merge" /\ UNCHANGED <<written, trees, versions>>
    /\ \E u \in runner[r].bad, copy \in 1 .. MaxCopies :
          LET group == Members(runner[r].list, runner[r].bad, u)
              merged == MergedUnit(u, Last(group), copy)
          IN  /\ \A v \in runner[r].bad : u.from <= v.from
              /\ \A c \in Copies(u.plan, u.from, Last(group)) : c < copy
              /\ unit' = [v \in DOMAIN unit \cup {merged} |->
                            IF v = merged THEN Pending
                            ELSE IF v \in group THEN [unit[v] EXCEPT !.status = "superseded"]
                            ELSE unit[v]]
              /\ \/ x.pc = "release"
                 \/ /\ x.pc = "merge" /\ x.plan = runner[r].plan /\ x.list = runner[r].list
                    /\ x.bad = runner[r].bad \ group /\ x.bad # {}

Builds(r) ==
    /\ runner[r].pc = "trees" /\ UNCHANGED <<unit, written, versions, runner>>
    /\ \E e \in Ends : /\ Disjoint(Segments(r, e))
                       /\ trees' = [trees EXCEPT ![runner[r].plan][e] = Segments(r, e)]

Publishes(r, x) ==
    /\ Turns(r, x) /\ x.pc = "settle" /\ x.outcome # "none" /\ UNCHANGED <<unit, written, trees>>
    /\ runner[r].pc = "trees" /\ Unbuilt(r) = {}
    /\ versions' = {[plan |-> runner[r].plan, units |-> UNION {Segments(r, e) : e \in Ends}]}

Turned(r, x) ==
    Rests(r, x) \/ Takes(r, x) \/ Reads(r, x) \/ Marks(r, x) \/ Finishes(r, x) \/ Merges(r, x) \/ Publishes(r, x)

Kind ==
    \/ Sends
    \/ \E r \in Runners : Fills(r) \/ Builds(r) \/ \E x \in RunnerState : Turned(r, x)

-----------------------------------------------------------------------------
(* Every step is of a kind.                                                *)

LEMMA IdleTyped == Idle \in RunnerState /\ Idle.pc = "idle"
  BY DEF Idle, RunnerState, Pcs

LEMMA RunnerHas ==
    ASSUME ParallelInv, NEW r \in Runners
    PROVE  /\ runner[r] \in RunnerState /\ runner \in [Runners -> RunnerState] /\ Knows(runner[r])
           /\ session \in SessionRow /\ jobs \subseteq Messages
           /\ \A u \in DOMAIN unit : unit[u] \in UnitRow /\ u \in UnitId
  BY DEF ParallelInv, TypeOK, RunnersKnow

LEMMA UnitsSame == ASSUME ParallelInv, unit' = unit PROVE SameUnits
  BY DEF ParallelInv, TypeOK, SameUnits

LEMMA FinishRests ==
    ASSUME ParallelInv, NEW r \in Runners, runner' = [runner EXCEPT ![r] = Idle], SameUnits,
           UNCHANGED <<written, trees, versions>>
    PROVE  \E x \in RunnerState : Rests(r, x)
  BY IdleTyped DEF Rests, Turns

\* What a record has of another with some fields replaced.
LEMMA GoOnRests ==
    ASSUME ParallelInv, NEW r \in Runners,
           NEW pc \in Pcs \ {"rows", "unit", "lease", "read", "merge", "trees", "settle"},
           GoOn(r, pc), SameUnits, UNCHANGED <<written, trees, versions>>
    PROVE  \E x \in RunnerState : Rests(r, x) /\ x.pc = pc
<1> DEFINE job == IF runner[r].job = AssembleJob THEN AssembleJob ELSE NoJob
           x == [runner[r] EXCEPT !.pc = pc, !.then = "none", !.job = job]
<1>1. job \in Messages \cup {NoJob}
  BY DEF Messages
<1>2. runner' = [runner EXCEPT ![r] = x]
  BY DEF GoOn
<1>3. runner[r] \in RunnerState
  BY RunnerHas
<1> HIDE DEF job
<1>4. x \in RunnerState /\ x.pc = pc
  BY <1>1, <1>3 DEF RunnerState
<1> HIDE DEF x
<1> QED
  BY <1>2, <1>4 DEF Rests, Turns

LEMMA ReleaseRests ==
    ASSUME ParallelInv, NEW r \in Runners, NEW then \in {"recheck", "topup", "again"}, ReleaseThen(r, then)
    PROVE  \E x \in RunnerState : Turns(r, x) /\ x.pc = "release"
<1> DEFINE x == [runner[r] EXCEPT !.pc = "release", !.then = then, !.list = {}, !.bad = {}]
<1>1. runner[r] \in RunnerState /\ {} \in SUBSET UnitId
  BY RunnerHas
<1>2. x \in RunnerState /\ x.pc = "release"
  BY <1>1 DEF RunnerState, Pcs, Assembling
<1>3. runner' = [runner EXCEPT ![r] = x]
  BY DEF ReleaseThen
<1> HIDE DEF x
<1> QED
  BY <1>2, <1>3 DEF Turns

\* A job starts with its message and the session's plan.
LEMMA StartTurns ==
    ASSUME ParallelInv, NEW r \in Runners, NEW m, NEW pc \in Pcs, Start(r, m, pc)
    PROVE  \E x \in RunnerState : /\ Turns(r, x) /\ UNCHANGED <<unit, written, trees, versions>>
                                  /\ x.pc = pc /\ x.job = m /\ x.plan = session.plan
<1> DEFINE x == [Idle EXCEPT !.pc = pc, !.job = m, !.plan = session.plan]
<1>1. session.plan \in Plans \cup {NoPlan} /\ m \in Messages
  BY RunnerHas DEF SessionRow, Start
<1>2. x \in RunnerState /\ x.pc = pc /\ x.job = m /\ x.plan = session.plan
  BY <1>1, IdleTyped DEF RunnerState
<1>3. runner' = [runner EXCEPT ![r] = x] /\ UNCHANGED <<unit, written, trees, versions>>
  BY DEF Start
<1> HIDE DEF x
<1> QED
  BY <1>2, <1>3 DEF Turns

LEMMA StartCommitKind ==
    ASSUME ParallelInv, NEW r \in Runners, StartCommitJob(r) PROVE \E x \in RunnerState : Rests(r, x)
<1> DEFINE pc == IF session.plan = NoPlan THEN "plan" ELSE "work"
<1>1. pc \in Pcs \ {"rows", "unit", "lease", "read", "merge", "trees", "settle"}
  BY DEF Pcs
<1>2. Start(r, CommitJob, pc)
  BY DEF StartCommitJob
<1> HIDE DEF pc
<1> QED
  BY <1>1, <1>2, StartTurns, UnitsSame DEF Rests

LEMMA StartPlanKind ==
    ASSUME ParallelInv, NEW r \in Runners, NEW p \in Plans, NEW c \in Chunks, StartPlanJob(r, p, c)
    PROVE  \E x \in RunnerState : Rests(r, x) \/ Takes(r, x)
<1> DEFINE pc == IF c \in written[p] THEN "count" ELSE "rows"
<1>1. pc \in {"count", "rows"} /\ pc \in Pcs
  BY DEF Pcs
<1>2. Start(r, PlanJob(p, c), pc)
  BY DEF StartPlanJob
<1> HIDE DEF pc
<1>3. session.plan = p
  <2>1. Wanted(PlanJob(p, c))
    BY <1>2 DEF Start
  <2> QED
    BY <2>1 DEF Wanted, PlanJob, CommitJob, AssembleJob
<1>4. PICK x \in RunnerState : /\ Turns(r, x) /\ UNCHANGED <<unit, written, trees, versions>>
                               /\ x.pc = pc /\ x.job = PlanJob(p, c) /\ x.plan = p
  BY <1>1, <1>2, <1>3, StartTurns
<1> QED
  BY <1>1, <1>4, UnitsSame DEF Rests, Takes

LEMMA StartUnitKind ==
    ASSUME ParallelInv, NEW r \in Runners, NEW u \in DOMAIN unit, StartUnitJob(r, u)
    PROVE  \E x \in RunnerState : Takes(r, x)
<1>1. "unit" \in Pcs
  BY DEF Pcs
<1> QED
  BY <1>1, StartTurns DEF StartUnitJob, Takes

LEMMA StartAssembleKind ==
    ASSUME ParallelInv, NEW r \in Runners, StartAssembleJob(r) PROVE \E x \in RunnerState : Takes(r, x)
<1>1. "lease" \in Pcs /\ Start(r, AssembleJob, "lease")
  BY DEF Pcs, StartAssembleJob
<1>2. session.status = "committing" /\ session.plan # NoPlan /\ session.phase = "none"
  <2>1. Wanted(AssembleJob)
    BY <1>1 DEF Start
  <2> QED
    BY <2>1 DEF Wanted, CommitJob, AssembleJob
<1>3. session.plan \in Plans /\ written[session.plan] = Chunks
  BY <1>2, RunnerHas DEF ParallelInv, PlanReady, Planning, SessionRow
<1> QED
  BY <1>1, <1>3, StartTurns DEF Takes

LEMMA SimpleKind ==
    ASSUME ParallelInv, NEW r \in Runners,
           (\E p \in NewPlans : Plan(r, p)) \/ PlanLost(r) \/ PlanBusy(r) \/ CountChunks(r) \/ QueueWork(r)
           \/ PickNone(r) \/ AfterUnit(r) \/ NoLease(r) \/ Release(r) \/ Settle(r) \/ Die(r)
    PROVE  \E x \in RunnerState : Rests(r, x)
<1>1. SameUnits /\ UNCHANGED <<written, trees, versions>>
  <2>1. UNCHANGED <<unit, written, trees, versions>>
    BY DEF Plan, PlanLost, PlanBusy, CountChunks, QueueWork, PickNone, AfterUnit, NoLease, Release, Settle, Die
  <2> QED
    BY <2>1, UnitsSame
<1>2. ASSUME ~Rests(r, Idle)
      PROVE  \E pc \in {"work", "topup", "recheck"} : GoOn(r, pc)
  <2>1. runner' # [runner EXCEPT ![r] = Idle]
    BY <1>1, <1>2, IdleTyped DEF Rests, Turns
  <2> QED
    BY <2>1 DEF Plan, PlanLost, PlanBusy, CountChunks, QueueWork, PickNone, AfterUnit, NoLease, Release, Settle,
       Die, Finish, FinishWith
<1>3. \A pc \in {"work", "topup", "recheck"} :
         pc \in Pcs \ {"rows", "unit", "lease", "read", "merge", "trees", "settle"}
  BY DEF Pcs
<1> QED
  BY <1>1, <1>2, <1>3, GoOnRests, IdleTyped

LEMMA LiveAre ==
    ASSUME ParallelInv, NEW p
    PROVE  Live(p) \subseteq DOMAIN unit /\ Live(p) \subseteq UnitId /\ PendingUnits(p) \subseteq DOMAIN unit
  BY DEF Live, PlanUnits, PendingUnits, ParallelInv, TypeOK

LEMMA PickKind ==
    ASSUME ParallelInv, NEW r \in Runners, PickWaiting(r) PROVE \E x \in RunnerState : Rests(r, x)
<1>1. PICK S \in SUBSET Live(session.plan) :
         runner' = [runner EXCEPT ![r].pc = "claim", ![r].plan = session.plan, ![r].list = S]
  BY DEF PickWaiting
<1> DEFINE x == [runner[r] EXCEPT !.pc = "claim", !.plan = session.plan, !.list = S]
<1>2. S \in SUBSET UnitId /\ session.plan \in Plans \cup {NoPlan} /\ runner[r] \in RunnerState
  BY LiveAre, RunnerHas DEF SessionRow
<1>3. x \in RunnerState /\ x.pc = "claim"
  BY <1>2 DEF RunnerState, Pcs
<1>4. runner' = [runner EXCEPT ![r] = x] /\ SameUnits /\ UNCHANGED <<written, trees, versions>>
  BY <1>1, UnitsSame DEF PickWaiting
<1> HIDE DEF x
<1> QED
  BY <1>3, <1>4 DEF Rests, Turns

\* A claim counts an attempt of units that have one left.
LEMMA ClaimSame ==
    ASSUME ParallelInv, NEW S, unit' = Claimed(S),
           \A u \in S : u \in DOMAIN unit => unit[u].attempts < MaxAttempts
    PROVE  SameUnits
<1> SUFFICES ASSUME NEW u \in DOMAIN unit
             PROVE  unit'[u] \in UnitRow /\ unit'[u].status = unit[u].status
  BY DEF SameUnits, Claimed
<1>1. unit[u] \in UnitRow /\ MaxAttempts \in Nat
  BY ParallelLimits DEF ParallelInv, TypeOK
<1>2. CASE u \in S
  <2> DEFINE n == unit[u].attempts + 1
  <2>1. n \in 0 .. MaxAttempts
    BY <1>1, <1>2 DEF UnitRow
  <2>2. unit'[u] = [unit[u] EXCEPT !.queued = "fresh", !.attempts = n]
    BY <1>2 DEF Claimed
  <2> HIDE DEF n
  <2> QED
    BY <1>1, <2>1, <2>2 DEF UnitRow
<1>3. CASE u \notin S
  BY <1>1, <1>3 DEF Claimed
<1> QED
  BY <1>2, <1>3

LEMMA ClaimKind ==
    ASSUME ParallelInv, NEW r \in Runners, ClaimUnits(r) PROVE \E x \in RunnerState : Rests(r, x)
<1> DEFINE mine == {u \in runner[r].list : unit[u].status = "pending" /\ Waiting(u)}
<1>1. unit' = Claimed(mine) /\ runner' = [runner EXCEPT ![r] = Idle] /\ UNCHANGED <<written, trees, versions>>
  BY DEF ClaimUnits, Claims, FinishWith
<1>2. \A u \in mine : unit[u].attempts < MaxAttempts
  BY DEF Waiting
<1> HIDE DEF mine
<1>3. SameUnits
  BY <1>1, <1>2, ClaimSame
<1> QED
  BY <1>1, <1>3, FinishRests

LEMMA FillsKind == ASSUME ParallelInv, NEW r \in Runners, WriteRows(r) PROVE Fills(r)
  BY DEF WriteRows, Fills

LEMMA MarksKind ==
    ASSUME ParallelInv, NEW r \in Runners, MarkChunk(r) PROVE \E x \in RunnerState : Marks(r, x)
<1> DEFINE job == IF runner[r].job = AssembleJob THEN AssembleJob ELSE NoJob
           x == [runner[r] EXCEPT !.pc = "count", !.then = "none", !.job = job]
<1>1. job \in Messages \cup {NoJob} /\ runner[r] \in RunnerState
  BY RunnerHas DEF Messages
<1>2. runner' = [runner EXCEPT ![r] = x]
  BY DEF MarkChunk, GoOn
<1> HIDE DEF job
<1>3. x \in RunnerState /\ x.pc = "count"
  BY <1>1 DEF RunnerState, Pcs
<1> HIDE DEF x
<1> QED
  BY <1>2, <1>3 DEF MarkChunk, Marks, Turns

LEMMA FinishUnitKind ==
    ASSUME ParallelInv, NEW r \in Runners, FinishUnit(r) PROVE \E x \in RunnerState : Finishes(r, x)
<1> DEFINE job == IF runner[r].job = AssembleJob THEN AssembleJob ELSE NoJob
           x == [runner[r] EXCEPT !.pc = "last", !.then = "none", !.job = job]
<1>1. job \in Messages \cup {NoJob} /\ runner[r] \in RunnerState
  BY RunnerHas DEF Messages
<1>2. runner' = [runner EXCEPT ![r] = x]
  BY DEF FinishUnit, GoOn
<1> HIDE DEF job
<1>3. x \in RunnerState /\ x.pc = "last"
  BY <1>1 DEF RunnerState, Pcs
<1>4. PICK u \in DOMAIN unit : runner[r].job = UnitJob(u)
  BY RunnerHas DEF FinishUnit, Knows
<1>5. runner[r].job[2] = u
  BY <1>4 DEF UnitJob
<1> HIDE DEF x
<1> QED
  BY <1>2, <1>3, <1>5 DEF FinishUnit, Finishes, Turns

LEMMA TakeLeaseKind ==
    ASSUME ParallelInv, NEW r \in Runners, TakeLease(r) PROVE \E x \in RunnerState : Takes(r, x)
<1> DEFINE x == [runner[r] EXCEPT !.pc = "read"]
<1>1. runner' = [runner EXCEPT ![r] = x] /\ runner[r] \in RunnerState
  BY RunnerHas DEF TakeLease, Goto
<1>2. x \in RunnerState /\ x.pc = "read" /\ x.plan = runner[r].plan
  BY <1>1 DEF RunnerState, Pcs, Assembling
<1> HIDE DEF x
<1> QED
  BY <1>1, <1>2 DEF TakeLease, Takes, Turns

LEMMA ReadKind ==
    ASSUME ParallelInv, NEW r \in Runners, ReadRows(r)
    PROVE  \E x \in RunnerState : Rests(r, x) \/ Reads(r, x)
<1> DEFINE live == Live(runner[r].plan)
           bad == {u \in live : unit[u].status = "failed"}
           pc == IF bad # {} THEN "merge" ELSE "trees"
<1>1. CASE ReleaseThen(r, "recheck")
  BY <1>1, ReleaseRests, UnitsSame DEF ReadRows, Rests
<1>2. CASE PendingUnits(runner[r].plan) = {} /\ runner' = [runner EXCEPT ![r].pc = pc, ![r].list = live, ![r].bad = bad]
  <2> DEFINE x == [runner[r] EXCEPT !.pc = pc, !.list = live, !.bad = bad]
  <2>1. live \in SUBSET UnitId /\ bad \in SUBSET UnitId /\ pc \in {"merge", "trees"} /\ runner[r] \in RunnerState
    BY LiveAre, RunnerHas
  <2>2. runner' = [runner EXCEPT ![r] = x] /\ pc = IF bad # {} THEN "merge" ELSE "trees"
    BY <1>2
  <2>3. bad = {u \in live : unit[u].status = "failed"} /\ live = Live(runner[r].plan)
    OBVIOUS
  <2> HIDE DEF pc, bad, live
  <2>4. x \in RunnerState /\ x.pc = pc /\ x.list = live /\ x.bad = bad /\ x.plan = runner[r].plan
    BY <2>1 DEF RunnerState, Pcs, Assembling
  <2> HIDE DEF x
  <2>5. Reads(r, x)
    BY <1>2, <2>2, <2>3, <2>4 DEF ReadRows, Reads, Turns
  <2> QED
    BY <2>4, <2>5
<1> QED
  BY <1>1, <1>2 DEF ReadRows

LEMMA MergeKind ==
    ASSUME ParallelInv, NEW r \in Runners, NEW u \in runner[r].bad, MergeFailed(r, u)
    PROVE  \E x \in RunnerState : Merges(r, x)
<1> DEFINE group == Members(runner[r].list, runner[r].bad, u)
<1>1. PICK copy \in 1 .. MaxCopies :
         LET merged == MergedUnit(u, Last(group), copy)
         IN  /\ \A c \in Copies(u.plan, u.from, Last(group)) : c < copy
             /\ unit' = [v \in DOMAIN unit \cup {merged} |->
                           IF v = merged THEN Pending
                           ELSE IF v \in group THEN [unit[v] EXCEPT !.status = "superseded"]
                           ELSE unit[v]]
             /\ IF runner[r].bad \subseteq group THEN ReleaseThen(r, "topup")
                ELSE runner' = [runner EXCEPT ![r].bad = runner[r].bad \ group]
  BY DEF MergeFailed, MergedUnit
<1>2. /\ runner[r].pc = "merge" /\ UNCHANGED <<written, trees, versions>>
      /\ \A v \in runner[r].bad : u.from <= v.from
  BY DEF MergeFailed
<1>3. \E x \in RunnerState :
         /\ Turns(r, x)
         /\ \/ x.pc = "release"
            \/ /\ x.pc = "merge" /\ x.plan = runner[r].plan /\ x.list = runner[r].list
               /\ x.bad = runner[r].bad \ group /\ x.bad # {}
  <2> DEFINE bad == runner[r].bad \ group
  <2>1. CASE ReleaseThen(r, "topup")
    BY <2>1, ReleaseRests
  <2>2. CASE bad # {} /\ runner' = [runner EXCEPT ![r].bad = bad]
    <3> DEFINE x == [runner[r] EXCEPT !.bad = bad]
    <3>1. bad \in SUBSET UnitId /\ runner[r] \in RunnerState
      BY RunnerHas DEF RunnerState
    <3>2. runner' = [runner EXCEPT ![r] = x]
      BY <2>2
    <3> HIDE DEF bad
    <3>3. /\ x \in RunnerState /\ x.pc = "merge" /\ x.plan = runner[r].plan /\ x.list = runner[r].list
          /\ x.bad = bad
      BY <1>2, <3>1 DEF RunnerState
    <3> HIDE DEF x
    <3>4. Turns(r, x)
      BY <3>2, <3>3 DEF Turns
    <3> QED
      BY <2>2, <3>3, <3>4 DEF bad
  <2> QED
    BY <1>1, <2>1, <2>2
<1>4. PICK x \in RunnerState :
         /\ Turns(r, x)
         /\ \/ x.pc = "release"
            \/ /\ x.pc = "merge" /\ x.plan = runner[r].plan /\ x.list = runner[r].list
               /\ x.bad = runner[r].bad \ group /\ x.bad # {}
  BY <1>3
<1>5. Merges(r, x)
  BY <1>1, <1>2, <1>4 DEF Merges
<1> QED
  BY <1>5

LEMMA BuildKind == ASSUME ParallelInv, NEW r \in Runners, BuildTree(r) PROVE Builds(r)
  BY DEF BuildTree, Builds, Unbuilt

LEMMA PublishKind ==
    ASSUME ParallelInv, NEW r \in Runners, Publish(r)
    PROVE  \E x \in RunnerState : Rests(r, x) \/ Publishes(r, x)
<1>1. ASSUME NEW o \in {"committed", "missing", "failed"},
             runner' = [runner EXCEPT ![r].pc = "settle", ![r].outcome = o, ![r].list = {}]
      PROVE  \E x \in RunnerState : Turns(r, x) /\ x.pc = "settle" /\ x.outcome # "none"
  <2> DEFINE x == [runner[r] EXCEPT !.pc = "settle", !.outcome = o, !.list = {}]
  <2>1. runner[r] \in RunnerState /\ {} \in SUBSET UnitId /\ o \in {"none", "committed", "missing", "failed"}
    BY RunnerHas
  <2>2. x \in RunnerState /\ x.pc = "settle" /\ x.outcome # "none"
    BY <2>1 DEF RunnerState, Pcs, Assembling
  <2>3. runner' = [runner EXCEPT ![r] = x]
    BY <1>1
  <2> HIDE DEF x
  <2> QED
    BY <2>2, <2>3 DEF Turns
<1>2. \E x \in RunnerState : Turns(r, x) /\ x.pc = "settle" /\ x.outcome # "none"
  BY <1>1 DEF Publish
<1>3. CASE versions' = versions
  BY <1>2, <1>3, UnitsSame DEF Publish, Rests
<1>4. CASE versions' = {[plan |-> runner[r].plan, units |-> UNION {Segments(r, e) : e \in Ends}]}
  BY <1>2, <1>4 DEF Publish, Publishes
<1> QED
  BY <1>3, <1>4 DEF Publish

LEMMA StopKind ==
    ASSUME ParallelInv, NEW r \in Runners, StopAssembly(r) PROVE \E x \in RunnerState : Rests(r, x)
  BY ReleaseRests, UnitsSame DEF StopAssembly, Rests

LEMMA AgeKind == ASSUME ParallelInv, NEW u \in DOMAIN unit, Age(u) PROVE Sends
<1>1. unit[u] \in UnitRow /\ \A v \in DOMAIN unit : unit[v] \in UnitRow
  BY DEF ParallelInv, TypeOK
<1>2. unit' = [unit EXCEPT ![u].queued = "stale"] /\ runner' = runner /\ UNCHANGED <<written, trees, versions>>
  BY DEF Age
<1>3. [unit[u] EXCEPT !.queued = "stale"] \in UnitRow
      /\ [unit[u] EXCEPT !.queued = "stale"].status = unit[u].status
  BY <1>1 DEF UnitRow
<1>4. \A v \in DOMAIN unit : unit'[v] = IF v = u THEN [unit[u] EXCEPT !.queued = "stale"] ELSE unit[v]
  BY <1>2
<1>5. SameUnits
  BY <1>1, <1>2, <1>3, <1>4 DEF SameUnits
<1> QED
  BY <1>2, <1>5 DEF Sends

LEMMA RecoverKind == ASSUME ParallelInv, Recover PROVE Sends
<1>1. UNCHANGED <<written, trees, versions, runner>>
  BY DEF Recover
<1>2. CASE unit' = unit
  BY <1>1, <1>2, UnitsSame DEF Sends
<1>3. ASSUME NEW S \in SUBSET Live(session.plan), Picks(S), unit' = Claimed(S) PROVE Sends
  <2>1. \A u \in S : unit[u].attempts < MaxAttempts
    BY <1>3 DEF Picks, Waiting
  <2>2. SameUnits
    BY <1>3, <2>1, ClaimSame
  <2> QED
    BY <1>1, <2>2 DEF Sends
<1> QED
  BY <1>2, <1>3 DEF Recover, FailSpent, TopUpWaiting, FailStalled, Nudge

LEMMA StepKind == ASSUME ParallelInv, [Next]_vars PROVE Kind
<1>1. CASE UNCHANGED vars \/ Recommit \/ \E r \in Runners : ResumePlanning(r)
  BY <1>1, UnitsSame DEF vars, Recommit, ResumePlanning, Sends, Kind
<1>2. CASE Recover \/ \E u \in DOMAIN unit : Age(u)
  BY <1>2, RecoverKind, AgeKind DEF Kind
<1>3. ASSUME NEW r \in Runners,
             StartCommitJob(r) \/ StartAssembleJob(r) \/ (\E p \in Plans, c \in Chunks : StartPlanJob(r, p, c))
             \/ \E u \in DOMAIN unit : StartUnitJob(r, u)
      PROVE  Kind
  BY <1>3, StartCommitKind, StartAssembleKind, StartPlanKind, StartUnitKind DEF Kind, Turned
<1>4. ASSUME NEW r \in Runners, Work(r) PROVE Kind
  <2>1. ASSUME (\E p \in NewPlans : Plan(r, p)) \/ PlanLost(r) \/ PlanBusy(r) \/ CountChunks(r) \/ QueueWork(r)
               \/ PickNone(r) \/ AfterUnit(r) \/ NoLease(r) \/ Release(r) \/ Settle(r) \/ Die(r)
        PROVE  Kind
    BY <2>1, SimpleKind DEF Kind, Turned
  <2>2. ASSUME WriteRows(r) \/ MarkChunk(r) \/ PickWaiting(r) \/ ClaimUnits(r) \/ FinishUnit(r) PROVE Kind
    BY <2>2, FillsKind, MarksKind, PickKind, ClaimKind, FinishUnitKind DEF Kind, Turned
  <2>3. ASSUME TakeLease(r) \/ ReadRows(r) \/ (\E u \in runner[r].bad : MergeFailed(r, u)) \/ BuildTree(r)
               \/ Publish(r) \/ StopAssembly(r)
        PROVE  Kind
    BY <2>3, TakeLeaseKind, ReadKind, MergeKind, BuildKind, PublishKind, StopKind DEF Kind, Turned
  <2> QED
    BY <1>4, <2>1, <2>2, <2>3 DEF Work
<1> QED
  BY <1>1, <1>2, <1>3, <1>4 DEF Next

-----------------------------------------------------------------------------
(* The session and the queue.                                              *)

SessionSafe(s) == s \in SessionRow /\ Planning(s)

LEMMA SessionHas == ASSUME ParallelInv PROVE SessionSafe(session) /\ session \in SessionRow
  BY DEF ParallelInv, TypeOK, PlanReady, SessionSafe

\* One field at a time.
LEMMA SessionFields ==
    ASSUME ParallelInv
    PROVE  /\ SessionSafe([session EXCEPT !.stalls = 0])
           /\ SessionSafe([session EXCEPT !.status = "failed"])
           /\ SessionSafe([session EXCEPT !.status = "failed", !.phase = "none"])
           /\ SessionSafe([session EXCEPT !.lease = NoRunner])
           /\ \A l \in Runners : SessionSafe([session EXCEPT !.lease = l])
<1>1. session \in SessionRow /\ Planning(session) /\ MaxStalls \in Nat /\ 0 \in 0 .. MaxStalls
  BY SessionHas, ParallelLimits DEF SessionSafe
<1>2. SessionSafe([session EXCEPT !.stalls = 0]) /\ SessionSafe([session EXCEPT !.status = "failed"])
  BY <1>1 DEF SessionSafe, SessionRow, Planning, Statuses
<1>3. SessionSafe([session EXCEPT !.status = "failed", !.phase = "none"])
  BY <1>1 DEF SessionSafe, SessionRow, Planning, Statuses
<1>4. ASSUME NEW l \in Runners \cup {NoRunner} PROVE SessionSafe([session EXCEPT !.lease = l])
  BY <1>1, <1>4 DEF SessionSafe, SessionRow, Planning, Statuses
<1> QED
  BY <1>2, <1>3, <1>4

LEMMA SettledSafe ==
    ASSUME ParallelInv, NEW o \in {"committed", "missing", "failed"} PROVE SessionSafe(Settled(o))
<1>1. session \in SessionRow /\ Planning(session) /\ MaxStalls \in Nat /\ 0 \in 0 .. MaxStalls
  BY SessionHas, ParallelLimits DEF SessionSafe
<1>2. CASE o = "missing"
  BY <1>1, <1>2 DEF SessionSafe, SessionRow, Planning, Statuses, Settled
<1>3. CASE o # "missing"
  <2>1. o \in Statuses /\ o # "committing" /\ Settled(o) = [session EXCEPT !.status = o]
    BY <1>3 DEF Statuses, Settled
  <2> QED
    BY <1>1, <2>1 DEF SessionSafe, SessionRow, Planning
<1> QED
  BY <1>2, <1>3

LEMMA PlanSession ==
    ASSUME ParallelInv, NEW r \in Runners, NEW p \in NewPlans, Plan(r, p) PROVE SessionSafe(session') /\ p \in Plans
<1> DEFINE had == session.had \cup {p}
<1>1. p \in Plans
  BY DEF NewPlans
<1>2. session \in SessionRow /\ MaxStalls \in Nat /\ 0 \in 0 .. MaxStalls /\ p # NoPlan
  BY <1>1, SessionHas, ParallelLimits
<1>3. had \in SUBSET Plans
  BY <1>1, <1>2 DEF SessionRow
<1>4. session' = [session EXCEPT !.plan = p, !.phase = "planning", !.stalls = 0, !.had = had]
  BY DEF Plan
<1> HIDE DEF had
<1>5. session' \in SessionRow /\ session'.phase = "planning" /\ session'.plan = p
  BY <1>1, <1>2, <1>3, <1>4 DEF SessionRow
<1> QED
  BY <1>1, <1>2, <1>5 DEF SessionSafe, Planning

LEMMA CountSession ==
    ASSUME ParallelInv, NEW r \in Runners, CountChunks(r) PROVE SessionSafe(session')
<1>1. session' = session
      \/ (session.plan = runner[r].plan /\ written[runner[r].plan] = Chunks /\ session' = [session EXCEPT !.phase = "none"])
  BY DEF CountChunks
<1>2. session \in SessionRow /\ SessionSafe(session)
  BY SessionHas
<1>3. CASE session.plan = runner[r].plan /\ written[session.plan] = Chunks /\ session' = [session EXCEPT !.phase = "none"]
  BY <1>2, <1>3 DEF SessionSafe, SessionRow, Planning
<1> QED
  BY <1>1, <1>2, <1>3

LEMMA RecommitSession == ASSUME ParallelInv, Recommit PROVE SessionSafe(session')
<1>1. session \in SessionRow /\ MaxStalls \in Nat
  BY SessionHas, ParallelLimits
<1>2. Committing \in SessionRow /\ Committing.plan = NoPlan /\ Committing.phase = "none"
  BY <1>1 DEF Committing, SessionRow, Statuses
<1>3. session.had \in SUBSET Plans /\ session' = [Committing EXCEPT !.had = session.had]
  BY <1>1 DEF SessionRow, Recommit
<1>4. session' \in SessionRow /\ session'.plan = NoPlan /\ session'.phase = "none"
  BY <1>2, <1>3 DEF SessionRow
<1> QED
  BY <1>4 DEF SessionSafe, Planning

LEMMA NudgeSession == ASSUME ParallelInv, Nudge PROVE SessionSafe(session')
<1> DEFINE n == session.stalls + 1
<1>1. session \in SessionRow /\ MaxStalls \in Nat /\ session.stalls < MaxStalls /\ Planning(session)
  BY SessionHas, ParallelLimits DEF Nudge, SessionSafe
<1>2. n \in 0 .. MaxStalls /\ session' = [session EXCEPT !.stalls = n]
  BY <1>1 DEF SessionRow, Nudge
<1> HIDE DEF n
<1> QED
  BY <1>1, <1>2 DEF SessionSafe, SessionRow, Planning

LEMMA SettleSession == ASSUME ParallelInv, NEW r \in Runners, Settle(r) PROVE SessionSafe(session')
<1>1. runner[r].outcome \in {"committed", "missing", "failed"}
  BY RunnerHas DEF RunnerState, Knows, Settle
<1> QED
  BY <1>1, SettledSafe, SessionHas DEF Settle

LEMMA SessionStep == ASSUME ParallelInv, [Next]_vars PROVE SessionSafe(session')
<1>1. CASE session' = session
  BY <1>1, SessionHas
<1>2. CASE Recommit \/ Recover
  BY <1>2, RecommitSession, NudgeSession, SessionFields DEF Recover, FailSpent, TopUpWaiting, FailStalled
<1>3. ASSUME NEW r \in Runners, session' # session,
             StartCommitJob(r) \/ ResumePlanning(r) \/ StartAssembleJob(r)
             \/ (\E p \in Plans, c \in Chunks : StartPlanJob(r, p, c)) \/ \E u \in DOMAIN unit : StartUnitJob(r, u)
      PROVE  FALSE
  BY <1>3 DEF StartCommitJob, ResumePlanning, StartAssembleJob, StartPlanJob, StartUnitJob, Start
<1>4. ASSUME NEW r \in Runners, Work(r), session' # session PROVE SessionSafe(session')
  <2>1. ASSUME (\E p \in NewPlans : Plan(r, p)) \/ CountChunks(r) \/ Settle(r) PROVE SessionSafe(session')
    BY <2>1, PlanSession, CountSession, SettleSession
  <2>2. ASSUME PlanBusy(r) \/ MarkChunk(r) \/ FinishUnit(r) \/ BuildTree(r) PROVE SessionSafe(session')
    BY <2>2, SessionFields, SessionHas DEF PlanBusy, MarkChunk, FinishUnit, BuildTree, Touched
  <2>3. ASSUME TakeLease(r) \/ Release(r) \/ Die(r) PROVE SessionSafe(session')
    BY <2>3, SessionFields, SessionHas DEF TakeLease, Release, Die
  <2>4. ASSUME PlanLost(r) \/ WriteRows(r) \/ QueueWork(r) \/ PickWaiting(r) \/ PickNone(r) \/ ClaimUnits(r)
               \/ AfterUnit(r) \/ NoLease(r) \/ ReadRows(r)
        PROVE  FALSE
    BY <1>4, <2>4 DEF PlanLost, WriteRows, QueueWork, PickWaiting, PickNone, ClaimUnits, Claims, AfterUnit,
       NoLease, ReadRows
  <2>5. ASSUME (\E u \in runner[r].bad : MergeFailed(r, u)) \/ Publish(r) \/ StopAssembly(r) PROVE FALSE
    BY <1>4, <2>5 DEF MergeFailed, Publish, StopAssembly
  <2> QED
    BY <1>4, <2>1, <2>2, <2>3, <2>4, <2>5 DEF Work
<1>5. CASE \E u \in DOMAIN unit : Age(u)
  BY <1>1, <1>5 DEF Age
<1>6. CASE UNCHANGED vars
  BY <1>1, <1>6 DEF vars
<1> QED
  BY <1>1, <1>2, <1>3, <1>4, <1>5, <1>6 DEF Next

LEMMA MessagesAre ==
    /\ CommitJob \in Messages /\ AssembleJob \in Messages
    /\ \A p \in Plans : ChunkJobs(p) \subseteq Messages
    /\ \A S \in SUBSET UnitId : {UnitJob(u) : u \in S} \subseteq Messages
  BY DEF Messages, ChunkJobs

LEMMA JobsStep == ASSUME ParallelInv, [Next]_vars PROVE jobs' \subseteq Messages
<1>0. jobs \subseteq Messages /\ session \in SessionRow /\ SessionSafe(session)
  BY SessionHas DEF ParallelInv, TypeOK
<1>1. CASE jobs' \subseteq jobs
  BY <1>0, <1>1
<1>2. CASE Recommit
  BY <1>0, <1>2, MessagesAre DEF Recommit
<1>3. CASE Recover
  <2>1. ASSUME NEW S \in SUBSET Live(session.plan), jobs' = jobs \cup {UnitJob(u) : u \in S}
        PROVE  jobs' \subseteq Messages
    <3>1. S \in SUBSET UnitId
      BY LiveAre
    <3> QED
      BY <1>0, <2>1, <3>1, MessagesAre
  <2> QED
    BY <1>0, <1>3, <2>1, MessagesAre DEF Recover, FailSpent, TopUpWaiting, FailStalled, Nudge
<1>4. ASSUME NEW r \in Runners, ResumePlanning(r) PROVE jobs' \subseteq Messages
  <2>1. session.plan \in Plans
    BY <1>0, <1>4 DEF ResumePlanning, SessionSafe, Planning, SessionRow
  <2> QED
    BY <1>0, <1>4, <2>1, MessagesAre DEF ResumePlanning
<1>5. ASSUME NEW r \in Runners, ~(jobs' \subseteq jobs),
             StartCommitJob(r) \/ StartAssembleJob(r)
             \/ (\E p \in Plans, c \in Chunks : StartPlanJob(r, p, c)) \/ \E u \in DOMAIN unit : StartUnitJob(r, u)
      PROVE  FALSE
  BY <1>5 DEF StartCommitJob, StartAssembleJob, StartPlanJob, StartUnitJob, Start
<1>6. ASSUME NEW r \in Runners, Work(r), ~(jobs' \subseteq jobs) PROVE jobs' \subseteq Messages
  <2>1. ASSUME NEW p \in NewPlans, Plan(r, p) PROVE jobs' \subseteq Messages
    BY <1>0, <2>1, PlanSession, MessagesAre DEF Plan, FinishWith
  <2>2. ASSUME ClaimUnits(r) PROVE jobs' \subseteq Messages
    <3> DEFINE mine == {u \in runner[r].list : unit[u].status = "pending" /\ Waiting(u)}
    <3>1. mine \in SUBSET UnitId
      BY RunnerHas DEF RunnerState
    <3>2. jobs' = jobs \cup {UnitJob(u) : u \in mine}
      BY <2>2 DEF ClaimUnits, Claims, FinishWith
    <3> HIDE DEF mine
    <3> QED
      BY <1>0, <3>1, <3>2, MessagesAre
  <2>3. ASSUME QueueWork(r) \/ AfterUnit(r) \/ Release(r) PROVE jobs' \subseteq Messages
    BY <1>0, <2>3, MessagesAre DEF QueueWork, AfterUnit, Release, FinishWith, Finish
  <2>4. ASSUME PlanLost(r) \/ PlanBusy(r) \/ WriteRows(r) \/ MarkChunk(r) \/ CountChunks(r) \/ PickWaiting(r)
               \/ PickNone(r) \/ FinishUnit(r)
        PROVE  FALSE
    BY <1>6, <2>4 DEF PlanLost, PlanBusy, WriteRows, MarkChunk, CountChunks, PickWaiting, PickNone, FinishUnit,
       Finish, FinishWith
  <2>5. ASSUME TakeLease(r) \/ NoLease(r) \/ ReadRows(r) \/ (\E u \in runner[r].bad : MergeFailed(r, u))
               \/ BuildTree(r) \/ Publish(r) \/ Settle(r) \/ StopAssembly(r) \/ Die(r)
        PROVE  FALSE
    BY <1>6, <2>5 DEF TakeLease, NoLease, ReadRows, MergeFailed, BuildTree, Publish, Settle, StopAssembly, Die,
       Finish, FinishWith
  <2> QED
    BY <1>6, <2>1, <2>2, <2>3, <2>4, <2>5 DEF Work
<1>7. CASE \E u \in DOMAIN unit : Age(u)
  BY <1>1, <1>7 DEF Age
<1>8. CASE UNCHANGED vars
  BY <1>1, <1>8 DEF vars
<1> QED
  BY <1>1, <1>2, <1>3, <1>4, <1>5, <1>6, <1>7, <1>8 DEF Next

-----------------------------------------------------------------------------
(* What the rows of a plan say, once they are all there.                   *)

LEMMA TreeIs ==
    ASSUME NEW k \in Ranges
    PROVE  /\ TreeOf(k) \in Ends /\ TreeOf(k) >= k /\ \A f \in Ends : f >= k => f >= TreeOf(k)
<1> DEFINE A == {e \in Ends : e >= k}
<1>1. A \subseteq Nat /\ N \in A
  BY RangesAre, PlanShape
<1>2. \E e \in A : \A f \in A : e <= f
  <2> HIDE DEF A
  <2> QED
    BY <1>1, LeastOf
<1>3. \E e \in Ends : e >= k /\ \A f \in Ends : f >= k => f >= e
  BY <1>1, <1>2
<1> QED
  BY <1>3 DEF TreeOf

LEMMA RowIs ==
    ASSUME ParallelInv, NEW p \in Plans, written[p] = Chunks, NEW k \in Ranges
    PROVE  /\ Planned(p, k) \in DOMAIN unit
           /\ unit[Planned(p, k)].status = "superseded" <=> \E m \in DOMAIN unit : Replaces(m, p, k)
<1>1. Planned(p, k) \in DOMAIN unit
  BY ChunkIs DEF ParallelInv, RowsThere
<1> QED
  BY <1>1, PlannedIs DEF ParallelInv, ReplacedOnce

LEMMA LiveIs ==
    ASSUME ParallelInv, NEW p, NEW u
    PROVE  u \in Live(p) <=> u \in DOMAIN unit /\ u.plan = p /\ unit[u].status # "superseded"
  BY DEF Live, PlanUnits

\* A merged unit always counts, and is over a run.
LEMMA MergedIs ==
    ASSUME ParallelInv, NEW m \in DOMAIN unit, m.copy # 0
    PROVE  Run(m.from, m.to) /\ m \in Live(m.plan) /\ unit[m].status \in {"pending", "done"}
  BY UnitIs, LiveIs DEF Ending, Shaped

\* The planned unit of a range in a run has been replaced if any other of the run has.
LEMMA RunTogether ==
    ASSUME ParallelInv, NEW p \in Plans, written[p] = Chunks, NEW from, NEW to, Run(from, to),
           NEW k \in from .. to, NEW l \in from .. to, Planned(p, k) \in Live(p)
    PROVE  Planned(p, l) \in Live(p)
<1>1. from \in Nat /\ to \in Nat /\ k \in Ranges /\ l \in Ranges /\ k \in Nat /\ l \in Nat
  BY RangesAre DEF Run
<1>2. unit[Planned(p, k)].status # "superseded"
  BY LiveIs
<1>3. \A m \in DOMAIN unit : ~Replaces(m, p, k)
  BY <1>1, <1>2, RowIs
<1>4. ASSUME NEW m \in DOMAIN unit, Replaces(m, p, l) PROVE FALSE
  <2>1. Run(m.from, m.to) /\ m.plan = p /\ m.copy # 0 /\ m.from <= l /\ l <= m.to
    BY <1>4, MergedIs DEF Replaces
  <2>2. m.from = from /\ m.to = to
    BY <1>1, <2>1, RunsMeet
  <2>3. Replaces(m, p, k)
    BY <1>1, <2>1, <2>2 DEF Replaces
  <2> QED
    BY <1>3, <2>3
<1> QED
  BY <1>1, <1>4, RowIs, LiveIs, PlannedIs

\* A planned unit that counts and a merged unit don't meet.
LEMMA MergedApart ==
    ASSUME ParallelInv, NEW p \in Plans, written[p] = Chunks, NEW from, NEW to, Run(from, to),
           Planned(p, from) \in Live(p), NEW m \in DOMAIN unit, m.plan = p, m.copy # 0
    PROVE  m.to < from \/ to < m.from
<1>1. Run(m.from, m.to)
  BY MergedIs
<1>2. from \in Ranges /\ to \in Nat /\ from \in Nat /\ m.from \in Nat /\ m.to \in Nat /\ from <= to /\ m.from <= m.to
  BY <1>1, RangesAre DEF Run
<1>3. SUFFICES ASSUME m.from <= to, from <= m.to PROVE FALSE
  BY <1>2
<1>4. m.from = from
  <2>1. CASE m.from <= from
    BY <1>1, <1>2, <1>3, <2>1, RunsMeet
  <2>2. CASE from <= m.from
    BY <1>1, <1>2, <1>3, <2>2, RunsMeet
  <2> QED
    BY <1>2, <2>1, <2>2
<1>5. Replaces(m, p, from)
  BY <1>2, <1>4 DEF Replaces
<1> QED
  BY <1>2, <1>5, RowIs, LiveIs

\* The units that count cover every range ...
LEMMA LiveCover ==
    ASSUME ParallelInv, NEW p \in Plans, written[p] = Chunks, NEW k \in Ranges
    PROVE  \E u \in Live(p) : u.from <= k /\ k <= u.to
<1>1. k \in Nat
  BY RangesAre
<1>2. CASE unit[Planned(p, k)].status = "superseded"
  <2>1. PICK m \in DOMAIN unit : Replaces(m, p, k)
    BY <1>2, RowIs
  <2> QED
    BY <2>1, MergedIs DEF Replaces
<1>3. CASE unit[Planned(p, k)].status # "superseded"
  <2>1. Planned(p, k) \in Live(p)
    BY <1>3, RowIs, LiveIs, PlannedIs
  <2> QED
    BY <1>1, <2>1, PlannedIs
<1> QED
  BY <1>2, <1>3

\* ... and no two meet but twins.
LEMMA LiveApart ==
    ASSUME ParallelInv, NEW p \in Plans, written[p] = Chunks, NEW u \in Live(p), NEW v \in Live(p)
    PROVE  u = v \/ u.to < v.from \/ v.to < u.from \/ Twins(u, v)
<1>1. u \in DOMAIN unit /\ v \in DOMAIN unit /\ u.plan = p /\ v.plan = p
      /\ unit[u].status # "superseded" /\ unit[v].status # "superseded"
  BY LiveIs
<1>2. /\ u \in UnitId /\ v \in UnitId /\ Shaped(u) /\ Shaped(v)
      /\ u.from \in Nat /\ v.from \in Nat /\ u.to \in Nat /\ v.to \in Nat /\ u.from <= u.to /\ v.from <= v.to
  BY <1>1, UnitIs
<1>3. SUFFICES ASSUME v.from <= u.to, u.from <= v.to PROVE u = v \/ Twins(u, v)
  BY <1>2
<1>4. CASE u.copy = 0 /\ v.copy = 0
  <2>1. u = Planned(p, u.from) /\ v = Planned(p, v.from) /\ u.to = u.from /\ v.to = v.from
    BY <1>1, <1>2, <1>4, PlannedOnly
  <2>2. u.from = v.from
    BY <1>2, <1>3, <2>1
  <2> QED
    BY <2>1, <2>2
<1>5. ASSUME NEW a \in DOMAIN unit, NEW m \in DOMAIN unit, a.plan = p, m.plan = p, a.copy = 0, m.copy # 0,
             unit[a].status # "superseded", a.from = a.to, m.from <= a.to, a.from <= m.to
      PROVE  FALSE
  <2>1. Replaces(m, p, a.from)
    BY <1>5 DEF Replaces
  <2> QED
    BY <1>5, <2>1 DEF ParallelInv, ReplacedOnce
<1>6. CASE u.copy = 0 /\ v.copy # 0
  BY <1>1, <1>2, <1>3, <1>5, <1>6 DEF Shaped
<1>7. CASE u.copy # 0 /\ v.copy = 0
  BY <1>1, <1>2, <1>3, <1>5, <1>7 DEF Shaped
<1>8. CASE u.copy # 0 /\ v.copy # 0
  <2>1. Run(u.from, u.to) /\ Run(v.from, v.to)
    BY <1>1, <1>8, MergedIs
  <2>2. u.from = v.from /\ u.to = v.to
    <3>1. CASE u.from <= v.from
      BY <1>2, <1>3, <2>1, <3>1, RunsMeet
    <3>2. CASE v.from <= u.from
      BY <1>2, <1>3, <2>1, <3>2, RunsMeet
    <3> QED
      BY <1>2, <3>1, <3>2
  <2>3. u.copy \in Nat /\ v.copy \in Nat
    BY <1>2, ParallelLimits DEF UnitId
  <2> QED
    BY <1>8, <2>2, <2>3 DEF Twins
<1> QED
  BY <1>4, <1>6, <1>7, <1>8

LEMMA TileFollows == ASSUME ParallelInv PROVE UnitsTile
<1> SUFFICES ASSUME session.status = "committing", session.plan # NoPlan, session.phase = "none"
             PROVE  /\ \A u, v \in Live(session.plan) : Disjoint({u, v}) \/ Twins(u, v)
                    /\ \A k \in Ranges : Covers(Live(session.plan), k) # {}
  BY DEF UnitsTile
<1>1. session.plan \in Plans /\ written[session.plan] = Chunks
  BY SessionHas DEF SessionSafe, Planning, SessionRow
<1>2. ASSUME NEW u \in Live(session.plan), NEW v \in Live(session.plan) PROVE Disjoint({u, v}) \/ Twins(u, v)
  BY <1>1, LiveApart DEF Disjoint
<1>3. \A k \in Ranges : Covers(Live(session.plan), k) # {}
  BY <1>1, LiveCover DEF Covers
<1> QED
  BY <1>2, <1>3

-----------------------------------------------------------------------------
(* What an assembly reads, and what it makes one unit of.                  *)

LEMMA ReadMerges ==
    ASSUME ParallelInv, NEW x \in RunnerState, x.plan \in Plans, written[x.plan] = Chunks,
           PendingUnits(x.plan) = {}, x.list = Live(x.plan),
           x.bad = {u \in Live(x.plan) : unit[u].status = "failed"}, x.bad # {}
    PROVE  HeldUnits(x) /\ HeldRuns(x) /\ HeldBad(x)
<1>1. \A u \in x.list : u \in DOMAIN unit /\ u.plan = x.plan /\ unit[u].status \in {"done", "failed"}
  <2> SUFFICES ASSUME NEW u \in x.list
               PROVE  u \in DOMAIN unit /\ u.plan = x.plan /\ unit[u].status \in {"done", "failed"}
    OBVIOUS
  <2>1. u \in DOMAIN unit /\ u.plan = x.plan /\ unit[u].status # "superseded"
    BY LiveIs
  <2>2. unit[u].status # "pending"
    BY <2>1 DEF PendingUnits, PlanUnits
  <2> QED
    BY <2>1, <2>2, UnitIs DEF UnitRow
<1>2. HeldUnits(x)
  BY <1>1 DEF HeldUnits
<1>3. HeldRuns(x)
  <2> SUFFICES ASSUME NEW from \in Ranges, NEW to \in Ranges, Run(from, to), Planned(x.plan, from) \in x.list
               PROVE  /\ \A k \in from .. to : Planned(x.plan, k) \in x.list
                      /\ \A m \in x.list : m.copy # 0 => (m.to < from \/ to < m.from)
    BY DEF HeldRuns
  <2>1. from \in from .. to
    BY RangesAre DEF Run
  <2>2. \A k \in from .. to : Planned(x.plan, k) \in x.list
    BY <2>1, RunTogether
  <2>3. \A m \in x.list : m.copy # 0 => (m.to < from \/ to < m.from)
    BY <1>1, MergedApart
  <2> QED
    BY <2>2, <2>3
<1>4. x.bad \subseteq x.list /\ x.bad # {}
  OBVIOUS
<1>5. \A u \in x.bad : u.copy = 0 /\ u.from \in Gone
  BY <1>1, UnitIs DEF Ending, Shaped
<1>6. ASSUME NEW from \in Ranges, NEW to \in Ranges, Run(from, to),
             NEW k \in from .. (to - 1), Planned(x.plan, k) \in x.bad, NEW l \in from .. (to - 1)
      PROVE  Planned(x.plan, l) \in x.bad
  <2>1. k \in from .. to /\ l \in from .. to /\ l \in Ranges /\ l \in Gone
    BY <1>6, RangesAre DEF Run
  <2>2. Planned(x.plan, l) \in x.list
    BY <1>6, <2>1, RunTogether
  <2>3. Planned(x.plan, l).to = l
    BY <2>1, PlannedIs
  <2>4. unit[Planned(x.plan, l)].status # "done"
    BY <1>1, <2>1, <2>2, <2>3, UnitIs DEF Ending
  <2> QED
    BY <1>1, <2>2, <2>4
<1>7. HeldBad(x)
  BY <1>4, <1>5, <1>6 DEF HeldBad
<1> QED
  BY <1>2, <1>3, <1>7

LEMMA ReadBuilds ==
    ASSUME ParallelInv, NEW x \in RunnerState, x.plan \in Plans, written[x.plan] = Chunks,
           PendingUnits(x.plan) = {}, x.list = Live(x.plan), {u \in Live(x.plan) : unit[u].status = "failed"} = {}
    PROVE  HeldWhole(x)
<1>1. ASSUME NEW u \in x.list PROVE u.plan = x.plan /\ Shaped(u) /\ u.to \notin Gone
  <2>1. u \in DOMAIN unit /\ u.plan = x.plan /\ unit[u].status # "superseded" /\ unit[u].status # "failed"
    BY <1>1, LiveIs
  <2>2. unit[u].status # "pending"
    BY <2>1 DEF PendingUnits, PlanUnits
  <2>3. unit[u].status = "done"
    BY <2>1, <2>2, UnitIs DEF UnitRow
  <2> QED
    BY <2>1, <2>3, UnitIs DEF Ending
<1>2. \A k \in Ranges : \E u \in x.list : u.from <= k /\ k <= u.to
  BY LiveCover
<1> QED
  BY <1>1, <1>2 DEF HeldWhole

\* The first failed unit begins a run, and what is merged with it is the run.
LEMMA MergeGroup ==
    ASSUME ParallelInv, NEW r \in Runners, runner[r].pc = "merge", NEW u \in runner[r].bad,
           \A v \in runner[r].bad : u.from <= v.from
    PROVE  \E to \in Ranges :
              /\ Run(u.from, to) /\ u.from < to /\ u.plan = runner[r].plan /\ u.plan \in Plans
              /\ LET group == Members(runner[r].list, runner[r].bad, u)
                 IN  /\ Last(group) = to
                     /\ group = {Planned(u.plan, k) : k \in u.from .. to}
                     /\ group \subseteq runner[r].list
<1> DEFINE list == runner[r].list
           bad == runner[r].bad
           p == runner[r].plan
           group == Members(list, bad, u)
<1>1. HeldUnits(runner[r]) /\ HeldRuns(runner[r]) /\ HeldBad(runner[r]) /\ p \in Plans
  BY RunnerHas DEF Knows
<1>2. \A v \in list : v \in DOMAIN unit /\ v.plan = p
  BY <1>1 DEF HeldUnits
<1>3. \A v \in bad : v \in list /\ v.copy = 0 /\ v.from \in Gone
  BY <1>1 DEF HeldBad
<1>4. \A v \in list : /\ v \in UnitId /\ Shaped(v) /\ v.from \in Ranges /\ v.to \in Ranges
                      /\ v.from \in Nat /\ v.to \in Nat /\ v.from <= v.to
  BY <1>2, UnitIs
<1>5. \A v \in list : v.copy = 0 => v = Planned(p, v.from) /\ v.to = v.from
  BY <1>2, <1>4, PlannedOnly
<1>6. u \in list /\ u.copy = 0 /\ u.from \in Gone /\ u = Planned(p, u.from) /\ u.to = u.from
  BY <1>3, <1>5
<1>7. PICK from, to \in Ranges : Run(from, to) /\ from <= u.from /\ u.from < to
  BY <1>6, RunAround
<1>8. from \in Nat /\ to \in Nat /\ u.from \in from .. (to - 1) /\ from \in from .. (to - 1)
  <2>1. from \in Nat /\ to \in Nat /\ u.from \in Nat
    BY <1>6, RangesAre
  <2> QED
    BY <1>7, <2>1
<1>9. \A k \in from .. (to - 1) : Planned(p, k) \in bad
  BY <1>1, <1>6, <1>7, <1>8 DEF HeldBad
<1>10. u.from = from
  <2>1. Planned(p, from) \in bad /\ Planned(p, from).from = from
    BY <1>1, <1>8, <1>9, PlannedIs
  <2> QED
    BY <1>4, <1>6, <1>7, <1>8, <2>1
<1>11. /\ \A k \in from .. to : Planned(p, k) \in list
       /\ \A m \in list : m.copy # 0 => (m.to < from \/ to < m.from)
  BY <1>1, <1>6, <1>7, <1>10 DEF HeldRuns
<1>12. \A k \in from .. to : k \in Ranges /\ k \in Nat /\ TreeOf(k) = TreeOf(from)
  <2>1. TreeOf(from) = TreeOf(to)
    BY <1>7, <1>8, RunInTree
  <2> SUFFICES ASSUME NEW k \in from .. to PROVE k \in Ranges /\ k \in Nat /\ TreeOf(k) = TreeOf(to)
    BY <2>1
  <2>2. k \in Nat /\ from <= k /\ k <= to
    BY <1>8
  <2> QED
    BY <1>7, <2>2, RunInTree, RangesAre
<1>13. ASSUME NEW k \in from .. to PROVE Planned(p, k) \in group
  <2>1. Planned(p, k) \in list /\ Planned(p, k).to = k /\ Planned(p, k).from = k /\ k >= from
    BY <1>1, <1>8, <1>11, <1>12, PlannedIs
  <2>2. ASSUME NEW w \in list, w \notin bad, from <= w.from, w.from < k PROVE FALSE
    <3>1. w.from \in from .. (to - 1)
      BY <1>4, <1>8, <2>2
    <3>2. w.copy = 0
      BY <1>4, <1>8, <1>11, <2>2, <3>1
    <3> QED
      BY <1>5, <1>9, <2>2, <3>1, <3>2
  <2>3. TreeOf(k) = TreeOf(u.to)
    BY <1>6, <1>10, <1>12
  <2> QED
    BY <1>6, <1>10, <2>1, <2>2, <2>3 DEF Members
<1>14. ASSUME NEW v \in group PROVE v \in list /\ \E k \in from .. to : v = Planned(p, k)
  <2>1. /\ v \in list /\ v.from >= from
        /\ \A w \in list \ bad : ~(TreeOf(w.to) = TreeOf(from) /\ from <= w.from /\ w.from < v.from)
    BY <1>6, <1>10 DEF Members
  <2>2. to \in from .. to
    BY <1>7, <1>8, <1>10
  <2>3. Planned(p, to) \in list /\ Planned(p, to).from = to /\ Planned(p, to).to = to
    BY <1>1, <1>7, <1>11, <2>2, PlannedIs
  <2>4. Planned(p, to) \notin bad
    BY <1>3, <1>7, <2>3 DEF Run
  <2>5. ~(to < v.from)
    BY <1>8, <1>12, <2>1, <2>2, <2>3, <2>4
  <2>6. v.from \in from .. to
    BY <1>4, <1>8, <2>1, <2>5
  <2>7. v.copy = 0
    BY <1>4, <1>8, <1>11, <2>1, <2>6
  <2> QED
    BY <1>5, <2>1, <2>6, <2>7
<1>15. group = {Planned(p, k) : k \in from .. to} /\ group \subseteq list
  BY <1>13, <1>14
<1>16. Last(group) = to
  <2> DEFINE tos == {v.to : v \in group}
  <2>1. tos = from .. to
    <3>1. \A k \in from .. to : Planned(p, k).to = k
      BY <1>1, <1>12, PlannedIs
    <3> HIDE DEF group
    <3> QED
      BY <1>15, <3>1
  <2>2. Last(group) = CHOOSE k \in tos : \A j \in tos : j <= k
    <3>1. \A k : (\A v \in group : v.to <= k) <=> (\A j \in tos : j <= k)
      OBVIOUS
    <3> HIDE DEF group
    <3> QED
      BY <3>1 DEF Last
  <2>3. \E k \in tos : \A j \in tos : j <= k
    BY <1>8, <1>10, <1>7, <2>1
  <2> HIDE DEF tos
  <2>4. Last(group) \in tos /\ \A j \in tos : j <= Last(group)
    BY <2>2, <2>3
  <2>5. to \in tos
    BY <1>7, <1>8, <1>10, <2>1
  <2>6. Last(group) \in from .. to /\ to <= Last(group)
    BY <2>1, <2>4, <2>5
  <2> HIDE DEF group
  <2> QED
    BY <1>8, <2>6
<1>17. u.plan = p
  BY <1>2, <1>6
<1> HIDE DEF group
<1>18. Run(u.from, to) /\ u.from < to /\ u.plan = runner[r].plan /\ u.plan \in Plans
  BY <1>1, <1>7, <1>10, <1>17
<1>19. group = {Planned(u.plan, k) : k \in u.from .. to}
  BY <1>10, <1>15, <1>17
<1> QED
  BY <1>15, <1>16, <1>18, <1>19 DEF group

-----------------------------------------------------------------------------
(* The rows, after each kind of step.                                      *)

UnitsInv ==
    /\ DOMAIN unit \subseteq UnitId /\ \A u \in DOMAIN unit : unit[u] \in UnitRow
    /\ UnitsEnd /\ ReplacedOnce /\ RowsThere

\* What is there stays, and what has ended stays ended.
Grown ==
    /\ DOMAIN unit \subseteq DOMAIN unit'
    /\ \A u \in DOMAIN unit : unit[u].status # "pending" => unit'[u].status # "pending"
    /\ \A p \in Plans : written[p] = Chunks => written'[p] = Chunks

LEMMA UnitsHave == ASSUME ParallelInv PROVE UnitsInv
  BY DEF ParallelInv, TypeOK, UnitsInv

\* Rows that keep their units and how far these are keep everything.
LEMMA SameKeeps == ASSUME ParallelInv, SameUnits, written' = written PROVE UnitsInv' /\ Grown
<1>1. UnitsInv /\ DOMAIN unit' = DOMAIN unit
      /\ \A u \in DOMAIN unit : unit'[u] \in UnitRow /\ unit'[u].status = unit[u].status
  BY UnitsHave DEF SameUnits
<1>2. UnitsEnd'
  BY <1>1 DEF UnitsInv, UnitsEnd, Ending, Shaped, Run
<1>3. ReplacedOnce'
  BY <1>1 DEF UnitsInv, ReplacedOnce, Replaces
<1>4. RowsThere'
  BY <1>1 DEF UnitsInv, RowsThere
<1> QED
  BY <1>1, <1>2, <1>3, <1>4 DEF UnitsInv, Grown

LEMMA RowsOf ==
    ASSUME ParallelInv, NEW r \in Runners, runner[r].pc = "rows"
    PROVE  /\ runner[r].plan \in Plans /\ runner[r].job[3] \in Chunks
           /\ \A u \in ChunkUnitsOf(r) : \E k \in Ranges : u = Planned(runner[r].plan, k)
           /\ \A k \in Ranges : ChunkOf(k) = runner[r].job[3] => Planned(runner[r].plan, k) \in ChunkUnitsOf(r)
<1>1. PICK c \in Chunks : runner[r].plan \in Plans /\ runner[r].job = PlanJob(runner[r].plan, c)
  BY RunnerHas DEF Knows
<1>2. runner[r].job[3] = c
  BY <1>1 DEF PlanJob
<1> QED
  BY <1>1, <1>2 DEF ChunkUnitsOf

\* New rows are of planned units that were not there: none has been replaced.
LEMMA FillsKeep == ASSUME ParallelInv, NEW r \in Runners, Fills(r) PROVE UnitsInv' /\ Grown
<1> DEFINE p == runner[r].plan
<1>1. PICK S \in SUBSET Missing(r) :
         unit' = [u \in DOMAIN unit \cup S |-> IF u \in S THEN NewRow(u) ELSE unit[u]]
  BY DEF Fills
<1>2. written' = written /\ p \in Plans /\ UnitsInv
  BY RowsOf, UnitsHave DEF Fills
<1>3. \A u \in S : /\ u \notin DOMAIN unit /\ \E k \in Ranges : u = Planned(p, k)
                   /\ u \in UnitId /\ Shaped(u) /\ u.plan = p /\ u.copy = 0 /\ u.to = u.from
  BY <1>2, RowsOf, PlannedIs DEF Missing, Fills
<1>4. /\ DOMAIN unit' = DOMAIN unit \cup S
      /\ \A u \in S : unit'[u] = NewRow(u)
      /\ \A u \in DOMAIN unit : unit'[u] = unit[u]
  BY <1>1, <1>3
<1>5. \A u \in S : unit'[u] \in UnitRow /\ unit'[u].status \in {"pending", "done"}
                   /\ (unit'[u].status = "done" => u.to \notin Gone)
  <2> SUFFICES ASSUME NEW u \in S
               PROVE  NewRow(u) \in UnitRow /\ NewRow(u).status \in {"pending", "done"}
                      /\ (NewRow(u).status = "done" => u.to \notin Gone)
    BY <1>4
  <2>1. Pending \in UnitRow /\ Pending.status = "pending"
    BY ParallelLimits DEF Pending, UnitRow
  <2>2. [Pending EXCEPT !.status = "done"] \in UnitRow /\ [Pending EXCEPT !.status = "done"].status = "done"
    BY <2>1 DEF UnitRow
  <2>3. IsGap(u) => u.to \notin Gone
    BY <1>3, RangesAre DEF IsGap
  <2> QED
    BY <2>1, <2>2, <2>3 DEF NewRow
<1>6. UnitsEnd'
  <2>1. \A u \in S : Ending(u)'
    BY <1>3, <1>5 DEF Ending, Shaped, Run
  <2>2. \A u \in DOMAIN unit : Ending(u)'
    BY <1>2, <1>4 DEF UnitsInv, UnitsEnd, Ending, Shaped, Run
  <2> QED
    BY <1>4, <2>1, <2>2 DEF UnitsEnd
<1>7. \A m, q, k : Replaces(m, q, k)' <=> Replaces(m, q, k)
  BY <1>3, <1>4 DEF Replaces
<1>8. ASSUME NEW u \in S, NEW m \in DOMAIN unit, Replaces(m, u.plan, u.from) PROVE FALSE
  <2>1. written[p] = Chunks
    BY <1>2, <1>3, <1>8 DEF UnitsInv, ReplacedOnce, Replaces
  <2> QED
    BY <1>2, <1>3, <2>1, RowIs
<1>9. ReplacedOnce'
  <2>1. ASSUME NEW u \in DOMAIN unit', u.copy = 0
        PROVE  (unit[u].status)' = "superseded" <=> \E m \in DOMAIN unit' : Replaces(m, u.plan, u.from)'
    <3>1. (\E m \in DOMAIN unit' : Replaces(m, u.plan, u.from)') <=> \E m \in DOMAIN unit : Replaces(m, u.plan, u.from)
      BY <1>4, <1>7 DEF Replaces
    <3>2. CASE u \in S
      BY <1>4, <1>5, <1>8, <3>1, <3>2
    <3>3. CASE u \in DOMAIN unit
      BY <1>2, <1>4, <2>1, <3>1, <3>3 DEF UnitsInv, ReplacedOnce
    <3> QED
      BY <1>4, <3>2, <3>3
  <2>2. \A m \in DOMAIN unit' : m.copy # 0 => (written[m.plan])' = Chunks
    BY <1>2, <1>3, <1>4 DEF UnitsInv, ReplacedOnce
  <2> QED
    BY <2>1, <2>2 DEF ReplacedOnce
<1>10. RowsThere'
  BY <1>2, <1>4 DEF UnitsInv, RowsThere
<1>11. DOMAIN unit' \subseteq UnitId /\ \A u \in DOMAIN unit' : unit'[u] \in UnitRow
  BY <1>2, <1>3, <1>4, <1>5 DEF UnitsInv
<1>12. Grown
  BY <1>2, <1>4 DEF Grown
<1> QED
  BY <1>6, <1>9, <1>10, <1>11, <1>12 DEF UnitsInv

LEMMA MarksKeep ==
    ASSUME ParallelInv, NEW r \in Runners, NEW x \in RunnerState, Marks(r, x)
    PROVE  UnitsInv' /\ Grown /\ written' \in [Plans -> SUBSET Chunks]
<1> DEFINE p == runner[r].plan
           c == runner[r].job[3]
<1>1. /\ written' = [written EXCEPT ![p] = written[p] \cup {c}] /\ unit' = unit /\ Missing(r) = {}
      /\ p \in Plans /\ c \in Chunks /\ UnitsInv
  BY RowsOf, UnitsHave DEF Marks
<1>2. written \in [Plans -> SUBSET Chunks]
  BY DEF ParallelInv, TypeOK
<1>3. written' \in [Plans -> SUBSET Chunks] /\ \A q \in Plans : written'[q] = written[q] \/ (q = p /\ written'[q] = written[q] \cup {c})
  BY <1>1, <1>2
<1>4. Grown
  BY <1>1, <1>2, <1>3 DEF Grown
<1>5. RowsThere'
  <2> SUFFICES ASSUME NEW q \in Plans, NEW k \in Ranges, ChunkOf(k) \in written'[q]
               PROVE  Planned(q, k) \in DOMAIN unit
    BY <1>1 DEF RowsThere, Planned, ChunkOf
  <2>1. CASE ChunkOf(k) \in written[q]
    BY <1>1, <2>1 DEF UnitsInv, RowsThere
  <2>2. CASE q = p /\ ChunkOf(k) = c
    BY <1>1, <2>2, RowsOf DEF Missing, Marks
  <2> QED
    BY <1>3, <2>1, <2>2
<1>6. ReplacedOnce'
  <2>1. \A m \in DOMAIN unit : m.copy # 0 => written'[m.plan] = Chunks
    BY <1>1, <1>4, UnitIs DEF UnitsInv, ReplacedOnce, Grown
  <2> QED
    BY <1>1, <2>1 DEF UnitsInv, ReplacedOnce, Replaces
<1>7. UnitsEnd'
  BY <1>1 DEF UnitsInv, UnitsEnd, Ending, Shaped, Run
<1> QED
  BY <1>1, <1>3, <1>4, <1>5, <1>6, <1>7 DEF UnitsInv

LEMMA FinishesKeep ==
    ASSUME ParallelInv, NEW r \in Runners, NEW x \in RunnerState, Finishes(r, x) PROVE UnitsInv' /\ Grown
<1>1. PICK u \in DOMAIN unit :
         unit' = IF unit[u].status # "pending" THEN unit
                 ELSE [unit EXCEPT ![u].status = IF Survives(u) THEN "done" ELSE "failed"]
  BY DEF Finishes
<1>2. written' = written /\ UnitsInv
  BY UnitsHave DEF Finishes
<1>3. CASE unit[u].status # "pending"
  <2>1. SameUnits
    BY <1>1, <1>3, UnitsSame
  <2> QED
    BY <1>2, <2>1, SameKeeps
<1>4. CASE unit[u].status = "pending"
  <2> DEFINE status == IF Survives(u) THEN "done" ELSE "failed"
  <2>1. unit' = [unit EXCEPT ![u].status = status]
    BY <1>1, <1>4
  <2>2. /\ status \in {"done", "failed"} /\ (status = "done" <=> u.to \notin Gone)
        /\ (status = "failed" <=> u.to \in Gone)
    BY DEF Survives
  <2> HIDE DEF status
  <2>3. unit[u] \in UnitRow /\ Shaped(u)
    BY UnitIs
  <2>4. DOMAIN unit' = DOMAIN unit /\ unit'[u] \in UnitRow /\ unit'[u].status = status
        /\ \A v \in DOMAIN unit : v # u => unit'[v] = unit[v]
    BY <2>1, <2>2, <2>3 DEF UnitRow
  <2>5. ASSUME u.copy # 0 PROVE status = "done"
    BY <2>2, <2>5, MergedIs DEF Run
  <2>6. Ending(u)'
    BY <2>2, <2>3, <2>4, <2>5 DEF Ending, Shaped, Run
  <2>7. UnitsEnd'
    BY <1>2, <2>4, <2>6 DEF UnitsInv, UnitsEnd, Ending, Shaped, Run
  <2>8. \A v \in DOMAIN unit : unit'[v].status = "superseded" <=> unit[v].status = "superseded"
    BY <1>4, <2>2, <2>4
  <2>9. ReplacedOnce'
    BY <1>2, <2>4, <2>8 DEF UnitsInv, ReplacedOnce, Replaces
  <2>10. RowsThere' /\ Grown
    BY <1>2, <2>2, <2>4 DEF UnitsInv, RowsThere, Grown
  <2> QED
    BY <1>2, <2>4, <2>7, <2>9, <2>10 DEF UnitsInv
<1> QED
  BY <1>3, <1>4

\* What a merge does: the units of a run are replaced by one that was not there.
MergesRun(r, x, from, to, merged) ==
    LET p == runner[r].plan
        group == {Planned(p, k) : k \in from .. to}
    IN  /\ p \in Plans /\ written[p] = Chunks /\ written' = written
        /\ Run(from, to) /\ from < to /\ group \subseteq runner[r].list /\ group \subseteq DOMAIN unit
        /\ merged \in UnitId /\ merged \notin DOMAIN unit /\ merged.copy # 0
        /\ merged.plan = p /\ merged.from = from /\ merged.to = to
        /\ DOMAIN unit' = DOMAIN unit \cup {merged}
        /\ unit'[merged] = Pending
        /\ \A v \in group : unit'[v] = [unit[v] EXCEPT !.status = "superseded"]
        /\ \A v \in DOMAIN unit : v \notin group => unit'[v] = unit[v]
        /\ \/ x.pc = "release"
           \/ /\ x.pc = "merge" /\ x.plan = p /\ x.list = runner[r].list
              /\ x.bad = runner[r].bad \ group /\ x.bad # {}

LEMMA MergesAre ==
    ASSUME ParallelInv, NEW r \in Runners, NEW x \in RunnerState, Merges(r, x)
    PROVE  \E from, to, merged : MergesRun(r, x, from, to, merged)
<1> DEFINE p == runner[r].plan
<1>1. PICK u \in runner[r].bad, copy \in 1 .. MaxCopies :
          LET group == Members(runner[r].list, runner[r].bad, u)
              merged == MergedUnit(u, Last(group), copy)
          IN  /\ \A v \in runner[r].bad : u.from <= v.from
              /\ \A c \in Copies(u.plan, u.from, Last(group)) : c < copy
              /\ unit' = [v \in DOMAIN unit \cup {merged} |->
                            IF v = merged THEN Pending
                            ELSE IF v \in group THEN [unit[v] EXCEPT !.status = "superseded"]
                            ELSE unit[v]]
              /\ \/ x.pc = "release"
                 \/ /\ x.pc = "merge" /\ x.plan = runner[r].plan /\ x.list = runner[r].list
                    /\ x.bad = runner[r].bad \ group /\ x.bad # {}
  BY DEF Merges
<1>2. runner[r].pc = "merge" /\ written' = written /\ p \in Plans /\ written[p] = Chunks
      /\ HeldUnits(runner[r])
  BY RunnerHas DEF Merges, Knows
<1>3. PICK to \in Ranges :
              /\ Run(u.from, to) /\ u.from < to /\ u.plan = p /\ u.plan \in Plans
              /\ LET group == Members(runner[r].list, runner[r].bad, u)
                 IN  /\ Last(group) = to
                     /\ group = {Planned(u.plan, k) : k \in u.from .. to}
                     /\ group \subseteq runner[r].list
  BY <1>1, <1>2, MergeGroup
<1> DEFINE from == u.from
           group == {Planned(p, k) : k \in from .. to}
           merged == MergedUnit(u, to, copy)
<1>4. Members(runner[r].list, runner[r].bad, u) = group /\ Last(group) = to /\ group \subseteq runner[r].list
  BY <1>3
<1>5. group \subseteq DOMAIN unit
  BY <1>2, <1>4 DEF HeldUnits
<1>6. copy \in 0 .. MaxCopies /\ copy # 0 /\ copy \in Nat
  BY ParallelLimits
<1>7. merged \in UnitId /\ merged.copy = copy /\ merged.plan = p /\ merged.from = from /\ merged.to = to
  BY <1>3, <1>6 DEF MergedUnit, UnitId, Run
<1>8. merged \notin DOMAIN unit
  <2> SUFFICES ASSUME merged \in DOMAIN unit PROVE FALSE
    OBVIOUS
  <2>1. merged \in PlanUnits(u.plan) /\ merged.from = u.from /\ merged.to = to
    BY <1>3, <1>7 DEF PlanUnits
  <2> HIDE DEF merged
  <2>2. copy \in Copies(u.plan, u.from, to)
    BY <1>7, <2>1 DEF Copies
  <2> QED
    BY <1>1, <1>4, <1>6, <2>2
<1>9. \A v \in group : v # merged
  BY <1>5, <1>8
<1>10. unit' = [v \in DOMAIN unit \cup {merged} |->
                  IF v = merged THEN Pending
                  ELSE IF v \in group THEN [unit[v] EXCEPT !.status = "superseded"]
                  ELSE unit[v]]
  BY <1>1, <1>4
<1>11. \/ x.pc = "release"
       \/ /\ x.pc = "merge" /\ x.plan = p /\ x.list = runner[r].list
          /\ x.bad = runner[r].bad \ group /\ x.bad # {}
  BY <1>1, <1>4
<1>12. Run(from, to) /\ from < to
  BY <1>3
<1> HIDE DEF merged
<1>13. /\ DOMAIN unit' = DOMAIN unit \cup {merged}
       /\ unit'[merged] = Pending
       /\ \A v \in group : unit'[v] = [unit[v] EXCEPT !.status = "superseded"]
       /\ \A v \in DOMAIN unit : v \notin group => unit'[v] = unit[v]
  <2> HIDE DEF group
  <2> QED
    BY <1>5, <1>8, <1>9, <1>10
<1>14. MergesRun(r, x, from, to, merged)
  BY <1>2, <1>4, <1>5, <1>6, <1>7, <1>8, <1>11, <1>12, <1>13 DEF MergesRun
<1> QED
  BY <1>14

LEMMA MergesKeep ==
    ASSUME ParallelInv, NEW r \in Runners, NEW x \in RunnerState, Merges(r, x) PROVE UnitsInv' /\ Grown
<1> DEFINE p == runner[r].plan
<1>1. PICK from, to, merged : MergesRun(r, x, from, to, merged)
  BY MergesAre
<1> DEFINE group == {Planned(p, k) : k \in from .. to}
<1>2. /\ p \in Plans /\ written[p] = Chunks /\ written' = written /\ UnitsInv
      /\ Run(from, to) /\ from < to /\ group \subseteq DOMAIN unit
  BY <1>1, UnitsHave DEF MergesRun
<1>3. /\ merged \in UnitId /\ merged \notin DOMAIN unit /\ merged.copy # 0
      /\ merged.plan = p /\ merged.from = from /\ merged.to = to
  BY <1>1 DEF MergesRun
<1>4. /\ DOMAIN unit' = DOMAIN unit \cup {merged}
      /\ unit'[merged] = Pending
      /\ \A v \in group : unit'[v] = [unit[v] EXCEPT !.status = "superseded"]
      /\ \A v \in DOMAIN unit : v \notin group => unit'[v] = unit[v]
  BY <1>1 DEF MergesRun
<1>5. from \in Nat /\ to \in Nat /\ \A k \in from .. to : k \in Ranges /\ k \in Nat
  BY <1>2, RangesAre DEF Run
<1>6. \A v \in group : v \in DOMAIN unit /\ v.plan = p /\ v.copy = 0 /\ from <= v.from /\ v.from <= to /\ Shaped(v)
  <2> SUFFICES ASSUME NEW k \in from .. to
               PROVE  LET v == Planned(p, k)
                      IN  v.plan = p /\ v.copy = 0 /\ from <= v.from /\ v.from <= to /\ Shaped(v)
    BY <1>2
  <2> QED
    BY <1>2, <1>5, PlannedIs
<1>7. \A v \in DOMAIN unit : (v.plan = p /\ v.copy = 0 /\ from <= v.from /\ v.from <= to) => v \in group
  <2> SUFFICES ASSUME NEW v \in DOMAIN unit, v.plan = p, v.copy = 0, from <= v.from, v.from <= to
               PROVE  \E k \in from .. to : v = Planned(p, k)
    OBVIOUS
  <2>1. v.from \in from .. to
    BY <1>5, UnitIs
  <2>2. v = Planned(p, v.from)
    BY PlannedOnly, UnitIs
  <2> QED
    BY <2>1, <2>2
<1> HIDE DEF group
<1>8. Pending \in UnitRow /\ Pending.status = "pending"
  BY ParallelLimits DEF Pending, UnitRow
<1>9. \A v \in group : unit'[v] \in UnitRow /\ unit'[v].status = "superseded"
  <2> SUFFICES ASSUME NEW v \in group PROVE unit'[v] \in UnitRow /\ unit'[v].status = "superseded"
    OBVIOUS
  <2>1. unit[v] \in UnitRow
    BY <1>6, UnitIs
  <2>2. unit'[v] = [unit[v] EXCEPT !.status = "superseded"]
    BY <1>4
  <2> QED
    BY <2>1, <2>2 DEF UnitRow
<1>10. DOMAIN unit' \subseteq UnitId /\ \A u \in DOMAIN unit' : unit'[u] \in UnitRow
  BY <1>2, <1>3, <1>4, <1>8, <1>9 DEF UnitsInv
<1>11. UnitsEnd'
  <2>1. Ending(merged)'
    BY <1>2, <1>3, <1>4, <1>5, <1>8 DEF Ending, Shaped, Run
  <2>2. \A u \in group : Ending(u)'
    BY <1>6, <1>9 DEF Ending, Shaped, Run
  <2>3. \A u \in DOMAIN unit : u \notin group => Ending(u)'
    BY <1>2, <1>4 DEF UnitsInv, UnitsEnd, Ending, Shaped, Run
  <2> QED
    BY <1>4, <2>1, <2>2, <2>3 DEF UnitsEnd
<1>12. ASSUME NEW u \in DOMAIN unit', u.copy = 0
       PROVE  (unit[u].status)' = "superseded" <=> \E m \in DOMAIN unit' : Replaces(m, u.plan, u.from)'
  <2>1. u \in DOMAIN unit /\ (unit[u].status = "superseded" <=> \E m \in DOMAIN unit : Replaces(m, u.plan, u.from))
    BY <1>2, <1>3, <1>4, <1>12 DEF UnitsInv, ReplacedOnce
  <2>2. \A m \in DOMAIN unit : Replaces(m, u.plan, u.from)' <=> Replaces(m, u.plan, u.from)
    BY <1>4 DEF Replaces
  <2>3. Replaces(merged, u.plan, u.from)' <=> u.plan = p /\ from <= u.from /\ u.from <= to
    BY <1>3, <1>4 DEF Replaces
  <2>4. CASE u \in group
    BY <1>4, <1>6, <1>9, <2>3, <2>4
  <2>5. CASE u \notin group
    <3>1. ~Replaces(merged, u.plan, u.from)'
      BY <1>7, <1>12, <2>1, <2>3, <2>5
    <3>2. (\E m \in DOMAIN unit' : Replaces(m, u.plan, u.from)') <=> \E m \in DOMAIN unit : Replaces(m, u.plan, u.from)
      BY <1>4, <2>2, <3>1
    <3> QED
      BY <1>4, <2>1, <2>5, <3>2
  <2> QED
    BY <2>4, <2>5
<1>13. ReplacedOnce'
  <2>1. \A m \in DOMAIN unit' : m.copy # 0 => (written[m.plan])' = Chunks
    BY <1>2, <1>3, <1>4 DEF UnitsInv, ReplacedOnce
  <2> QED
    BY <1>12, <2>1 DEF ReplacedOnce
<1>14. RowsThere'
  BY <1>2, <1>4 DEF UnitsInv, RowsThere
<1>15. Grown
  <2>1. \A v \in DOMAIN unit : unit[v].status # "pending" => unit'[v].status # "pending"
    BY <1>4, <1>9
  <2> QED
    BY <1>2, <1>4, <2>1 DEF Grown
<1> QED
  BY <1>10, <1>11, <1>13, <1>14, <1>15 DEF UnitsInv

-----------------------------------------------------------------------------
(* The runners, the trees and what is published, after each kind of step.  *)

\* What a runner knows stays true as the rows grow.
LEMMA KnowsStays == ASSUME Grown, NEW x \in RunnerState, Knows(x) PROVE Knows(x)'
<1>1. HeldUnits(x) => HeldUnits(x)'
  BY DEF Grown, HeldUnits
<1>2. HeldWhole(x)' <=> HeldWhole(x)
  BY DEF HeldWhole, Shaped, Run
<1>3. (HeldRuns(x)' <=> HeldRuns(x)) /\ (HeldBad(x)' <=> HeldBad(x))
  BY DEF HeldRuns, HeldBad, Run, Planned
<1>4. (x.pc = "unit" => \E u \in DOMAIN unit : x.job = UnitJob(u))
      => (x.pc = "unit" => \E u \in DOMAIN unit' : x.job = UnitJob(u))
  BY DEF Grown
<1>5. \A p \in Plans : written[p] = Chunks => written'[p] = Chunks
  BY DEF Grown
<1> QED
  BY <1>1, <1>2, <1>3, <1>4, <1>5 DEF Knows, PlanJob, UnitJob

\* What the runner that moved knows.
LEMMA MovedKnows ==
    ASSUME ParallelInv, NEW r \in Runners, NEW x \in RunnerState, Turned(r, x), Grown PROVE Knows(x)'
<1>1. ASSUME x.pc \notin {"rows", "unit", "lease", "read", "merge", "trees"}, x.pc = "settle" => x.outcome # "none"
      PROVE  Knows(x)'
  BY <1>1 DEF Knows
<1>2. CASE Rests(r, x) \/ Marks(r, x) \/ Finishes(r, x) \/ Publishes(r, x)
  BY <1>1, <1>2 DEF Rests, Marks, Finishes, Publishes
<1>3. CASE Takes(r, x)
  <2>1. Knows(x)
    BY <1>3, RunnerHas DEF Takes, Knows
  <2> QED
    BY <2>1, KnowsStays
<1>4. CASE Reads(r, x)
  <2>1. /\ x.plan \in Plans /\ written[x.plan] = Chunks /\ PendingUnits(x.plan) = {} /\ x.list = Live(x.plan)
        /\ x.bad = {u \in Live(x.plan) : unit[u].status = "failed"}
        /\ x.pc = IF x.bad # {} THEN "merge" ELSE "trees"
    BY <1>4, RunnerHas DEF Reads, Knows
  <2>2. CASE x.bad # {}
    <3>1. Knows(x)
      BY <2>1, <2>2, ReadMerges DEF Knows
    <3> QED
      BY <3>1, KnowsStays
  <2>3. CASE x.bad = {}
    <3>1. Knows(x)
      BY <2>1, <2>3, ReadBuilds DEF Knows
    <3> QED
      BY <3>1, KnowsStays
  <2> QED
    BY <2>2, <2>3
<1>5. CASE Merges(r, x)
  <2>1. PICK from, to, merged : MergesRun(r, x, from, to, merged)
    BY <1>5, MergesAre
  <2>2. CASE x.pc = "release"
    BY <1>1, <2>2
  <2>3. CASE x.pc # "release"
    <3> DEFINE p == runner[r].plan
               group == {Planned(p, k) : k \in from .. to}
    <3>1. /\ x.pc = "merge" /\ x.plan = p /\ x.list = runner[r].list /\ p \in Plans /\ written[p] = Chunks
          /\ x.bad = runner[r].bad \ group /\ x.bad # {} /\ Run(from, to)
      BY <2>1, <2>3 DEF MergesRun
    <3>2. HeldUnits(runner[r]) /\ HeldRuns(runner[r]) /\ HeldBad(runner[r])
      BY <1>5, RunnerHas DEF Merges, Knows
    <3>3. HeldUnits(x) /\ HeldRuns(x)
      BY <3>1, <3>2 DEF HeldUnits, HeldRuns
    <3>4. \A u \in x.bad : u \in x.list /\ u.copy = 0 /\ u.from \in Gone
      BY <3>1, <3>2 DEF HeldBad
    <3>5. ASSUME NEW a \in Ranges, NEW b \in Ranges, Run(a, b)
          PROVE  \/ \A k \in a .. (b - 1) : Planned(p, k) \in x.bad
                 \/ \A k \in a .. (b - 1) : Planned(p, k) \notin x.bad
      <4>1. a \in Nat /\ b \in Nat /\ from \in Nat /\ to \in Nat
            /\ \A k \in a .. (b - 1) : k \in Ranges /\ k \in Nat /\ a <= k /\ k <= b
        BY <3>1, <3>5, RangesAre DEF Run
      <4>2. CASE a = from /\ b = to
        <5>1. \A k \in a .. (b - 1) : Planned(p, k) \in group
          BY <4>1, <4>2
        <5> QED
          BY <3>1, <5>1
      <4>3. CASE ~(a = from /\ b = to)
        <5>1. ASSUME NEW k \in a .. (b - 1), Planned(p, k) \in group PROVE FALSE
          <6>1. PICK j \in from .. to : Planned(p, k) = Planned(p, j)
            BY <5>1
          <6>2. j = k
            BY <6>1 DEF Planned
          <6>3. k \in Nat /\ from <= k /\ k <= to /\ a <= k /\ k <= b
            BY <4>1, <6>2
          <6> QED
            BY <3>1, <3>5, <4>3, <6>3, RunsMeet
        <5>2. \/ \A k \in a .. (b - 1) : Planned(p, k) \in runner[r].bad
              \/ \A k \in a .. (b - 1) : Planned(p, k) \notin runner[r].bad
          BY <3>2, <3>5 DEF HeldBad
        <5> HIDE DEF group
        <5> QED
          BY <3>1, <5>1, <5>2
      <4> QED
        BY <4>2, <4>3
    <3>6. HeldBad(x)
      BY <3>1, <3>4, <3>5 DEF HeldBad
    <3>7. Knows(x)
      BY <3>1, <3>3, <3>6 DEF Knows
    <3> QED
      BY <3>7, KnowsStays
  <2> QED
    BY <2>2, <2>3
<1> QED
  BY <1>2, <1>3, <1>4, <1>5 DEF Turned

RunnersInv == runner \in [Runners -> RunnerState] /\ RunnersKnow

LEMMA RunnersStep == ASSUME ParallelInv, Kind, Grown PROVE RunnersInv'
<1>1. runner \in [Runners -> RunnerState] /\ \A s \in Runners : Knows(runner[s])
  BY DEF ParallelInv, TypeOK, RunnersKnow
<1>2. ASSUME NEW s \in Runners PROVE \A y \in RunnerState : y = runner[s] => Knows(y)'
  <2> SUFFICES ASSUME NEW y \in RunnerState, y = runner[s] PROVE Knows(y)'
    OBVIOUS
  <2>1. Knows(y)
    BY <1>1
  <2> QED
    BY <2>1, KnowsStays
<1>3. CASE runner' = runner
  <2>1. ASSUME NEW s \in Runners PROVE Knows(runner[s])'
    <3>1. PICK y \in RunnerState : y = runner[s]
      BY <1>1
    <3>2. Knows(y)' /\ runner'[s] = y
      BY <1>2, <1>3, <3>1
    <3> QED
      BY <3>2 DEF Knows, HeldUnits, HeldRuns, HeldBad, HeldWhole
  <2> QED
    BY <1>1, <1>3, <2>1 DEF RunnersInv, RunnersKnow
<1>4. ASSUME NEW r \in Runners, NEW x \in RunnerState, Turned(r, x) PROVE RunnersInv'
  <2>1. runner' = [runner EXCEPT ![r] = x]
    BY <1>4 DEF Turned, Turns, Rests, Takes, Reads, Marks, Finishes, Merges, Publishes
  <2>2. Knows(x)'
    BY <1>4, MovedKnows
  <2>3. runner' \in [Runners -> RunnerState]
    BY <1>1, <2>1
  <2>4. ASSUME NEW s \in Runners PROVE Knows(runner[s])'
    <3>1. PICK y \in RunnerState : y = runner'[s]
      BY <2>3
    <3>2. y = x \/ y = runner[s]
      BY <1>1, <2>1, <3>1
    <3>3. Knows(y)'
      BY <1>2, <2>2, <3>2
    <3> QED
      BY <3>1, <3>3 DEF Knows, HeldUnits, HeldRuns, HeldBad, HeldWhole
  <2> QED
    BY <2>3, <2>4 DEF RunnersInv, RunnersKnow
<1> QED
  BY <1>3, <1>4 DEF Kind, Sends, Fills, Builds

LEMMA RowsStep == ASSUME ParallelInv, Kind PROVE UnitsInv' /\ Grown /\ written' \in [Plans -> SUBSET Chunks]
<1>1. written \in [Plans -> SUBSET Chunks]
  BY DEF ParallelInv, TypeOK
<1>2. CASE Sends
  BY <1>1, <1>2, SameKeeps DEF Sends
<1>3. ASSUME NEW r \in Runners, Fills(r) PROVE UnitsInv' /\ Grown /\ written' \in [Plans -> SUBSET Chunks]
  BY <1>1, <1>3, FillsKeep DEF Fills
<1>4. ASSUME NEW r \in Runners, Builds(r) PROVE UnitsInv' /\ Grown /\ written' \in [Plans -> SUBSET Chunks]
  BY <1>1, <1>4, UnitsSame, SameKeeps DEF Builds
<1>5. ASSUME NEW r \in Runners, NEW x \in RunnerState, Turned(r, x)
      PROVE  UnitsInv' /\ Grown /\ written' \in [Plans -> SUBSET Chunks]
  <2>1. CASE Rests(r, x)
    BY <1>1, <2>1, SameKeeps DEF Rests
  <2>2. CASE Takes(r, x) \/ Reads(r, x) \/ Publishes(r, x)
    <3>1. unit' = unit /\ written' = written
      BY <2>2 DEF Takes, Reads, Publishes
    <3> QED
      BY <1>1, <3>1, UnitsSame, SameKeeps
  <2>3. CASE Marks(r, x)
    BY <2>3, MarksKeep
  <2>4. CASE Finishes(r, x) \/ Merges(r, x)
    BY <1>1, <2>4, FinishesKeep, MergesKeep DEF Finishes, Merges
  <2> QED
    BY <1>5, <2>1, <2>2, <2>3, <2>4 DEF Turned
<1> QED
  BY <1>2, <1>3, <1>4, <1>5 DEF Kind

TreesInv ==
    DOMAIN trees = Plans /\ (\A p \in Plans : trees[p] \in [Ends -> SUBSET UnitId]) /\ TreesDisjoint

LEMMA TreesStep == ASSUME ParallelInv, Kind PROVE TreesInv'
<1>1. TreesInv
  BY DEF ParallelInv, TypeOK, TreesInv
<1>2. CASE trees' = trees
  BY <1>1, <1>2 DEF TreesInv, TreesDisjoint, Disjoint
<1>3. ASSUME NEW r \in Runners, Builds(r) PROVE TreesInv'
  <2> DEFINE p == runner[r].plan
  <2>1. PICK e \in Ends : /\ Disjoint(Segments(r, e))
                          /\ trees' = [trees EXCEPT ![p][e] = Segments(r, e)]
    BY <1>3 DEF Builds
  <2>2. p \in Plans /\ runner[r] \in RunnerState
    BY <1>3, RunnerHas DEF Builds, Knows
  <2> DEFINE S == Segments(r, e)
  <2>3. S \in SUBSET UnitId /\ Disjoint(S)
    BY <2>1, <2>2 DEF Segments, RunnerState
  <2> HIDE DEF S
  <2>4. trees' = [trees EXCEPT ![p] = [trees[p] EXCEPT ![e] = S]]
    BY <2>1 DEF S
  <2>5. DOMAIN trees' = Plans /\ trees'[p] = [trees[p] EXCEPT ![e] = S]
        /\ \A q \in Plans : q # p => trees'[q] = trees[q]
    BY <1>1, <2>2, <2>4 DEF TreesInv
  <2>6. trees'[p] \in [Ends -> SUBSET UnitId]
    BY <1>1, <2>2, <2>3, <2>5 DEF TreesInv
  <2>7. ASSUME NEW q \in Plans, NEW f \in Ends PROVE Disjoint(trees'[q][f])
    <3>1. trees'[q][f] = S \/ trees'[q][f] = trees[q][f]
      BY <1>1, <2>2, <2>5 DEF TreesInv
    <3> QED
      BY <1>1, <2>3, <3>1 DEF TreesInv, TreesDisjoint
  <2>8. TreesDisjoint'
    BY <2>7 DEF TreesDisjoint, Disjoint
  <2>9. \A q \in Plans : trees'[q] \in [Ends -> SUBSET UnitId]
    BY <1>1, <2>5, <2>6 DEF TreesInv
  <2> QED
    BY <2>5, <2>8, <2>9 DEF TreesInv
<1> QED
  BY <1>2, <1>3 DEF Kind, Sends, Fills, Turned, Rests, Takes, Reads, Marks, Finishes, Merges, Publishes

VersionsInv == versions \subseteq [plan : Plans, units : SUBSET UnitId] /\ PublishedWhole

\* What is published: the trees are of units that meet nowhere, in a tree or across them.
LEMMA PublishesWhole ==
    ASSUME ParallelInv, NEW r \in Runners, NEW x \in RunnerState, Publishes(r, x) PROVE VersionsInv'
<1> DEFINE p == runner[r].plan
           units == UNION {Segments(r, e) : e \in Ends}
<1>1. /\ Unbuilt(r) = {} /\ p \in Plans /\ runner[r] \in RunnerState /\ HeldWhole(runner[r])
      /\ versions' = {[plan |-> p, units |-> units]}
  BY RunnerHas DEF Publishes, Knows
<1>2. \A u \in runner[r].list : /\ u \in UnitId /\ u.plan = p /\ Shaped(u) /\ u.to \notin Gone
                                /\ u.from \in Ranges /\ u.to \in Ranges /\ u.from \in Nat /\ u.to \in Nat
  BY <1>1, RangesAre DEF HeldWhole, RunnerState, UnitId
<1>3. \A e \in Ends : \A u \in Segments(r, e) : u \in runner[r].list /\ TreeOf(u.to) = e
  BY DEF Segments
<1>4. units \in SUBSET UnitId /\ \A u \in units : Survives(u) /\ u.plan = p
  BY <1>2, <1>3 DEF Survives
<1>5. ASSUME NEW e \in Ends, NEW u \in Segments(r, e), NEW f \in Ends, NEW v \in Segments(r, f)
      PROVE  u = v \/ u.to < v.from \/ v.to < u.from
  <2>1. u \in runner[r].list /\ v \in runner[r].list /\ TreeOf(u.to) = e /\ TreeOf(v.to) = f
    BY <1>3
  <2>2. CASE e = f
    <3>1. trees[p][e] = Segments(r, e)
      BY <1>1 DEF Unbuilt
    <3>2. Disjoint(Segments(r, e))
      BY <1>1, <3>1 DEF ParallelInv, TreesDisjoint
    <3> QED
      BY <2>2, <3>2 DEF Disjoint
  <2>3. CASE e # f
    <3> SUFFICES ASSUME v.from <= u.to, u.from <= v.to PROVE FALSE
      BY <1>2, <2>1
    <3>1. Shaped(u) /\ Shaped(v) /\ u \in UnitId /\ v \in UnitId /\ u.from \in Nat /\ v.from \in Nat
          /\ u.to \in Nat /\ v.to \in Nat
      BY <1>2, <2>1
    <3>2. CASE u.from <= v.from
      <4>1. TreeOf(v.from) = TreeOf(u.to)
        BY <3>1, <3>2, ShapeInTree
      <4>2. v.from <= v.to
        BY <3>1 DEF Shaped, Run
      <4>3. TreeOf(v.from) = TreeOf(v.to)
        BY <3>1, <4>2, ShapeInTree
      <4> QED
        BY <2>1, <2>3, <4>1, <4>3
    <3>3. CASE v.from <= u.from
      <4>1. TreeOf(u.from) = TreeOf(v.to)
        BY <3>1, <3>3, ShapeInTree
      <4>2. u.from <= u.to
        BY <3>1 DEF Shaped, Run
      <4>3. TreeOf(u.from) = TreeOf(u.to)
        BY <3>1, <4>2, ShapeInTree
      <4> QED
        BY <2>1, <2>3, <4>1, <4>3
    <3> QED
      BY <3>1, <3>2, <3>3
  <2> QED
    BY <2>2, <2>3
<1>6. Disjoint(units)
  BY <1>5 DEF Disjoint
<1>7. ASSUME NEW k \in Ranges \ Gaps PROVE Covers(units, k) # {}
  <2>1. PICK u \in runner[r].list : u.from <= k /\ k <= u.to
    BY <1>1 DEF HeldWhole
  <2>2. ~IsGap(u)
    <3>1. ASSUME IsGap(u) PROVE u.from = k
      BY <1>2, <2>1, <3>1, RangesAre DEF IsGap, Shaped
    <3> QED
      BY <3>1 DEF IsGap
  <2>3. TreeOf(u.to) \in Ends
    BY <1>2, TreeIs
  <2>4. u \in Segments(r, TreeOf(u.to))
    BY <2>2 DEF Segments
  <2> QED
    BY <2>1, <2>3, <2>4 DEF Covers
<1> HIDE DEF units
<1>8. [plan |-> p, units |-> units] \in [plan : Plans, units : SUBSET UnitId]
  BY <1>1, <1>4
<1>9. PublishedWhole'
  BY <1>1, <1>4, <1>6, <1>7 DEF PublishedWhole, Disjoint, Covers, Survives
<1> QED
  BY <1>1, <1>8, <1>9 DEF VersionsInv

LEMMA VersionsStep == ASSUME ParallelInv, Kind PROVE VersionsInv'
<1>1. CASE versions' = versions
  BY <1>1 DEF ParallelInv, TypeOK, VersionsInv, PublishedWhole, Survives, Disjoint, Covers
<1> QED
  BY <1>1, PublishesWhole DEF Kind, Sends, Fills, Builds, Turned, Rests, Takes, Reads, Marks, Finishes, Merges

-----------------------------------------------------------------------------
(* The invariant, and what follows from it.                                *)

LEMMA InitInv == ASSUME Init PROVE ParallelInv
<1>1. MaxStalls \in Nat /\ 0 \in 0 .. MaxStalls
  BY ParallelLimits
<1>2. session \in SessionRow /\ PlanReady
  BY <1>1 DEF Init, Committing, SessionRow, Statuses, PlanReady, Planning
<1>3. DOMAIN unit = {}
  BY DEF Init
<1>4. written \in [Plans -> SUBSET Chunks] /\ DOMAIN trees = Plans
      /\ \A p \in Plans : trees[p] \in [Ends -> SUBSET UnitId]
  BY DEF Init
<1>5. jobs \subseteq Messages /\ versions = {}
  BY DEF Init, Messages
<1>6. runner \in [Runners -> RunnerState] /\ \A r \in Runners : runner[r] = Idle
  BY IdleTyped DEF Init
<1>7. TypeOK
  BY <1>2, <1>3, <1>4, <1>5, <1>6 DEF TypeOK
<1>8. RunnersKnow
  BY <1>6 DEF RunnersKnow, Knows, Idle
<1>9. UnitsEnd /\ ReplacedOnce
  BY <1>3 DEF UnitsEnd, ReplacedOnce
<1>10. RowsThere /\ TreesDisjoint /\ PublishedWhole
  BY <1>5 DEF Init, RowsThere, TreesDisjoint, Disjoint, PublishedWhole
<1> QED
  BY <1>2, <1>7, <1>8, <1>9, <1>10 DEF ParallelInv

LEMMA InvStep == ASSUME ParallelInv, [Next]_vars PROVE ParallelInv'
<1>1. Kind
  BY StepKind
<1>2. UnitsInv' /\ Grown /\ written' \in [Plans -> SUBSET Chunks]
  BY <1>1, RowsStep
<1>3. RunnersInv' /\ TreesInv' /\ VersionsInv'
  BY <1>1, <1>2, RunnersStep, TreesStep, VersionsStep
<1>4. SessionSafe(session') /\ jobs' \subseteq Messages
  BY SessionStep, JobsStep
<1>5. PlanReady'
  BY <1>2, <1>4 DEF SessionSafe, SessionRow, PlanReady, Planning, Grown
<1>6. TypeOK'
  BY <1>2, <1>3, <1>4 DEF TypeOK, UnitsInv, RunnersInv, TreesInv, VersionsInv, SessionSafe
<1> QED
  BY <1>2, <1>3, <1>5, <1>6 DEF ParallelInv, UnitsInv, RunnersInv, TreesInv, VersionsInv

LEMMA ParallelInvariant == Spec => []ParallelInv
<1>1. Init => ParallelInv
  BY InitInv
<1>2. ParallelInv /\ [Next]_vars => ParallelInv'
  BY InvStep
<1> QED
  BY <1>1, <1>2, PTL DEF Spec

\* Every row, message and runner stays what its schema says, whoever dies and whatever
\* is delivered again (parallel.ts 60-140).
THEOREM TypeCorrect == Spec => []TypeOK
<1>1. ParallelInv => TypeOK
  BY DEF ParallelInv
<1> QED
  BY <1>1, ParallelInvariant, PTL

\* Whatever is merged, written twice or merged by two assemblies at once, the units of a
\* planned commit cover every range once, twins apart (parallel.ts 17-21, 1028-1032).
THEOREM UnitsAlwaysTile == Spec => []UnitsTile
<1>1. ParallelInv => UnitsTile
  BY TileFollows
<1> QED
  BY <1>1, ParallelInvariant, PTL

\* A version is never made of less than all the ranges with a change, of units of two
\* plans, of a range twice, or of a unit that ends at a key that is gone
\* (parallel.ts 24-29, assemble.ts 49-55).
THEOREM PublishedIsWhole == Spec => []PublishedWhole
<1>1. ParallelInv => PublishedWhole
  BY DEF ParallelInv
<1> QED
  BY <1>1, ParallelInvariant, PTL
=============================================================================
