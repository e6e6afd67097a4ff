--------------------------- MODULE CleanupRunProofs ---------------------------
(***************************************************************************)
(* Theorems about CleanupRun: a place never runs ahead of the marks saved  *)
(* for it, and a sweep has all that any version needs, but for what a      *)
(* delta's frame names and the delta does not.                             *)
(***************************************************************************)
EXTENDS CleanupRun, FunctionTheorems, FiniteSetTheorems, TLAPS

\* What MarkedFrame.cfg loses: entries of a frame that the leaf stored against it dropped.  A
\* frame is marked as walked, so a version that has it in full does not look at them
\* (marks.ts 172-180).
Dropped == UNION {IF Frame[n] = NoNode THEN {} ELSE Points[Frame[n]] \ Points[n] : n \in Nodes}

-----------------------------------------------------------------------------
(* Types.                                                                  *)

\* A place inside a collection is at one of its versions.
Places ==
    {p \in Place : p.at # 0 => p.at \in DOMAIN Order /\ p.seq <= Len(Versions[Order[p.at]])}

Rows == {row \in RunRow : row.place \in Places}

JobState ==
    [pc : {"idle", "begin", "load", "walk", "sweep", "finish", "look", "insert", "fail"},
     run : Nat, seq : Nat, status : Statuses, place : Places, waits : 0 .. MaxWaits,
     start : Nat, marks : SUBSET Held, fresh : SUBSET Held, reads : Nat, opened : SUBSET Nodes,
     handled : Nat, saving : {"no", "row"}, saved : Nat, snap : Places,
     item : Nat, done : Nat, outcome : {"more", "done", "wait"}, mark : 0 .. MaxRuns]

Steps == {"mark", "sweep"}

\* What a job has of its run's row, and where a walk is inside a collection.
JobFits(j, rows) ==
    /\ j.pc # "idle" => j.run \in DOMAIN rows /\ j.seq \in 1 .. MaxSeq
    /\ j.pc \in {"begin", "load"} /\ rows[j.run].step = "sweep" => j.mark \in DOMAIN rows
    /\ j.pc \in {"begin", "load"} =>
          j.item = 0 /\ j.fresh = {} /\ j.opened = {} /\ j.snap = FirstPlace
    /\ j.pc = "walk" => rows[j.run].step = "mark"
    /\ j.pc = "sweep" => rows[j.run].step = "sweep"
    /\ j.pc = "walk" /\ j.item # 0 =>
          /\ j.item \in DOMAIN Order /\ j.place.phase \in {1, 2}
          /\ j.done < Len(Versions[Order[j.item]])

TypeInv ==
    /\ run \in Seq(Rows) /\ Len(run) <= MaxRuns
    /\ shards \in Seq(SUBSET Held) /\ Len(shards) = Len(run)
    /\ deleted \subseteq Range(Order)
    /\ queue \subseteq [run : Runs, seq : 1 .. MaxSeq]
    /\ worker \in [Workers -> JobState]
    /\ asked \in {NoRequest} \cup [step : Steps, mark : 0 .. MaxRuns]
    /\ upsets \in 0 .. MaxUpsets
    /\ \A r \in Runs : run[r].step = "sweep" => run[r].mark \in Runs
    /\ asked.step = "sweep" => asked.mark \in Runs
    /\ \A w \in Workers : JobFits(worker[w], run)

-----------------------------------------------------------------------------
(* What marks hold.                                                        *)

\* A node is marked with all that reading it needs.
Whole(M) ==
    \A n \in M \cap Nodes :
        /\ Children[n] \subseteq M
        /\ Points[n] \subseteq M \cup Dropped
        /\ Frame[n] # NoNode => Frame[n] \in M

Has(M, i, versions) == NeedsOf(i, versions) \subseteq M \cup Dropped

HasAll(M, i) == Has(M, i, DOMAIN Versions[Order[i]])

PassedBy(p, i, gone) ==
    \/ p.phase = 1 /\ i <= p.after /\ Order[i] \notin gone
    \/ p.phase = 2 /\ (i <= p.after \/ Order[i] \notin gone)
    \/ p.phase \in {3, 4}

\* The marks hold what the place says.
Holds(p, M, gone) ==
    /\ \A i \in DOMAIN Order : PassedBy(p, i, gone) => HasAll(M, i)
    /\ p.at # 0 => Has(M, p.at, 1 .. p.seq)
    /\ p.phase = 3 => p.after = 0
    /\ p.phase = 4 => \A i \in DOMAIN Order : Possessed[Order[i]] \subseteq M

\* All that a sweep needs.
Full(M) == \A i \in DOMAIN Order : HasAll(M, i) /\ Possessed[Order[i]] \subseteq M

\* A walk's marks are its shards' and its own; inside a collection, what it skipped on the
\* way is deleted, or was live and is held.
WalkHolds(j, S, gone) ==
    /\ Whole(j.marks) /\ j.fresh \subseteq j.marks /\ j.marks \subseteq S \cup j.fresh
    /\ \A n \in j.opened : Children[n] # {}
    /\ Holds(j.place, j.marks, gone) /\ Holds(j.snap, S, gone)
    /\ j.item # 0 =>
          /\ Has(j.marks, j.item, 1 .. j.done)
          /\ \A k \in DOMAIN Order : j.place.after < k /\ k < j.item =>
                IF j.place.phase = 1 THEN Order[k] \in gone ELSE HasAll(j.marks, k)

JobHolds(j, step, S, gone) ==
    /\ j.pc = "insert" => Full(S)
    /\ j.pc = "walk" => WalkHolds(j, S, gone)
    /\ j.pc \in {"begin", "load", "finish"} /\ step = "mark" => Holds(j.place, S, gone)
    /\ j.pc = "finish" /\ step = "mark" /\ j.outcome = "done" => j.place.phase = 4

RowHolds(row, S, gone) ==
    row.step = "mark" => Holds(row.place, S, gone) /\ (row.status = "done" => Full(S))

ShardsWhole == \A r \in Runs : Whole(shards[r])

RowsHold == \A r \in Runs : RowHolds(run[r], shards[r], deleted)

SweepsFull ==
    /\ \A r \in Runs : run[r].step = "sweep" => Full(shards[run[r].mark])
    /\ asked.step = "sweep" => Full(shards[asked.mark])

JobsHold ==
    \A w \in Workers : worker[w].pc # "idle" =>
        JobHolds(worker[w], run[worker[w].run].step, shards[worker[w].run], deleted)

MarkInv == TypeInv /\ ShardsWhole /\ RowsHold /\ SweepsFull /\ JobsHold
-----------------------------------------------------------------------------
(* The operators the model is built from.                                  *)

\* Min and Max of FiniteSetsExt, for sets of numbers that have one.
LEMMA MinOf ==
  ASSUME NEW S, S \subseteq Nat, S # {}
  PROVE  Min(S) \in S /\ \A k \in S : Min(S) <= k
<1>1. PICK n \in S : \A m \in S : ~(<<m, n>> \in OpToRel(<, Nat))
  BY NatLessThanWellFounded, WFMin
<1>2. \A m \in S : ~(m < n)
  BY <1>1 DEF OpToRel
<1>3. \E x \in S : \A m \in S : x <= m
  BY <1>2
<1> QED
  BY <1>3 DEF Min

LEMMA MaxOf ==
  ASSUME NEW S, S \subseteq Nat, S # {}, NEW n \in Nat, \A k \in S : k <= n
  PROVE  Max(S) \in S /\ \A k \in S : k <= Max(S)
<1> DEFINE D == {d \in Nat : \E k \in S : d = n - k}
<1>1. D \subseteq Nat /\ D # {}
  <2>1. PICK k \in S : TRUE
    OBVIOUS
  <2>2. n - k \in Nat
    OBVIOUS
  <2> QED
    BY <2>1, <2>2
<1>2. Min(D) \in D /\ \A d \in D : Min(D) <= d
  <2> HIDE DEF D
  <2> QED
    BY <1>1, MinOf
<1>3. PICK m \in S : Min(D) = n - m
  BY <1>2
<1>4. \A k \in S : k <= m
  <2> SUFFICES ASSUME NEW k \in S PROVE k <= m
    OBVIOUS
  <2>1. n - k \in D
    OBVIOUS
  <2>2. n - m <= n - k
    BY <1>2, <1>3, <2>1
  <2> QED
    BY <2>2
<1> QED
  BY <1>4 DEF Max

\* What is below a node stays in any set that has the node and is closed.
LEMMA BelowWithin ==
  ASSUME NEW v, NEW s \in SUBSET Nodes, v \in s, \A n \in s : Children[n] \subseteq s
  PROVE  Below(v) \subseteq s
  BY DEF Below

LEMMA NeedsHeld ==
  ASSUME NEW M, Whole(M), NEW v \in M \cap Nodes
  PROVE  Needs[v] \subseteq M \cup Dropped
<1> DEFINE s == M \cap Nodes
<1>1. Below(v) \subseteq s
  <2>1. \A n \in s : Children[n] \subseteq s
    BY CleanupConstants DEF Whole
  <2>2. v \in s /\ s \in SUBSET Nodes
    OBVIOUS
  <2> HIDE DEF s
  <2> QED
    BY <2>1, <2>2, BelowWithin
<1>2. Needs[v] = Below(v) \cup (UNION {Points[n] : n \in Below(v)})
                    \cup ({Frame[n] : n \in Below(v)} \ {NoNode})
  BY DEF Needs
<1>3. \A n \in Below(v) :
         n \in M /\ Points[n] \subseteq M \cup Dropped /\ (Frame[n] # NoNode => Frame[n] \in M)
  BY <1>1 DEF Whole
<1> SUFFICES ASSUME NEW x \in Needs[v] PROVE x \in M \cup Dropped
  OBVIOUS
<1>4. CASE x \in Below(v)
  BY <1>3, <1>4
<1>5. CASE \E n \in Below(v) : x \in Points[n]
  BY <1>3, <1>5
<1>6. CASE \E n \in Below(v) : x = Frame[n] /\ x # NoNode
  BY <1>3, <1>6
<1> QED
  BY <1>2, <1>4, <1>5, <1>6

\* What a marked node needs stays marked, and sets that are each whole are whole together.
LEMMA WholeUnion ==
  ASSUME NEW M, NEW N, Whole(M), Whole(N)
  PROVE  Whole(M \cup N)
  BY DEF Whole

LEMMA WholeRows ==
  ASSUME NEW M, NEW R, Whole(M), R \cap Nodes = {}
  PROVE  Whole(M \cup R)
  BY DEF Whole

\* A leaf that was read, with what its entries name and its frame.
LEMMA LeafWhole ==
  ASSUME NEW M, Whole(M), NEW n \in Nodes, Children[n] = {}
  PROVE  Whole(M \cup LeafMarks(n))
<1> SUFFICES ASSUME NEW m \in (M \cup LeafMarks(n)) \cap Nodes
             PROVE  /\ Children[m] \subseteq M \cup LeafMarks(n)
                    /\ Points[m] \subseteq M \cup LeafMarks(n) \cup Dropped
                    /\ Frame[m] # NoNode => Frame[m] \in M \cup LeafMarks(n)
  BY DEF Whole
<1>1. CASE m \in M
  BY <1>1 DEF Whole
<1>2. CASE m = n
  BY <1>2 DEF LeafMarks
<1>3. CASE m = Frame[n] /\ Frame[n] # NoNode
  <2>1. Children[m] = {} /\ Frame[m] = NoNode
    BY <1>3, TreeConstants
  <2>2. Points[m] \ Points[n] \subseteq Dropped
    BY <1>3 DEF Dropped
  <2> QED
    BY <2>1, <2>2 DEF LeafMarks
<1>4. m \notin Points[n]
  BY TreeConstants
<1> QED
  BY <1>1, <1>2, <1>3, <1>4 DEF LeafMarks

\* The nodes that were read and all below them read or marked.
LEMMA CompleteWhole ==
  ASSUME NEW j, Whole(j.marks), j.opened \in SUBSET Nodes,
         \A n \in j.opened : Children[n] # {}
  PROVE  Whole(j.marks \cup Complete(j))
<1>1. \A n \in Complete(j) : Children[n] \subseteq j.marks \cup Complete(j)
  <2> SUFFICES ASSUME NEW n \in Complete(j), NEW c \in Children[n] \ j.marks
               PROVE  c \in Complete(j)
    OBVIOUS
  <2>1. PICK s \in SUBSET j.opened :
             n \in s /\ \A m \in s : Children[m] \subseteq j.marks \cup s
    BY DEF Complete
  <2>2. c \in s
    BY <2>1
  <2> QED
    BY <2>1, <2>2 DEF Complete
<1>2. \A n \in Complete(j) : n \in Nodes /\ Points[n] = {} /\ Frame[n] = NoNode
  BY TreeConstants DEF Complete
<1> QED
  BY <1>1, <1>2 DEF Whole

LEMMA HasEach ==
  ASSUME NEW M, NEW i, NEW versions
  PROVE  Has(M, i, versions) <=> \A k \in versions : Needs[Versions[Order[i]][k]] \subseteq M \cup Dropped
  BY DEF Has, NeedsOf

LEMMA Ordered ==
  ASSUME NEW i \in DOMAIN Order
  PROVE  /\ Versions[Order[i]] \in Seq(Nodes) /\ i \in Nat \ {0} /\ i <= Len(Order)
         /\ DOMAIN Versions[Order[i]] = 1 .. Len(Versions[Order[i]]) /\ Len(Versions[Order[i]]) \in Nat
         /\ Possessed[Order[i]] \subseteq Held /\ Possessed[Order[i]] \cap Nodes = {}
         /\ Order[i] \in Range(Order)
<1>1. Order[i] \in DOMAIN Versions /\ DOMAIN Order = 1 .. Len(Order) /\ Len(Order) \in Nat
  BY CleanupConstants
<1>2. Possessed[Order[i]] \subseteq Held /\ Possessed[Order[i]] \cap Nodes = {}
  <2>1. Order[i] \in DOMAIN Possessed
    BY <1>1, CleanupConstants
  <2>2. Possessed[Order[i]] \subseteq UNION {Possessed[c] : c \in DOMAIN Possessed}
    BY <2>1
  <2> QED
    BY <2>1, <2>2, TreeConstants DEF Held
<1>3. Order[i] \in Range(Order)
  BY DEF Range
<1>4. Versions[Order[i]] \in Seq(Nodes)
  BY <1>1, CleanupConstants
<1> QED
  BY <1>1, <1>2, <1>3, <1>4

\* Versions whose roots are marked, after those that were.
LEMMA HasMore ==
  ASSUME NEW M, Whole(M), NEW i \in DOMAIN Order, NEW d \in Nat, NEW e \in Nat,
         Has(M, i, 1 .. d), e <= Len(Versions[Order[i]]),
         \A k \in d + 1 .. e : Versions[Order[i]][k] \in M
  PROVE  Has(M, i, 1 .. e)
<1> SUFFICES ASSUME NEW k \in 1 .. e PROVE Needs[Versions[Order[i]][k]] \subseteq M \cup Dropped
  BY HasEach
<1>1. CASE k <= d
  <2>1. \A m \in 1 .. d : Needs[Versions[Order[i]][m]] \subseteq M \cup Dropped
    BY HasEach
  <2>2. k \in 1 .. d
    BY <1>1
  <2> QED
    BY <2>1, <2>2
<1>2. CASE k > d
  <2>1. Versions[Order[i]][k] \in M \cap Nodes
    BY <1>2, Ordered
  <2> QED
    BY <2>1, NeedsHeld
<1> QED
  BY <1>1, <1>2

-----------------------------------------------------------------------------
(* Marks and deletions only grow.                                          *)

LEMMA HasGrows ==
  ASSUME NEW M, NEW N, M \subseteq N, NEW i, NEW versions, Has(M, i, versions)
  PROVE  Has(N, i, versions)
  BY DEF Has

LEMMA HoldsGrows ==
  ASSUME NEW M, NEW N, M \subseteq N, NEW g, NEW h, g \subseteq h, NEW p, Holds(p, M, g)
  PROVE  Holds(p, N, h)
<1>1. \A i \in DOMAIN Order : PassedBy(p, i, h) => PassedBy(p, i, g)
  BY DEF PassedBy
<1>2. \A i \in DOMAIN Order : HasAll(M, i) => HasAll(N, i)
  BY HasGrows DEF HasAll
<1>3. p.at # 0 => Has(N, p.at, 1 .. p.seq)
  BY HasGrows DEF Holds
<1> QED
  BY <1>1, <1>2, <1>3 DEF Holds

LEMMA FullGrows ==
  ASSUME NEW M, NEW N, M \subseteq N, Full(M)
  PROVE  Full(N)
  BY HasGrows DEF Full, HasAll

LEMMA JobGrows ==
  ASSUME NEW M, NEW N, M \subseteq N, NEW g, NEW h, g \subseteq h, NEW j, NEW step,
         JobHolds(j, step, M, g)
  PROVE  JobHolds(j, step, N, h)
<1>1. WalkHolds(j, M, g) => WalkHolds(j, N, h)
  BY HoldsGrows DEF WalkHolds
<1> QED
  BY <1>1, HoldsGrows, FullGrows DEF JobHolds

LEMMA HoldsFirst == ASSUME NEW M, NEW g PROVE Holds(FirstPlace, M, g)
<1>1. \A i \in DOMAIN Order : ~PassedBy(FirstPlace, i, g)
  BY Ordered DEF PassedBy, FirstPlace
<1> QED
  BY <1>1 DEF Holds, FirstPlace

LEMMA FirstPlaceIs == FirstPlace \in Places /\ FirstPlace.at = 0
  BY DEF FirstPlace, Places, Place, Phases

-----------------------------------------------------------------------------
(* What a step may do.                                                     *)

LEMMA FitsGrows ==
  ASSUME NEW rows, NEW rows2, DOMAIN rows \subseteq DOMAIN rows2,
         \A r \in DOMAIN rows : rows2[r].step = rows[r].step,
         NEW j, JobFits(j, rows)
  PROVE  JobFits(j, rows2)
  BY DEF JobFits

\* Rows and shards are there for good, and only grow.
Grows ==
    /\ Runs \subseteq Runs'
    /\ \A r \in Runs : /\ run'[r].step = run[r].step /\ run'[r].mark = run[r].mark
                       /\ shards[r] \subseteq shards'[r]
    /\ deleted \subseteq deleted'

TypesKept ==
    /\ run' \in Seq(Rows) /\ Len(run') <= MaxRuns
    /\ shards' \in Seq(SUBSET Held) /\ Len(shards') = Len(run')
    /\ deleted' \subseteq Range(Order)
    /\ queue' \subseteq [run : Runs', seq : 1 .. MaxSeq]
    /\ worker' \in [Workers -> JobState]
    /\ asked' \in {NoRequest} \cup [step : Steps, mark : 0 .. MaxRuns]
    /\ upsets' \in 0 .. MaxUpsets

\* What is new holds: jobs, rows, shards and the request.
NewJobs ==
    \A w \in Workers :
        \/ worker'[w] = worker[w]
        \/ /\ JobFits(worker'[w], run')
           /\ worker'[w].pc # "idle" =>
                 JobHolds(worker'[w], run'[worker'[w].run].step, shards'[worker'[w].run], deleted')

NewRows ==
    \A r \in Runs' :
        \/ r \in Runs /\ run'[r] = run[r]
        \/ /\ RowHolds(run'[r], shards'[r], deleted')
           /\ run'[r].step = "sweep" => run'[r].mark \in Runs' /\ Full(shards'[run'[r].mark])

NewShards == \A r \in Runs' : (r \in Runs /\ shards'[r] = shards[r]) \/ Whole(shards'[r])

NewRequest == asked' = asked \/ (asked'.step = "sweep" => asked'.mark \in Runs' /\ Full(shards'[asked'.mark]))

LEMMA Preserved ==
  ASSUME MarkInv, Grows, TypesKept, NewJobs, NewRows, NewShards, NewRequest
  PROVE  MarkInv'
<1>1. \A w \in Workers : JobFits(worker[w], run')
  <2>1. \A r \in DOMAIN run : r \in DOMAIN run' /\ run'[r].step = run[r].step
    BY DEF Grows, Runs
  <2> QED
    BY <2>1, FitsGrows DEF MarkInv, TypeInv
<1>2. \A w \in Workers : JobFits(worker'[w], run')
  BY <1>1 DEF NewJobs
<1>3. \A r \in Runs' : run'[r].step = "sweep" => run'[r].mark \in Runs' /\ Full(shards'[run'[r].mark])
  <2> SUFFICES ASSUME NEW r \in Runs, run'[r] = run[r], run[r].step = "sweep"
               PROVE  run'[r].mark \in Runs' /\ Full(shards'[run'[r].mark])
    BY DEF NewRows
  <2>1. run[r].mark \in Runs /\ Full(shards[run[r].mark])
    BY DEF MarkInv, TypeInv, SweepsFull
  <2> QED
    BY <2>1, FullGrows DEF Grows
<1>4. asked'.step = "sweep" => asked'.mark \in Runs' /\ Full(shards'[asked'.mark])
  <2> SUFFICES ASSUME asked' = asked, asked.step = "sweep"
               PROVE  asked.mark \in Runs' /\ Full(shards'[asked.mark])
    BY DEF NewRequest
  <2>1. asked.mark \in Runs /\ Full(shards[asked.mark])
    BY DEF MarkInv, TypeInv, SweepsFull
  <2> QED
    BY <2>1, FullGrows DEF Grows
<1>5. TypeInv'
  BY <1>2, <1>3, <1>4 DEF TypesKept, TypeInv
<1>6. ShardsWhole'
  BY DEF NewShards, MarkInv, ShardsWhole
<1>7. RowsHold'
  <2> SUFFICES ASSUME NEW r \in Runs, run'[r] = run[r], r \in Runs'
               PROVE  RowHolds(run'[r], shards'[r], deleted')
    BY DEF NewRows, RowsHold
  <2>1. RowHolds(run[r], shards[r], deleted)
    BY DEF MarkInv, RowsHold
  <2> QED
    BY <2>1, HoldsGrows, FullGrows DEF RowHolds, Grows
<1>8. JobsHold'
  <2> SUFFICES ASSUME NEW w \in Workers, worker'[w] = worker[w], worker[w].pc # "idle"
               PROVE  JobHolds(worker[w], run'[worker[w].run].step, shards'[worker[w].run], deleted')
    BY DEF NewJobs, JobsHold
  <2>1. worker[w].run \in Runs
    BY DEF MarkInv, TypeInv, JobFits, Runs
  <2>2. JobHolds(worker[w], run[worker[w].run].step, shards[worker[w].run], deleted)
    BY DEF MarkInv, JobsHold
  <2> QED
    BY <2>1, <2>2, JobGrows DEF Grows
<1> QED
  BY <1>3, <1>4, <1>5, <1>6, <1>7, <1>8 DEF MarkInv, SweepsFull

\* A step of one job, which touches no row.
LEMMA OnlyJob ==
  ASSUME MarkInv, NEW w \in Workers, NEW j \in JobState, JobFits(j, run),
         j.pc # "idle" => JobHolds(j, run[j.run].step, shards[j.run], deleted),
         worker' = [worker EXCEPT ![w] = j],
         UNCHANGED <<run, shards, deleted, asked>>,
         queue' \subseteq [run : Runs, seq : 1 .. MaxSeq], upsets' \in 0 .. MaxUpsets
  PROVE  MarkInv'
<1>1. TypeInv
  BY DEF MarkInv
<1>2. Runs' = Runs
  BY DEF Runs
<1>3. Grows
  BY <1>2 DEF Grows
<1>4. TypesKept
  BY <1>1, <1>2 DEF TypeInv, TypesKept
<1>5. NewJobs
  BY <1>1 DEF TypeInv, NewJobs
<1>6. NewRows /\ NewShards /\ NewRequest
  BY <1>2 DEF NewRows, NewShards, NewRequest
<1> QED
  BY <1>3, <1>4, <1>5, <1>6, Preserved

\* A step of one job and of one row.
LEMMA RowAndJob ==
  ASSUME MarkInv, NEW w \in Workers, NEW j \in JobState, JobFits(j, run),
         j.pc # "idle" => JobHolds(j, run[j.run].step, shards[j.run], deleted),
         worker' = [worker EXCEPT ![w] = j],
         NEW r \in Runs, NEW row \in Rows, run' = [run EXCEPT ![r] = row],
         row.step = run[r].step, row.mark = run[r].mark, RowHolds(row, shards[r], deleted),
         UNCHANGED <<shards, deleted, asked>>,
         queue' \subseteq [run : Runs, seq : 1 .. MaxSeq], upsets' \in 0 .. MaxUpsets
  PROVE  MarkInv'
<1>1. TypeInv
  BY DEF MarkInv
<1>2. Runs' = Runs /\ run' \in Seq(Rows) /\ Len(run') = Len(run)
  BY <1>1 DEF Runs, TypeInv
<1>3. \A q \in Runs : run'[q].step = run[q].step /\ run'[q].mark = run[q].mark
  BY DEF Runs
<1>4. Grows
  BY <1>2, <1>3 DEF Grows
<1>5. TypesKept
  BY <1>1, <1>2 DEF TypeInv, TypesKept
<1>6. NewJobs
  <2>1. JobFits(j, run')
    BY <1>2, <1>3, FitsGrows DEF Runs
  <2>2. j.pc # "idle" => j.run \in Runs
    BY DEF JobFits, Runs
  <2>3. worker'[w] = j /\ \A v \in Workers \ {w} : worker'[v] = worker[v]
    BY <1>1 DEF TypeInv
  <2> QED
    BY <1>3, <2>1, <2>2, <2>3 DEF NewJobs
<1>7. NewRows
  <2>1. run'[r] = row /\ \A q \in Runs \ {r} : run'[q] = run[q]
    BY DEF Runs
  <2>2. run[r].step = "sweep" => run[r].mark \in Runs /\ Full(shards[run[r].mark])
    BY DEF MarkInv, TypeInv, SweepsFull
  <2> QED
    BY <1>2, <2>1, <2>2 DEF NewRows
<1>8. NewShards /\ NewRequest
  BY <1>2 DEF NewShards, NewRequest
<1> QED
  BY <1>4, <1>5, <1>6, <1>7, <1>8, Preserved

-----------------------------------------------------------------------------
(* Jobs.                                                                   *)

LEMMA Bounds ==
  /\ MaxRuns \in Nat /\ Budget \in Nat /\ Every \in Nat /\ PerJob \in Nat /\ Areas \in Nat
  /\ MaxWaits \in Nat /\ MaxUpsets \in Nat /\ MaxSeq \in Nat \ {0}
  BY CleanupConstants

LEMMA IdleIs == Idle \in JobState /\ Idle.pc = "idle" /\ \A rows : JobFits(Idle, rows)
<1>1. FirstPlace \in Places
  BY FirstPlaceIs
<1>2. Idle \in JobState
  BY <1>1, Bounds DEF Idle, JobState, Statuses
<1>3. Idle.pc = "idle"
  BY DEF Idle
<1> QED
  BY <1>2, <1>3 DEF JobFits

LEMMA JobOf ==
  ASSUME MarkInv, NEW w \in Workers
  PROVE  /\ worker[w] \in JobState /\ JobFits(worker[w], run)
         /\ worker[w].pc # "idle" => worker[w].run \in Runs /\ worker[w].run \in DOMAIN run
               /\ JobHolds(worker[w], run[worker[w].run].step, shards[worker[w].run], deleted)
  BY DEF MarkInv, TypeInv, JobsHold, JobFits, Runs

LEMMA RowOf ==
  ASSUME MarkInv, NEW r \in Runs
  PROVE  /\ run[r] \in Rows /\ shards[r] \in SUBSET Held /\ Whole(shards[r])
         /\ RowHolds(run[r], shards[r], deleted)
         /\ run[r].step = "sweep" => run[r].mark \in Runs /\ Full(shards[run[r].mark])
  BY DEF MarkInv, TypeInv, ShardsWhole, RowsHold, SweepsFull, Runs

LEMMA Kept == MarkInv => queue \subseteq [run : Runs, seq : 1 .. MaxSeq] /\ upsets \in 0 .. MaxUpsets
  BY DEF MarkInv, TypeInv

LEMMA UpsetIs == MarkInv /\ Upset => upsets' \in 0 .. MaxUpsets
  BY Kept, Bounds DEF Upset

LEMMA LoadStep == ASSUME MarkInv, NEW w \in Workers, Load(w) PROVE MarkInv'
<1> DEFINE j == worker[w]
           mark == run[j.run].step = "mark"
           saved == shards[IF mark THEN j.run ELSE j.mark]
           job == [j EXCEPT !.pc = IF mark THEN "walk" ELSE "sweep", !.marks = saved,
                            !.start = Cardinality(saved)]
<1>1. /\ j.pc = "load" /\ worker' = [worker EXCEPT ![w] = job]
      /\ UNCHANGED <<run, shards, deleted, queue, asked, upsets>>
  BY DEF Load, Update
<1>2. j \in JobState /\ JobFits(j, run) /\ j.run \in Runs
      /\ JobHolds(j, run[j.run].step, shards[j.run], deleted)
  BY <1>1, JobOf
<1>3. run[j.run] \in Rows /\ run[j.run].step \in Steps
  BY <1>2, RowOf DEF Rows, RunRow, Steps
<1>4. ~mark => j.mark \in Runs
  BY <1>1, <1>2, <1>3 DEF JobFits, Runs, Steps
<1>5. saved \in SUBSET Held /\ Whole(saved)
  BY <1>2, <1>4, RowOf
<1>6. Cardinality(saved) \in Nat
  BY <1>5, CleanupConstants, FS_Subset, FS_CardinalityType
<1>7. job \in JobState
  <2> HIDE DEF saved, mark
  <2> QED
    BY <1>2, <1>5, <1>6 DEF JobState
<1>8. /\ job.pc = IF mark THEN "walk" ELSE "sweep"
      /\ job.run = j.run /\ job.seq = j.seq /\ job.marks = saved
      /\ job.item = j.item /\ job.place = j.place /\ job.fresh = j.fresh /\ job.opened = j.opened
      /\ job.snap = j.snap
  BY <1>2 DEF JobState
<1>9. JobFits(job, run)
  <2> HIDE DEF job
  <2> QED
    BY <1>1, <1>2, <1>3, <1>8 DEF JobFits, Steps
<1>10. JobHolds(job, run[job.run].step, shards[job.run], deleted)
  <2>1. CASE mark
    <3>1. Holds(j.place, saved, deleted) /\ Holds(FirstPlace, shards[j.run], deleted)
      BY <1>1, <1>2, <2>1, HoldsFirst DEF JobHolds
    <3>2. j.item = 0 /\ j.fresh = {} /\ j.opened = {} /\ j.snap = FirstPlace /\ saved = shards[j.run]
      BY <1>1, <1>2, <2>1 DEF JobFits
    <3>3. WalkHolds(job, shards[j.run], deleted)
      <4> HIDE DEF job, saved
      <4> QED
        BY <1>5, <1>8, <3>1, <3>2 DEF WalkHolds
    <3> HIDE DEF job
    <3> QED
      BY <1>8, <2>1, <3>3 DEF JobHolds
  <2>2. CASE ~mark
    <3> HIDE DEF job
    <3> QED
      BY <1>8, <2>2 DEF JobHolds
  <2> QED
    BY <2>1, <2>2
<1> HIDE DEF job
<1> QED
  BY <1>1, <1>7, <1>9, <1>10, Kept, OnlyJob

LEMMA LookStep == ASSUME MarkInv, NEW w \in Workers, Look(w) PROVE MarkInv'
<1> DEFINE j == worker[w]
<1>1. /\ j.pc = "look" /\ UNCHANGED <<run, shards, deleted, queue, asked, upsets>>
      /\ \E pc \in {"insert", "fail"} : /\ worker' = [worker EXCEPT ![w] = [j EXCEPT !.pc = pc]]
                                        /\ pc = "insert" => j.run \in DoneMarks
  BY DEF Look, Update
<1>2. PICK pc \in {"insert", "fail"} : /\ worker' = [worker EXCEPT ![w] = [j EXCEPT !.pc = pc]]
                                       /\ pc = "insert" => j.run \in DoneMarks
  BY <1>1
<1> DEFINE job == [j EXCEPT !.pc = pc]
<1>3. j \in JobState /\ JobFits(j, run) /\ j.run \in Runs
  BY <1>1, JobOf
<1>4. job \in JobState
  BY <1>3 DEF JobState
<1>5. job.pc = pc /\ job.run = j.run /\ job.seq = j.seq
  BY <1>3 DEF JobState
<1>6. pc = "insert" => Full(shards[j.run])
  BY <1>2, <1>3, RowOf DEF DoneMarks, RowHolds
<1> HIDE DEF job
<1>7. JobFits(job, run)
  BY <1>1, <1>3, <1>5 DEF JobFits
<1>8. JobHolds(job, run[job.run].step, shards[job.run], deleted)
  BY <1>5, <1>6 DEF JobHolds
<1> QED
  BY <1>1, <1>2, <1>4, <1>7, <1>8, Kept, OnlyJob DEF job

LEMMA SweepJobStep == ASSUME MarkInv, NEW w \in Workers, SweepJob(w) PROVE MarkInv'
<1> DEFINE j == worker[w]
<1>1. j.pc = "sweep" /\ UNCHANGED <<run, shards, deleted, queue, asked, upsets>>
  BY DEF SweepJob
<1>2. PICK o \in {"more", "done", "wait"} :
        worker' = [worker EXCEPT ![w] =
                     [j EXCEPT !.pc = "finish", !.outcome = o, !.marks = {}, !.start = 0,
                               !.place.after = IF o = "wait" THEN @ ELSE @ + 1]]
  BY DEF SweepJob, Update
<1>3. j \in JobState /\ JobFits(j, run) /\ j.run \in Runs
  BY <1>1, JobOf
<1> DEFINE job == [j EXCEPT !.pc = "finish", !.outcome = o, !.marks = {}, !.start = 0,
                            !.place.after = IF o = "wait" THEN @ ELSE @ + 1]
<1>4. job \in JobState
  <2>1. j.place \in Places
    BY <1>3 DEF JobState
  <2> DEFINE place == [j.place EXCEPT !.after = IF o = "wait" THEN @ ELSE @ + 1]
             ended == [j EXCEPT !.pc = "finish", !.outcome = o, !.marks = {}, !.start = 0,
                                !.place = place]
  <2>2. place \in Places
    BY <2>1 DEF Places, Place
  <2>3. job = ended
    BY <1>3 DEF JobState
  <2> HIDE DEF place
  <2>4. ended \in JobState
    BY <1>3, <2>2 DEF JobState
  <2> HIDE DEF job, ended
  <2> QED
    BY <2>3, <2>4
<1>5. job.pc = "finish" /\ job.run = j.run /\ job.seq = j.seq
  BY <1>3 DEF JobState
<1>6. run[j.run].step = "sweep"
  BY <1>1, <1>3 DEF JobFits
<1> HIDE DEF job
<1>7. JobFits(job, run)
  BY <1>1, <1>3, <1>5 DEF JobFits
<1>8. JobHolds(job, run[job.run].step, shards[job.run], deleted)
  BY <1>5, <1>6 DEF JobHolds
<1> QED
  BY <1>1, <1>2, <1>4, <1>7, <1>8, Kept, OnlyJob DEF job

LEMMA PutFailsStep == ASSUME MarkInv, NEW w \in Workers, PutFails(w) PROVE MarkInv'
<1> DEFINE j == worker[w]
           job == [Idle EXCEPT !.pc = "fail", !.run = j.run, !.seq = j.seq]
<1>1. j.pc = "walk" /\ worker' = [worker EXCEPT ![w] = job]
      /\ UNCHANGED <<run, shards, deleted, queue, asked>> /\ Upset
  BY DEF PutFails, Update, Stopping, AtCheckpoint, Walking
<1>2. j \in JobState /\ JobFits(j, run) /\ j.run \in Runs
  BY <1>1, JobOf
<1>3. job \in JobState /\ job.pc = "fail" /\ job.run = j.run /\ job.seq = j.seq
  BY <1>2, IdleIs DEF JobState
<1> HIDE DEF job
<1>4. JobFits(job, run)
  BY <1>1, <1>2, <1>3 DEF JobFits
<1>5. JobHolds(job, run[job.run].step, shards[job.run], deleted)
  BY <1>3 DEF JobHolds
<1> QED
  BY <1>1, <1>3, <1>4, <1>5, Kept, UpsetIs, OnlyJob

LEMMA CrashStep == ASSUME MarkInv, NEW w \in Workers, Crash(w) PROVE MarkInv'
<1> DEFINE j == worker[w]
<1>1. /\ j.pc # "idle" /\ worker' = [worker EXCEPT ![w] = Idle] /\ Upset
      /\ queue' = queue \cup {Message(j.run, j.seq)}
      /\ UNCHANGED <<run, shards, deleted, asked>>
  BY DEF Crash, Update
<1>2. JobFits(j, run) /\ j.run \in Runs
  BY <1>1, JobOf
<1>3. Message(j.run, j.seq) \in [run : Runs, seq : 1 .. MaxSeq]
  BY <1>1, <1>2 DEF JobFits, Message
<1>4. queue' \subseteq [run : Runs, seq : 1 .. MaxSeq]
  BY <1>1, <1>3, Kept
<1> QED
  BY <1>1, <1>4, IdleIs, UpsetIs, OnlyJob

-----------------------------------------------------------------------------
(* Jobs and their rows.                                                    *)

LEMMA RowParts ==
  ASSUME NEW row \in Rows
  PROVE  /\ row.step \in Steps /\ row.status \in Statuses /\ row.lease \in {"none", "live", "lapsed"}
         /\ row.place \in Places /\ row.waits \in 0 .. MaxWaits /\ row.seq \in 1 .. MaxSeq
         /\ row.mark \in 0 .. MaxRuns
  BY DEF Rows, RunRow, Steps

LEMMA BeginStep == ASSUME MarkInv, NEW w \in Workers, Begin(w) PROVE MarkInv'
<1> DEFINE j == worker[w]
           job == [j EXCEPT !.pc = "load"]
           r == j.run
<1>1. /\ j.pc = "begin" /\ worker' = [worker EXCEPT ![w] = job]
      /\ run' = IF j.status = "queued" THEN [run EXCEPT ![r].status = "running"] ELSE run
      /\ UNCHANGED <<shards, deleted, queue, asked, upsets>>
  BY DEF Begin, Update
<1>2. j \in JobState /\ JobFits(j, run) /\ r \in Runs /\ r \in DOMAIN run
      /\ JobHolds(j, run[r].step, shards[r], deleted)
  BY <1>1, JobOf
<1>3. job \in JobState
  BY <1>2 DEF JobState
<1>4. /\ job.pc = "load" /\ job.run = r /\ job.seq = j.seq /\ job.item = j.item /\ job.place = j.place
      /\ job.fresh = j.fresh /\ job.opened = j.opened /\ job.snap = j.snap /\ job.mark = j.mark
  BY <1>2 DEF JobState
<1> HIDE DEF job
<1>5. JobFits(job, run)
  BY <1>1, <1>2, <1>4 DEF JobFits
<1>6. JobHolds(job, run[job.run].step, shards[job.run], deleted)
  BY <1>1, <1>2, <1>4 DEF JobHolds
<1> HIDE DEF r
<1>7. CASE j.status = "queued"
  <2> DEFINE row == [run[r] EXCEPT !.status = "running"]
  <2>1. run[r] \in Rows /\ RowHolds(run[r], shards[r], deleted)
    BY <1>2, RowOf
  <2>2. row \in Rows /\ row.step = run[r].step /\ row.mark = run[r].mark
        /\ row.status = "running" /\ row.place = run[r].place
    BY <2>1 DEF Rows, RunRow, Statuses
  <2>3. run' = [run EXCEPT ![r] = row]
    BY <1>1, <1>7
  <2> HIDE DEF row
  <2>4. RowHolds(row, shards[r], deleted)
    BY <2>1, <2>2 DEF RowHolds
  <2> QED
    BY <1>1, <1>2, <1>3, <1>5, <1>6, <2>2, <2>3, <2>4, Kept, RowAndJob
<1>8. CASE j.status # "queued"
  BY <1>1, <1>3, <1>5, <1>6, <1>8, Kept, OnlyJob
<1> QED
  BY <1>7, <1>8

LEMMA FailStep == ASSUME MarkInv, NEW w \in Workers, Fail(w) PROVE MarkInv'
<1> DEFINE r == worker[w].run
           row == [run[r] EXCEPT !.status = "failed", !.lease = "none"]
<1>1. /\ worker[w].pc = "fail" /\ worker' = [worker EXCEPT ![w] = Idle]
      /\ run' = [run EXCEPT ![r].status = "failed", ![r].lease = "none"]
      /\ UNCHANGED <<shards, deleted, queue, asked, upsets>>
  BY DEF Fail, Update
<1>2. r \in Runs /\ r \in DOMAIN run
  BY <1>1, JobOf
<1> HIDE DEF r
<1>3. run' = [run EXCEPT ![r] = row]
  <2>1. run \in Seq(Rows) /\ run[r] \in Rows
    BY <1>2, RowOf DEF MarkInv, TypeInv
  <2> QED
    BY <1>1, <1>2, <2>1 DEF Rows, RunRow
<1>4. run[r] \in Rows /\ RowHolds(run[r], shards[r], deleted)
  BY <1>2, RowOf
<1>5. row \in Rows /\ row.step = run[r].step /\ row.mark = run[r].mark
      /\ row.status = "failed" /\ row.place = run[r].place
  BY <1>4 DEF Rows, RunRow, Statuses
<1> HIDE DEF row
<1>6. RowHolds(row, shards[r], deleted)
  BY <1>4, <1>5 DEF RowHolds
<1> QED
  BY <1>1, <1>2, <1>3, <1>5, <1>6, IdleIs, Kept, RowAndJob

LEMMA CheckpointStep == ASSUME MarkInv, NEW w \in Workers, Checkpoint(w) PROVE MarkInv'
<1> DEFINE j == worker[w]
           job == [j EXCEPT !.saving = "no", !.snap = FirstPlace]
           r == j.run
<1>1. /\ j.pc = "walk" /\ worker' = [worker EXCEPT ![w] = job]
      /\ run' = IF run[r].seq = j.seq
                THEN [run EXCEPT ![r].place = j.snap, ![r].lease = "live"] ELSE run
      /\ UNCHANGED <<shards, deleted, queue, asked, upsets>>
  BY DEF Checkpoint, Update
<1>2. j \in JobState /\ JobFits(j, run) /\ r \in Runs /\ r \in DOMAIN run
      /\ JobHolds(j, run[r].step, shards[r], deleted)
  BY <1>1, JobOf
<1>3. WalkHolds(j, shards[r], deleted)
  BY <1>1, <1>2 DEF JobHolds
<1>4. job \in JobState
  BY <1>2, FirstPlaceIs DEF JobState
<1>5. /\ job.pc = "walk" /\ job.run = r /\ job.seq = j.seq /\ job.item = j.item /\ job.place = j.place
      /\ job.fresh = j.fresh /\ job.opened = j.opened /\ job.snap = FirstPlace /\ job.marks = j.marks
      /\ job.done = j.done
  BY <1>1, <1>2 DEF JobState
<1> HIDE DEF job
<1>6. JobFits(job, run)
  BY <1>1, <1>2, <1>5 DEF JobFits
<1>7. JobHolds(job, run[job.run].step, shards[job.run], deleted)
  <2>1. WalkHolds(job, shards[r], deleted)
    BY <1>3, <1>5, HoldsFirst DEF WalkHolds
  <2> QED
    BY <1>5, <2>1 DEF JobHolds
<1>8. j.snap \in Places /\ Holds(j.snap, shards[r], deleted)
  BY <1>2, <1>3 DEF JobState, WalkHolds
<1>9. run[r].step = "mark"
  BY <1>1, <1>2 DEF JobFits
<1> DEFINE snap == j.snap
<1> HIDE DEF r
<1>10. CASE run[r].seq = j.seq
  <2> DEFINE row == [run[r] EXCEPT !.place = snap, !.lease = "live"]
  <2>1. run[r] \in Rows /\ RowHolds(run[r], shards[r], deleted) /\ run \in Seq(Rows)
    BY <1>2, RowOf DEF MarkInv, TypeInv
  <2>2. run' = [run EXCEPT ![r] = row]
    BY <1>1, <1>2, <1>10, <2>1 DEF Rows, RunRow
  <2>5. snap \in Places
    BY <1>8
  <2> HIDE DEF snap
  <2>6. snap \in Place /\ run[r] \in RunRow
    BY <2>1, <2>5 DEF Places, Rows
  <2>7. row \in RunRow /\ row.step = run[r].step /\ row.mark = run[r].mark
        /\ row.status = run[r].status /\ row.place = snap
    BY <2>6 DEF RunRow
  <2>3. row \in Rows /\ row.step = run[r].step /\ row.mark = run[r].mark
        /\ row.status = run[r].status /\ row.place = snap
    BY <2>5, <2>7 DEF Rows
  <2> HIDE DEF row
  <2>4. RowHolds(row, shards[r], deleted)
    BY <1>8, <2>1, <2>3 DEF RowHolds, snap
  <2> QED
    BY <1>1, <1>2, <1>4, <1>6, <1>7, <2>2, <2>3, <2>4, Kept, RowAndJob
<1>11. CASE run[r].seq # j.seq
  BY <1>1, <1>4, <1>6, <1>7, <1>11, Kept, OnlyJob
<1> QED
  BY <1>10, <1>11

LEMMA ClaimStep == ASSUME MarkInv, NEW w \in Workers, NEW m \in queue, Claim(w, m) PROVE MarkInv'
<1> DEFINE r == m.run
           taken == run[r].seq = m.seq /\ Active(r)
           job == [Idle EXCEPT !.pc = "begin", !.run = r, !.seq = m.seq,
                               !.status = run[r].status, !.place = run[r].place,
                               !.waits = run[r].waits, !.mark = run[r].mark]
           row == [run[r] EXCEPT !.lease = "live"]
<1>1. m \in [run : Runs, seq : 1 .. MaxSeq] /\ r \in Runs /\ r \in DOMAIN run /\ m.seq \in 1 .. MaxSeq
  BY Kept DEF Runs
<1>2. run[r] \in Rows /\ RowHolds(run[r], shards[r], deleted)
      /\ (run[r].step = "sweep" => run[r].mark \in Runs)
  BY <1>1, RowOf
<1>3. CASE taken
  <2>1. /\ run' = [run EXCEPT ![r].lease = "live"]
        /\ worker' = [worker EXCEPT ![w] = job]
        /\ \/ queue' = queue \ {m} /\ UNCHANGED upsets
           \/ queue' = queue /\ Upset
        /\ UNCHANGED <<shards, deleted, asked>>
    BY <1>3 DEF Claim, Update
  <2>2. job \in JobState
    <3>1. run[r].status \in Statuses /\ run[r].place \in Places /\ run[r].waits \in 0 .. MaxWaits
          /\ run[r].mark \in 0 .. MaxRuns
      BY <1>2, RowParts
    <3>2. r \in Nat /\ m.seq \in Nat
      BY <1>1, Bounds DEF MarkInv, TypeInv
    <3> DEFINE status == run[r].status
               place == run[r].place
               waits == run[r].waits
               mark == run[r].mark
    <3>3. status \in Statuses /\ place \in Places /\ waits \in 0 .. MaxWaits /\ mark \in 0 .. MaxRuns
      BY <3>1
    <3> HIDE DEF status, place, waits, mark
    <3>4. [Idle EXCEPT !.pc = "begin", !.run = r, !.seq = m.seq, !.status = status,
                       !.place = place, !.waits = waits, !.mark = mark] \in JobState
      BY <3>2, <3>3, IdleIs DEF JobState
    <3> QED
      BY <3>4 DEF status, place, waits, mark
  <2>3. /\ job.pc = "begin" /\ job.run = r /\ job.seq = m.seq /\ job.item = 0
        /\ job.place = run[r].place /\ job.fresh = {} /\ job.opened = {} /\ job.snap = FirstPlace
        /\ job.mark = run[r].mark
    BY DEF Idle
  <2> HIDE DEF job
  <2>4. JobFits(job, run)
    BY <1>1, <1>2, <2>3 DEF JobFits, Runs
  <2>5. JobHolds(job, run[job.run].step, shards[job.run], deleted)
    BY <1>2, <2>3 DEF JobHolds, RowHolds
  <2> HIDE DEF r
  <2>6. run' = [run EXCEPT ![r] = row]
    BY <2>1
  <2>7. row \in Rows /\ row.step = run[r].step /\ row.mark = run[r].mark
        /\ row.status = run[r].status /\ row.place = run[r].place
    BY <1>2 DEF Rows, RunRow
  <2> HIDE DEF row
  <2>8. RowHolds(row, shards[r], deleted)
    BY <1>2, <2>7 DEF RowHolds
  <2>9. queue' \subseteq [run : Runs, seq : 1 .. MaxSeq] /\ upsets' \in 0 .. MaxUpsets
    BY <2>1, Kept, UpsetIs
  <2> QED
    BY <1>1, <2>1, <2>2, <2>4, <2>5, <2>6, <2>7, <2>8, <2>9, RowAndJob
<1>4. CASE ~taken
  <2>1. queue' = queue \ {m} /\ UNCHANGED <<run, worker, upsets, shards, deleted, asked>>
    BY <1>4 DEF Claim
  <2>2. queue' \subseteq [run : Runs, seq : 1 .. MaxSeq] /\ upsets' \in 0 .. MaxUpsets
    BY <2>1, Kept
  <2>3. worker[w] \in JobState /\ JobFits(worker[w], run)
    BY JobOf
  <2>4. worker[w].pc = "idle"
    BY DEF Claim
  <2>5. worker' = [worker EXCEPT ![w] = worker[w]]
    BY <2>1 DEF MarkInv, TypeInv
  <2> QED
    BY <2>1, <2>2, <2>3, <2>4, <2>5, OnlyJob
<1> QED
  BY <1>3, <1>4

LEMMA DoneIsFull ==
  ASSUME NEW p, NEW M, NEW gone, Holds(p, M, gone), p.phase = 4
  PROVE  Full(M)
  BY DEF Holds, PassedBy, Full

LEMMA FinishStep == ASSUME MarkInv, NEW w \in Workers, Finish(w) PROVE MarkInv'
<1> DEFINE j == worker[w]
           r == j.run
           waits == IF j.outcome = "wait" THEN j.waits + 1 ELSE 0
           over == j.outcome = "done"
           then == over /\ run[r].step = "mark" /\ run[r].thenSweep
           status == IF over THEN "done" ELSE IF j.outcome = "wait" THEN "waiting" ELSE "running"
           look == [j EXCEPT !.pc = "look"]
           job == IF ~GivesUp(waits) /\ then THEN look ELSE Idle
<1>1. j.pc = "finish" /\ worker' = [worker EXCEPT ![w] = job]
      /\ UNCHANGED <<shards, deleted, asked, upsets>>
  BY DEF Finish, Update
<1>2. j \in JobState /\ JobFits(j, run) /\ r \in Runs /\ r \in DOMAIN run
      /\ JobHolds(j, run[r].step, shards[r], deleted)
  BY <1>1, JobOf
<1>3. run[r] \in Rows /\ RowHolds(run[r], shards[r], deleted)
  BY <1>2, RowOf
<1>4. job \in JobState /\ (job.pc # "idle" => job.pc = "look" /\ job.run = r /\ job.seq = j.seq)
  <2>1. look \in JobState /\ look.pc = "look" /\ look.run = r /\ look.seq = j.seq
    BY <1>2 DEF JobState
  <2> HIDE DEF look
  <2> QED
    BY <2>1, IdleIs
<1>5. JobFits(job, run) /\ (job.pc # "idle" => JobHolds(job, run[job.run].step, shards[job.run], deleted))
  <2>1. j.seq \in 1 .. MaxSeq
    BY <1>1, <1>2 DEF JobFits
  <2> HIDE DEF job
  <2> QED
    BY <1>2, <1>4, <2>1 DEF JobFits, JobHolds
<1>6. CASE GivesUp(waits)
  <2> DEFINE row == [run[r] EXCEPT !.status = "failed", !.lease = "none"]
  <2>1. run' = [run EXCEPT ![r].status = "failed", ![r].lease = "none"] /\ queue' = queue
    BY <1>6 DEF Finish
  <2> HIDE DEF job, waits, then, status
  <2>2. run' = [run EXCEPT ![r] = row]
    <3>1. run \in Seq(Rows)
      BY DEF MarkInv, TypeInv
    <3> HIDE DEF r
    <3> QED
      BY <1>2, <1>3, <2>1, <3>1 DEF Rows, RunRow
  <2>3. row \in Rows /\ row.step = run[r].step /\ row.mark = run[r].mark
        /\ row.status = "failed" /\ row.place = run[r].place
    BY <1>3 DEF Rows, RunRow, Statuses
  <2> HIDE DEF row, r
  <2>4. RowHolds(row, shards[r], deleted)
    BY <1>3, <2>3 DEF RowHolds
  <2> QED
    BY <1>1, <1>2, <1>4, <1>5, <2>1, <2>2, <2>3, <2>4, Kept, RowAndJob
<1>7. CASE ~GivesUp(waits)
  <2>1. /\ j.seq < MaxSeq
        /\ run' = [run EXCEPT ![r] =
               [@ EXCEPT !.place = j.place, !.waits = waits, !.seq = j.seq + 1,
                         !.lease = "none",
                         !.status = CASE over -> "done"
                                      [] j.outcome = "wait" -> "waiting"
                                      [] OTHER -> "running"]]
        /\ queue' = IF over THEN queue ELSE queue \cup {Message(r, j.seq + 1)}
    BY <1>7 DEF Finish
  <2>2. (CASE over -> "done" [] j.outcome = "wait" -> "waiting" [] OTHER -> "running") = status
    OBVIOUS
  <2> DEFINE row == [run[r] EXCEPT !.status = status, !.lease = "none", !.place = j.place,
                                   !.waits = waits, !.seq = j.seq + 1]
  <2>3. run' = [run EXCEPT ![r] = row]
    <3>1. run \in Seq(Rows)
      BY DEF MarkInv, TypeInv
    <3>2. run' = [run EXCEPT ![r] = [@ EXCEPT !.place = j.place, !.waits = waits, !.seq = j.seq + 1,
                                              !.lease = "none", !.status = status]]
      BY <2>1, <2>2
    <3> HIDE DEF waits, status
    <3> QED
      BY <1>2, <1>3, <3>1, <3>2 DEF Rows, RunRow
  <2>4. /\ status \in Statuses /\ j.place \in Places /\ waits \in 0 .. MaxWaits
        /\ j.seq + 1 \in 1 .. MaxSeq
    <3>1. j.waits \in 0 .. MaxWaits /\ j.seq \in 1 .. MaxSeq /\ j.place \in Places
      BY <1>1, <1>2 DEF JobState, JobFits
    <3> QED
      BY <1>7, <2>1, <3>1, Bounds DEF GivesUp, Statuses
  <2>5. row \in Rows /\ row.step = run[r].step /\ row.mark = run[r].mark
        /\ row.status = status /\ row.place = j.place
    <3> DEFINE place == j.place
               seq == j.seq + 1
               new == [run[r] EXCEPT !.status = status, !.lease = "none", !.place = place,
                                     !.waits = waits, !.seq = seq]
    <3>1. status \in Statuses /\ place \in Places /\ waits \in 0 .. MaxWaits /\ seq \in 1 .. MaxSeq
      BY <2>4
    <3> HIDE DEF status, waits, place, seq
    <3>2. new \in Rows /\ new.step = run[r].step /\ new.mark = run[r].mark
          /\ new.status = status /\ new.place = place
      <4>1. place \in Place /\ run[r] \in RunRow
        BY <1>3, <3>1 DEF Places, Rows
      <4>2. /\ new \in RunRow /\ new.step = run[r].step /\ new.mark = run[r].mark
            /\ new.status = status /\ new.place = place
        BY <3>1, <4>1 DEF RunRow
      <4> HIDE DEF new
      <4> QED
        BY <3>1, <4>2 DEF Rows
    <3> QED
      BY <3>2 DEF place, seq
  <2>6. queue' \subseteq [run : Runs, seq : 1 .. MaxSeq]
    BY <1>2, <2>1, <2>4, Kept DEF Message
  <2>7. RowHolds(row, shards[r], deleted)
    <3>1. run[r].step = "mark" => Holds(j.place, shards[r], deleted)
                                  /\ (over => j.place.phase = 4)
      BY <1>1, <1>2 DEF JobHolds
    <3>2. status = "done" => over
      OBVIOUS
    <3> HIDE DEF row, over, status
    <3> QED
      BY <2>5, <3>1, <3>2, DoneIsFull DEF RowHolds
  <2> HIDE DEF row, job, r
  <2> QED
    BY <1>1, <1>2, <1>4, <1>5, <2>3, <2>5, <2>6, <2>7, Kept, RowAndJob
<1> QED
  BY <1>6, <1>7

-----------------------------------------------------------------------------
(* Runs that are started.                                                  *)

LEMMA Inserted ==
  ASSUME MarkInv, NEW step \in Steps, NEW then \in BOOLEAN, NEW mark \in 0 .. MaxRuns,
         step = "sweep" => mark \in Runs /\ Full(shards[mark]),
         Len(run) < MaxRuns, Insert(step, then, mark), UNCHANGED <<deleted, upsets>>,
         \A w \in Workers : worker'[w] = worker[w] \/ worker'[w] = Idle,
         worker' \in [Workers -> JobState],
         asked' = asked \/ asked' = NoRequest
  PROVE  MarkInv'
<1> DEFINE row == [step |-> step, status |-> "queued", seq |-> 1, lease |-> "none",
                   place |-> FirstPlace, waits |-> 0, thenSweep |-> then, mark |-> mark]
           n == Len(run)
<1>1. run' = Append(run, row) /\ shards' = Append(shards, {})
      /\ queue' = queue \cup {Message(n + 1, 1)}
  BY DEF Insert
<1>2. TypeInv
  BY DEF MarkInv
<1>3. row \in Rows /\ row.step = step /\ row.mark = mark /\ row.status = "queued" /\ row.place = FirstPlace
  <2>1. FirstPlace \in Place /\ FirstPlace \in Places
    BY FirstPlaceIs DEF Places
  <2> QED
    BY <2>1, Bounds DEF Rows, RunRow, Statuses, Steps
<1> HIDE DEF row
<1>4. /\ run \in Seq(Rows) /\ shards \in Seq(SUBSET Held) /\ n \in Nat /\ Len(shards) = n
      /\ Runs = 1 .. n
  BY <1>2 DEF TypeInv, Runs
<1>5. /\ run' \in Seq(Rows) /\ Len(run') = n + 1 /\ Runs' = 1 .. (n + 1)
      /\ shards' \in Seq(SUBSET Held) /\ Len(shards') = n + 1
      /\ run'[n + 1] = row /\ shards'[n + 1] = {}
      /\ \A r \in Runs : run'[r] = run[r] /\ shards'[r] = shards[r]
  BY <1>1, <1>3, <1>4 DEF Runs
<1>6. Grows
  BY <1>4, <1>5 DEF Grows
<1>7. TypesKept
  <2>1. queue' \subseteq [run : Runs', seq : 1 .. MaxSeq]
    BY <1>1, <1>4, <1>5, Kept, Bounds DEF Message
  <2>2. Len(run') <= MaxRuns
    BY <1>4, <1>5, Bounds
  <2>3. asked' \in {NoRequest} \cup [step : Steps, mark : 0 .. MaxRuns]
    BY <1>2 DEF TypeInv
  <2>4. deleted' \subseteq Range(Order) /\ upsets' \in 0 .. MaxUpsets
    BY <1>2 DEF TypeInv
  <2> QED
    BY <1>5, <2>1, <2>2, <2>3, <2>4 DEF TypesKept
<1>8. NewJobs
  BY IdleIs DEF NewJobs
<1>9. NewRows
  <2>1. RowHolds(row, {}, deleted')
    BY <1>3, HoldsFirst DEF RowHolds
  <2>2. step = "sweep" => mark \in Runs' /\ Full(shards'[mark])
    BY <1>4, <1>5
  <2>3. \A r \in Runs' : r \in Runs \/ r = n + 1
    BY <1>4, <1>5
  <2> QED
    BY <1>3, <1>5, <2>1, <2>2, <2>3 DEF NewRows
<1>10. NewShards
  <2>1. Whole({})
    BY DEF Whole
  <2>2. \A r \in Runs' : r \in Runs \/ r = n + 1
    BY <1>4, <1>5
  <2> QED
    BY <1>5, <2>1, <2>2 DEF NewShards
<1>11. NewRequest
  BY DEF NewRequest, NoRequest
<1> QED
  BY <1>6, <1>7, <1>8, <1>9, <1>10, <1>11, Preserved

LEMMA InsertSweepStep == ASSUME MarkInv, NEW w \in Workers, InsertSweep(w) PROVE MarkInv'
<1> DEFINE r == worker[w].run
<1>1. worker[w].pc = "insert" /\ worker' = [worker EXCEPT ![w] = Idle]
      /\ UNCHANGED <<deleted, asked, upsets>>
  BY DEF InsertSweep, Update
<1>2. r \in Runs /\ Full(shards[r])
  BY <1>1, JobOf DEF JobHolds
<1>3. CASE Len(run) < MaxRuns
  <2>1. Insert("sweep", FALSE, r)
    BY <1>3 DEF InsertSweep
  <2>2. r \in 0 .. MaxRuns
    BY <1>2, <1>3, Bounds DEF MarkInv, TypeInv, Runs
  <2>3. worker' \in [Workers -> JobState]
        /\ \A v \in Workers : worker'[v] = worker[v] \/ worker'[v] = Idle
    BY <1>1, IdleIs DEF MarkInv, TypeInv
  <2> HIDE DEF r
  <2> QED
    BY <1>1, <1>2, <1>3, <2>1, <2>2, <2>3, Inserted DEF Steps
<1>4. CASE ~(Len(run) < MaxRuns)
  <2>1. UNCHANGED <<run, shards, queue>>
    BY <1>4 DEF InsertSweep
  <2> QED
    BY <1>1, <2>1, IdleIs, Kept, OnlyJob
<1> QED
  BY <1>3, <1>4

LEMMA StartRunStep == ASSUME MarkInv, StartRun PROVE MarkInv'
<1>1. asked # NoRequest /\ asked' = NoRequest /\ UNCHANGED <<deleted, worker, upsets>>
  BY DEF StartRun
<1>2. asked \in {NoRequest} \cup [step : Steps, mark : 0 .. MaxRuns]
      /\ (asked.step = "sweep" => asked.mark \in Runs /\ Full(shards[asked.mark]))
      /\ worker \in [Workers -> JobState]
  BY DEF MarkInv, TypeInv, SweepsFull
<1>3. CASE Len(run) < MaxRuns
  <2>1. PICK then \in BOOLEAN : Insert(asked.step, then, asked.mark)
    <3>1. Len(run) \in Nat
      BY DEF MarkInv, TypeInv
    <3>2. Len(run) # MaxRuns
      BY <1>3, <3>1, Bounds
    <3>3. \E then \in IF asked.step = "mark" THEN BOOLEAN ELSE {FALSE} :
            Insert(asked.step, then, asked.mark)
      BY <3>2 DEF StartRun
    <3> QED
      BY <3>3
  <2>2. asked.step \in Steps /\ asked.mark \in 0 .. MaxRuns
    BY <1>1, <1>2
  <2> QED
    BY <1>1, <1>2, <1>3, <2>1, <2>2, Inserted
<1>4. CASE ~(Len(run) < MaxRuns)
  <2>1. UNCHANGED <<run, shards, queue>>
    BY <1>4 DEF StartRun
  <2>2. Runs' = Runs
    BY <2>1 DEF Runs
  <2>3. Grows /\ NewJobs /\ NewRows /\ NewShards
    BY <1>1, <2>1, <2>2 DEF Grows, NewJobs, NewRows, NewShards
  <2>4. NewRequest
    BY <1>1 DEF NewRequest, NoRequest
  <2>5. TypesKept
    BY <1>1, <2>1, <2>2 DEF MarkInv, TypeInv, TypesKept
  <2> QED
    BY <2>3, <2>4, <2>5, Preserved
<1> QED
  BY <1>3, <1>4

LEMMA AskStep == ASSUME MarkInv, NEW step \in Steps, Ask(step) PROVE MarkInv'
<1>1. UNCHANGED <<run, shards, deleted, queue, worker, upsets>>
  BY DEF Ask
<1>2. Runs' = Runs
  BY <1>1 DEF Runs
<1>3. Grows /\ NewJobs /\ NewRows /\ NewShards
  BY <1>1, <1>2 DEF Grows, NewJobs, NewRows, NewShards
<1>4. /\ asked' \in [step : Steps, mark : 0 .. MaxRuns]
      /\ asked'.step = "sweep" => asked'.mark \in Runs /\ Full(shards[asked'.mark])
  <2>1. CASE step = "mark"
    <3>1. asked' = [step |-> "mark", mark |-> 0]
      BY <2>1 DEF Ask
    <3> QED
      BY <3>1, Bounds DEF Steps
  <2>2. CASE step = "sweep"
    <3>1. asked' = [step |-> "sweep", mark |-> Max(DoneMarks)] /\ DoneMarks # {}
      BY <2>2 DEF Ask
    <3>2. Runs = 1 .. Len(run) /\ Len(run) \in Nat /\ Len(run) <= MaxRuns
      BY DEF MarkInv, TypeInv, Runs
    <3>3. DoneMarks \subseteq Nat /\ \A r \in DoneMarks : r <= MaxRuns
      BY <3>2, Bounds DEF DoneMarks
    <3>4. Max(DoneMarks) \in DoneMarks
      BY <3>1, <3>3, Bounds, MaxOf
    <3> DEFINE m == Max(DoneMarks)
    <3>5. m \in Runs /\ Full(shards[m]) /\ m \in 0 .. MaxRuns
      BY <3>2, <3>4, RowOf, Bounds DEF DoneMarks, RowHolds
    <3> HIDE DEF m
    <3> QED
      BY <3>1, <3>5 DEF Steps, m
  <2> QED
    BY <2>1, <2>2 DEF Steps
<1>5. NewRequest
  BY <1>1, <1>2, <1>4 DEF NewRequest
<1>6. TypesKept
  BY <1>1, <1>2, <1>4 DEF MarkInv, TypeInv, TypesKept
<1> QED
  BY <1>3, <1>5, <1>6, Preserved

-----------------------------------------------------------------------------
(* The cron, time and failures.                                            *)

\* Messages, upsets and deletions are all that change.
LEMMA Outside ==
  ASSUME MarkInv, UNCHANGED <<run, shards, worker, asked>>, deleted \subseteq deleted',
         deleted' \subseteq Range(Order),
         queue' \subseteq [run : Runs, seq : 1 .. MaxSeq], upsets' \in 0 .. MaxUpsets
  PROVE  MarkInv'
<1>1. Runs' = Runs
  BY DEF Runs
<1>2. Grows /\ NewJobs /\ NewRows /\ NewShards /\ NewRequest
  BY <1>1 DEF Grows, NewJobs, NewRows, NewShards, NewRequest
<1>3. TypesKept
  BY <1>1 DEF MarkInv, TypeInv, TypesKept
<1> QED
  BY <1>2, <1>3, Preserved

LEMMA OutsideSteps ==
  ASSUME MarkInv,
         \/ \E r \in Runs : Requeue(r)
         \/ \E m \in queue : LoseMessage(m)
         \/ \E c \in Range(Order) : Delete(c)
  PROVE  MarkInv'
<1>1. deleted \subseteq Range(Order)
  BY DEF MarkInv, TypeInv
<1>2. ASSUME NEW r \in Runs, Requeue(r) PROVE MarkInv'
  <2>1. queue' = queue \cup {Message(r, run[r].seq)} /\ UNCHANGED <<run, shards, deleted, worker, asked, upsets>>
    BY <1>2 DEF Requeue
  <2>2. run[r].seq \in 1 .. MaxSeq
    BY <1>2, RowOf, RowParts
  <2> QED
    BY <1>1, <1>2, <2>1, <2>2, Kept, Outside DEF Message
<1>3. ASSUME NEW m \in queue, LoseMessage(m) PROVE MarkInv'
  <2>1. queue' = queue \ {m} /\ Upset /\ UNCHANGED <<run, shards, deleted, worker, asked>>
    BY <1>3 DEF LoseMessage
  <2> QED
    BY <1>1, <2>1, Kept, UpsetIs, Outside
<1>4. ASSUME NEW c \in Range(Order), Delete(c) PROVE MarkInv'
  <2>1. deleted' = deleted \cup {c} /\ Upset /\ UNCHANGED <<run, shards, queue, worker, asked>>
    BY <1>4 DEF Delete
  <2> QED
    BY <1>1, <1>4, <2>1, Kept, UpsetIs, Outside
<1> QED
  BY <1>2, <1>3, <1>4

LEMMA LapseStep == ASSUME MarkInv, NEW r \in Runs, Lapse(r) PROVE MarkInv'
<1> DEFINE row == [run[r] EXCEPT !.lease = "lapsed"]
<1>1. run' = [run EXCEPT ![r] = row] /\ UNCHANGED <<shards, deleted, queue, worker, asked>>
  BY DEF Lapse
<1>2. upsets' \in 0 .. MaxUpsets
  BY Kept, UpsetIs DEF Lapse
<1>3. run[r] \in Rows /\ RowHolds(run[r], shards[r], deleted)
  BY RowOf
<1>4. row \in Rows /\ row.step = run[r].step /\ row.mark = run[r].mark
      /\ row.status = run[r].status /\ row.place = run[r].place
  BY <1>3 DEF Rows, RunRow
<1> HIDE DEF row
<1>5. RowHolds(row, shards[r], deleted)
  BY <1>3, <1>4 DEF RowHolds
<1>6. TypeInv
  BY DEF MarkInv
<1>7. Runs' = Runs /\ run' \in Seq(Rows) /\ Len(run') = Len(run)
  BY <1>1, <1>4, <1>6 DEF Runs, TypeInv
<1>8. run'[r] = row /\ \A q \in Runs \ {r} : run'[q] = run[q]
  BY <1>1 DEF Runs
<1>9. Grows
  BY <1>1, <1>4, <1>7, <1>8 DEF Grows
<1>10. TypesKept
  BY <1>1, <1>2, <1>6, <1>7 DEF TypeInv, TypesKept
<1>11. NewJobs /\ NewShards /\ NewRequest
  BY <1>1, <1>7 DEF NewJobs, NewShards, NewRequest
<1>12. NewRows
  <2>1. run[r].step = "sweep" => run[r].mark \in Runs /\ Full(shards[run[r].mark])
    BY RowOf
  <2> QED
    BY <1>1, <1>4, <1>5, <1>7, <1>8, <2>1 DEF NewRows
<1> QED
  BY <1>9, <1>10, <1>11, <1>12, Preserved

-----------------------------------------------------------------------------
(* Shards.                                                                 *)

\* A job writes what it added: the marks it has are then its shards'.
LEMMA Saved ==
  ASSUME MarkInv, NEW w \in Workers, worker[w].pc = "walk", NEW job \in JobState,
         JobFits(job, run), job.run = worker[w].run, job.pc \in {"walk", "finish"},
         JobHolds(job, run[job.run].step, shards[job.run] \cup worker[w].fresh, deleted),
         worker' = [worker EXCEPT ![w] = job],
         shards' = [shards EXCEPT ![job.run] = shards[job.run] \cup worker[w].fresh],
         UNCHANGED <<run, deleted, queue, asked, upsets>>
  PROVE  MarkInv'
<1> DEFINE j == worker[w]
           r == job.run
           M == shards[r] \cup j.fresh
<1>1. j \in JobState /\ JobFits(j, run) /\ r \in Runs /\ r \in DOMAIN run
      /\ JobHolds(j, run[r].step, shards[r], deleted)
  BY JobOf
<1>2. shards[r] \in SUBSET Held /\ Whole(shards[r])
  BY <1>1, RowOf
<1>3. WalkHolds(j, shards[r], deleted)
  BY <1>1 DEF JobHolds
<1>4. j.fresh \in SUBSET Held
  BY <1>1 DEF JobState
<1>5. M \in SUBSET Held /\ shards[r] \subseteq M
  BY <1>2, <1>4
<1>6. Whole(M)
  <2>1. M = shards[r] \cup j.marks
    BY <1>3 DEF WalkHolds
  <2>2. Whole(j.marks)
    BY <1>3 DEF WalkHolds
  <2> QED
    BY <1>2, <2>1, <2>2, WholeUnion
<1>7. TypeInv
  BY DEF MarkInv
<1>8. Runs' = Runs
  BY DEF Runs
<1> DEFINE new == M
<1>9. shards' = [shards EXCEPT ![r] = new]
  OBVIOUS
<1>10. JobHolds(job, run[r].step, new, deleted)
  OBVIOUS
<1> HIDE DEF new
<1>11. shards' \in Seq(SUBSET Held) /\ Len(shards') = Len(run) /\ r \in DOMAIN shards
       /\ shards'[r] = new /\ \A q \in Runs \ {r} : shards'[q] = shards[q]
  BY <1>1, <1>5, <1>7, <1>9 DEF TypeInv, Runs, new
<1>12. Grows
  BY <1>5, <1>8, <1>11 DEF Grows, new
<1>13. TypesKept
  BY <1>7, <1>8, <1>11 DEF TypeInv, TypesKept
<1>14. NewJobs
  BY <1>7, <1>10, <1>11 DEF TypeInv, NewJobs
<1>15. NewRows /\ NewRequest
  BY <1>8 DEF NewRows, NewRequest
<1>16. NewShards
  BY <1>6, <1>8, <1>11 DEF NewShards, new
<1> QED
  BY <1>12, <1>13, <1>14, <1>15, <1>16, Preserved

LEMMA SaveShardStep == ASSUME MarkInv, NEW w \in Workers, SaveShard(w) PROVE MarkInv'
<1> DEFINE j == worker[w]
           job == [j EXCEPT !.saving = "row", !.fresh = {}, !.saved = j.reads, !.snap = j.place]
           r == j.run
           M == shards[r] \cup j.fresh
<1>1. /\ j.pc = "walk" /\ j.item # 0 /\ worker' = [worker EXCEPT ![w] = job]
      /\ shards' = [shards EXCEPT ![r] = M]
      /\ UNCHANGED <<run, deleted, queue, asked, upsets>>
  BY DEF SaveShard, Update, AtCheckpoint, Walking
<1>2. j \in JobState /\ JobFits(j, run) /\ r \in Runs
      /\ JobHolds(j, run[r].step, shards[r], deleted)
  BY <1>1, JobOf
<1>3. WalkHolds(j, shards[r], deleted)
  BY <1>1, <1>2 DEF JobHolds
<1>4. job \in JobState
  BY <1>2 DEF JobState
<1>5. /\ job.pc = "walk" /\ job.run = r /\ job.seq = j.seq /\ job.item = j.item /\ job.place = j.place
      /\ job.fresh = {} /\ job.opened = j.opened /\ job.snap = j.place /\ job.marks = j.marks
      /\ job.done = j.done
  BY <1>1, <1>2 DEF JobState
<1> HIDE DEF job
<1>6. JobFits(job, run)
  BY <1>1, <1>2, <1>5 DEF JobFits
<1>7. JobHolds(job, run[job.run].step, M, deleted)
  <2>1. j.marks \subseteq M
    BY <1>3 DEF WalkHolds
  <2> HIDE DEF M
  <2>2. Holds(j.place, M, deleted)
    BY <1>3, <2>1, HoldsGrows DEF WalkHolds
  <2>3. WalkHolds(job, M, deleted)
    BY <1>3, <1>5, <2>1, <2>2 DEF WalkHolds
  <2> QED
    BY <1>5, <2>3 DEF JobHolds
<1> QED
  BY <1>1, <1>4, <1>5, <1>6, <1>7, Saved

LEMMA StopStep == ASSUME MarkInv, NEW w \in Workers, Stop(w) PROVE MarkInv'
<1> DEFINE j == worker[w]
           r == j.run
           M == shards[r] \cup j.fresh
           outcome == IF Ended(j) THEN "done" ELSE "more"
           place == IF j.item = 0 THEN j.place ELSE [j.place EXCEPT !.at = j.item, !.seq = j.done]
           job == [j EXCEPT !.pc = "finish", !.outcome = outcome, !.place = place,
                            !.item = 0, !.done = 0, !.handled = 0, !.opened = {}, !.reads = 0,
                            !.saved = 0, !.fresh = {}, !.marks = {}, !.start = 0]
<1>1. j.pc = "walk"
  BY DEF Stop, Stopping
<1>2. j \in JobState /\ JobFits(j, run) /\ r \in Runs
      /\ JobHolds(j, run[r].step, shards[r], deleted)
  BY <1>1, JobOf
<1>3. /\ worker' = [worker EXCEPT ![w] = job]
      /\ shards' = [shards EXCEPT ![r] = M]
      /\ UNCHANGED <<run, deleted, queue, asked, upsets>>
  BY <1>2 DEF Stop, Update, JobState
<1>4. WalkHolds(j, shards[r], deleted)
  BY <1>1, <1>2 DEF JobHolds
<1>5. j.place \in Places /\ j.item \in Nat /\ j.done \in Nat
  BY <1>2 DEF JobState
<1>6. place \in Places /\ place.phase = j.place.phase /\ place.after = j.place.after
      /\ (j.item = 0 => place = j.place) /\ (j.item # 0 => place.at = j.item /\ place.seq = j.done)
  <2>1. CASE j.item = 0
    BY <1>5, <2>1
  <2>2. CASE j.item # 0
    <3>1. j.item \in DOMAIN Order /\ j.done < Len(Versions[Order[j.item]])
      BY <1>1, <1>2, <2>2 DEF JobFits
    <3> DEFINE p == j.place
               new == [p EXCEPT !.at = j.item, !.seq = j.done]
    <3>2. p \in Place
      BY <1>5 DEF Places
    <3> HIDE DEF p
    <3>3. /\ new \in Place /\ new.phase = p.phase /\ new.after = p.after
          /\ new.at = j.item /\ new.seq = j.done
      BY <1>5, <3>2 DEF Place
    <3> HIDE DEF new
    <3>4. new \in Places
      BY <1>5, <3>1, <3>3, Ordered DEF Places
    <3> QED
      BY <2>2, <3>3, <3>4 DEF new, p
  <2> QED
    BY <2>1, <2>2
<1>7. outcome = "done" => place.phase = 4
  <2>1. j.place.phase \in 1 .. 4
    BY <1>5 DEF Places, Place, Phases
  <2>2. Ended(j) => j.place.phase = 4
    BY <2>1 DEF Ended, Phases
  <2> HIDE DEF place
  <2> QED
    BY <1>6, <2>2
<1>8. Holds(place, M, deleted)
  <2>1. j.marks \subseteq M
    BY <1>4 DEF WalkHolds
  <2> HIDE DEF M, place
  <2>2. Holds(j.place, M, deleted)
    BY <1>4, <2>1, HoldsGrows DEF WalkHolds
  <2>3. j.item # 0 => Has(M, j.item, 1 .. j.done)
    BY <1>4, <2>1, HasGrows DEF WalkHolds
  <2>4. \A i : PassedBy(place, i, deleted) => PassedBy(j.place, i, deleted)
    BY <1>6 DEF PassedBy
  <2> QED
    BY <1>6, <2>2, <2>3, <2>4 DEF Holds
<1>9. job \in JobState
  <2>1. outcome \in {"more", "done", "wait"} /\ place \in Places
    BY <1>6
  <2> HIDE DEF outcome, place
  <2> QED
    BY <1>2, <2>1 DEF JobState
<1>10. /\ job.pc = "finish" /\ job.run = r /\ job.seq = j.seq
       /\ job.place = place /\ job.outcome = outcome
  <2> HIDE DEF outcome, place
  <2> QED
    BY <1>2 DEF JobState
<1> HIDE DEF job, place, outcome
<1>11. JobFits(job, run)
  BY <1>1, <1>2, <1>10 DEF JobFits
<1>12. JobHolds(job, run[job.run].step, M, deleted)
  BY <1>7, <1>8, <1>10 DEF JobHolds
<1> QED
  BY <1>1, <1>3, <1>9, <1>10, <1>11, <1>12, Saved

-----------------------------------------------------------------------------
(* The walk.                                                               *)

\* What the walk's steps leave alone.
SameJob(j, job) ==
    /\ job.pc = j.pc /\ job.run = j.run /\ job.seq = j.seq /\ job.snap = j.snap
    /\ job.marks = j.marks /\ job.fresh = j.fresh /\ job.opened = j.opened

Inside(j) ==
    /\ j.item \in DOMAIN Order /\ j.place.phase \in {1, 2}
    /\ j.done <= Len(Versions[Order[j.item]])

\* A collection that is done joins those before it.
LEMMA ItemPassed ==
  ASSUME NEW j \in JobState, Inside(j), NEW S, NEW gone, WalkHolds(j, S, gone),
         Has(j.marks, j.item, 1 .. Len(Versions[Order[j.item]])),
         NEW place, place.phase = j.place.phase, place.after = j.item, place.at = 0
  PROVE  Holds(place, j.marks, gone)
<1>1. Holds(j.place, j.marks, gone) /\ j.item # 0 /\ j.item \in Nat /\ j.place.after \in Nat
  <2>1. j.item \in Nat \ {0} /\ j.place \in Place
    BY Ordered DEF Inside, JobState, Places
  <2> QED
    BY <2>1 DEF WalkHolds, Place
<1>2. HasAll(j.marks, j.item)
  BY Ordered DEF HasAll, Inside
<1>3. \A i \in DOMAIN Order : PassedBy(place, i, gone) => HasAll(j.marks, i)
  <2> SUFFICES ASSUME NEW i \in DOMAIN Order, PassedBy(place, i, gone) PROVE HasAll(j.marks, i)
    OBVIOUS
  <2>1. CASE PassedBy(j.place, i, gone)
    BY <1>1, <2>1 DEF Holds
  <2>2. CASE i = j.item
    BY <1>2, <2>2
  <2>3. CASE j.place.after < i /\ i < j.item
    BY <1>1, <2>3 DEF WalkHolds, PassedBy, Inside
  <2>4. i \in Nat
    BY Ordered
  <2> QED
    BY <1>1, <2>1, <2>2, <2>3, <2>4 DEF PassedBy, Inside
<1> QED
  BY <1>3 DEF Holds, Inside

LEMMA Advanced ==
  ASSUME NEW j \in JobState, j.pc = "walk", Inside(j), NEW S, NEW gone, WalkHolds(j, S, gone)
  PROVE  /\ Advance(j) \in JobState /\ SameJob(j, Advance(j))
         /\ Advance(j).item # 0 => /\ Inside(Advance(j))
                                   /\ Advance(j).done < Len(Versions[Order[Advance(j).item]])
         /\ WalkHolds(Advance(j), S, gone)
<1> DEFINE roots == Versions[Order[j.item]]
           last == Len(roots)
           K == {k \in j.done .. last : \A i \in j.done + 1 .. k : roots[i] \in j.marks}
           done == Max(K)
           job == Advance(j)
           live == Phases[j.place.phase] = "collections"
           past == [j EXCEPT !.place = [FirstPlace EXCEPT !.phase = j.place.phase, !.after = j.item],
                             !.item = 0, !.done = 0, !.handled = @ + 1]
           further == [j EXCEPT !.done = done, !.place.at = j.item, !.place.seq = done]
           on == [j EXCEPT !.done = done]
<1>1. job = IF done = last THEN past ELSE IF live /\ done > j.done THEN further ELSE on
  BY DEF Advance, Roots
<1>2. /\ last \in Nat /\ j.done \in Nat /\ j.done <= last /\ j.item \in Nat /\ j.item # 0
      /\ j.item \in DOMAIN Order
  BY Ordered DEF Inside, JobState
<1>3. done \in j.done .. last /\ \A i \in j.done + 1 .. done : roots[i] \in j.marks
  <2>1. K \subseteq Nat /\ (\A k \in K : k <= last)
    BY <1>2
  <2>2. j.done \in K
    BY <1>2
  <2>3. done \in K
    <3> HIDE DEF K, last
    <3> QED
      BY <1>2, <2>1, <2>2, MaxOf
  <2> HIDE DEF done
  <2> QED
    BY <2>3
<1> HIDE DEF done, K
<1>4. done \in Nat /\ done <= last /\ j.done <= done
  BY <1>2, <1>3
<1>5. Has(j.marks, j.item, 1 .. done)
  <2>1. Whole(j.marks) /\ Has(j.marks, j.item, 1 .. j.done)
    BY <1>2 DEF WalkHolds
  <2> QED
    BY <1>2, <1>3, <1>4, <2>1, HasMore
<1>6. j.place \in Places /\ j.place \in Place /\ j.place.phase \in {1, 2}
  BY DEF JobState, Places, Inside
<1> DEFINE place == j.place
           Concl(x) == /\ x \in JobState /\ SameJob(j, x)
                       /\ x.item # 0 => Inside(x) /\ x.done < Len(Versions[Order[x.item]])
                       /\ WalkHolds(x, S, gone)
<1>7. CASE done = last
  <2> DEFINE first == [FirstPlace EXCEPT !.phase = j.place.phase, !.after = j.item]
  <2>1. /\ first \in Places /\ first.phase = j.place.phase /\ first.after = j.item /\ first.at = 0
    BY <1>2, <1>6 DEF FirstPlace, Places, Place
  <2> HIDE DEF first
  <2>5. past = [j EXCEPT !.place = first, !.item = 0, !.done = 0, !.handled = j.handled + 1]
    BY DEF first, JobState
  <2>7. j.handled + 1 \in Nat
    BY DEF JobState
  <2> DEFINE n == j.handled + 1
             new == [j EXCEPT !.place = first, !.item = 0, !.done = 0, !.handled = n]
  <2>8. /\ new \in JobState /\ SameJob(j, new) /\ new.item = 0 /\ new.place = first
    <3> HIDE DEF n
    <3> QED
      BY <2>1, <2>7 DEF JobState, SameJob, n
  <2>2. /\ past \in JobState /\ SameJob(j, past) /\ past.item = 0 /\ past.place = first
    <3> HIDE DEF new, past
    <3> QED
      BY <2>5, <2>8 DEF new
  <2>3. Holds(first, j.marks, gone)
    BY <1>5, <1>7, <2>1, ItemPassed
  <2> HIDE DEF past
  <2>4. WalkHolds(past, S, gone)
    BY <2>2, <2>3 DEF WalkHolds, SameJob
  <2>6. Concl(past)
    BY <2>2, <2>4
  <2> QED
    BY <1>1, <1>7, <2>6
<1>8. CASE done # last /\ live /\ done > j.done
  <2> DEFINE p == [place EXCEPT !.at = j.item, !.seq = done]
  <2>1. p \in Places /\ p.phase = place.phase /\ p.after = place.after /\ p.at = j.item /\ p.seq = done
    <3> HIDE DEF place
    <3>1. place \in Place
      BY <1>6 DEF place
    <3> QED
      BY <1>2, <1>4, <3>1 DEF Places, Place
  <2>2. further = [j EXCEPT !.done = done, !.place = p]
    BY <1>6 DEF JobState
  <2> HIDE DEF p
  <2>3. /\ further \in JobState /\ SameJob(j, further) /\ further.item = j.item
        /\ further.done = done /\ further.place = p
    BY <1>4, <2>1, <2>2 DEF JobState, SameJob
  <2> HIDE DEF further
  <2>4. Holds(p, j.marks, gone)
    <3>1. \A i : PassedBy(p, i, gone) => PassedBy(place, i, gone)
      BY <2>1 DEF PassedBy
    <3>2. Holds(place, j.marks, gone)
      BY DEF WalkHolds
    <3> QED
      BY <1>5, <1>6, <2>1, <3>1, <3>2 DEF Holds
  <2>5. WalkHolds(further, S, gone)
    BY <1>2, <1>5, <2>1, <2>3, <2>4 DEF WalkHolds, SameJob
  <2>6. Inside(further) /\ further.done < Len(Versions[Order[further.item]])
    BY <1>2, <1>4, <1>6, <1>8, <2>1, <2>3 DEF Inside
  <2>7. Concl(further)
    BY <2>3, <2>5, <2>6
  <2> QED
    BY <1>1, <1>8, <2>7
<1>9. CASE done # last /\ ~(live /\ done > j.done)
  <2>1. /\ on \in JobState /\ SameJob(j, on) /\ on.item = j.item /\ on.done = done /\ on.place = j.place
    BY <1>4 DEF JobState, SameJob
  <2> HIDE DEF on
  <2>2. WalkHolds(on, S, gone)
    BY <1>2, <1>5, <2>1 DEF WalkHolds, SameJob
  <2>3. Inside(on) /\ on.done < Len(Versions[Order[on.item]])
    BY <1>2, <1>4, <1>6, <1>9, <2>1 DEF Inside
  <2>4. Concl(on)
    BY <2>1, <2>2, <2>3
  <2> QED
    BY <1>1, <1>9, <2>4
<1> QED
  BY <1>7, <1>8, <1>9

\* Marks that are added leave the set whole.
LEMMA AddKeeps ==
  ASSUME NEW j \in JobState, NEW S, NEW gone, WalkHolds(j, S, gone),
         NEW R \in SUBSET Held, Whole(j.marks \cup R)
  PROVE  /\ Add(j, R) \in JobState /\ WalkHolds(Add(j, R), S, gone)
         /\ Add(j, R).pc = j.pc /\ Add(j, R).run = j.run /\ Add(j, R).seq = j.seq
         /\ Add(j, R).item = j.item /\ Add(j, R).done = j.done /\ Add(j, R).place = j.place
         /\ Add(j, R).marks = j.marks \cup R /\ Add(j, R).opened = j.opened
<1> DEFINE marks == j.marks \cup R
           fresh == j.fresh \cup (R \ j.marks)
           job == Add(j, R)
<1>1. job = [j EXCEPT !.marks = marks, !.fresh = fresh]
  BY DEF Add, JobState
<1>2. marks \in SUBSET Held /\ fresh \in SUBSET Held
  BY DEF JobState
<1>3. /\ job \in JobState
      /\ job.pc = j.pc /\ job.run = j.run /\ job.seq = j.seq /\ job.snap = j.snap
      /\ job.item = j.item /\ job.done = j.done /\ job.place = j.place
      /\ job.marks = marks /\ job.opened = j.opened /\ job.fresh = fresh
  <2> HIDE DEF job, marks, fresh
  <2> QED
    BY <1>1, <1>2 DEF JobState
<1> HIDE DEF job
<1>4. Holds(j.place, marks, gone)
  BY HoldsGrows DEF WalkHolds
<1>5. Has(j.marks, j.item, 1 .. j.done) => Has(marks, j.item, 1 .. j.done)
  BY HasGrows
<1>6. \A k : HasAll(j.marks, k) => HasAll(marks, k)
  BY HasGrows DEF HasAll
<1>7. WalkHolds(job, S, gone)
  <2>1. fresh \subseteq marks /\ marks \subseteq S \cup fresh
    BY DEF WalkHolds
  <2>2. Whole(marks)
    OBVIOUS
  <2> HIDE DEF marks, fresh
  <2> QED
    BY <1>3, <1>4, <1>5, <1>6, <2>1, <2>2 DEF WalkHolds
<1> QED
  BY <1>3, <1>7 DEF job

\* A walking job's next state is fit if it is still the same run's.
LEMMA WalkFits ==
  ASSUME MarkInv, NEW w \in Workers, worker[w].pc = "walk", NEW job \in JobState,
         job.pc = "walk", job.run = worker[w].run, job.seq = worker[w].seq,
         job.item # 0 => Inside(job) /\ job.done < Len(Versions[Order[job.item]]),
         WalkHolds(job, shards[job.run], deleted),
         worker' = [worker EXCEPT ![w] = job],
         UNCHANGED <<run, shards, deleted, queue, asked, upsets>>
  PROVE  MarkInv'
<1>1. JobFits(worker[w], run)
  BY JobOf
<1>2. JobFits(job, run)
  BY <1>1 DEF JobFits, Inside
<1>3. JobHolds(job, run[job.run].step, shards[job.run], deleted)
  BY DEF JobHolds
<1> QED
  BY <1>2, <1>3, Kept, OnlyJob

LEMMA NextItemStep == ASSUME MarkInv, NEW w \in Workers, NextItem(w) PROVE MarkInv'
<1> DEFINE j == worker[w]
           S == shards[j.run]
           ahead == {i \in DOMAIN Order : i > j.place.after /\ Due(j.place.phase, i)}
           rows == UNION {Possessed[Order[i]] : i \in ahead}
           last == [FirstPlace EXCEPT !.phase = 4]
           next == [FirstPlace EXCEPT !.phase = j.place.phase + 1]
           done == IF ahead # {} /\ j.place.at = Min(ahead) THEN j.place.seq ELSE 0
           into == [j EXCEPT !.item = Min(ahead), !.done = done]
<1>1. /\ j.pc = "walk" /\ j.item = 0 /\ Phases[j.place.phase] # "done"
      /\ UNCHANGED <<run, shards, deleted, queue, asked, upsets>>
      /\ worker' = [worker EXCEPT ![w] =
            IF Phases[j.place.phase] = "possessions" THEN Add([j EXCEPT !.place = last], rows)
            ELSE IF ahead = {} THEN [j EXCEPT !.place = next] ELSE Advance(into)]
  BY DEF NextItem, Update
<1>2. j \in JobState /\ WalkHolds(j, S, deleted)
  BY <1>1, JobOf DEF JobHolds
<1>3. j.place \in Places /\ j.place \in Place /\ j.place.phase \in {1, 2, 3}
      /\ j.place.after \in Nat /\ j.place.at \in Nat /\ j.place.seq \in Nat
  <2>1. j.place \in Places /\ j.place \in Place
    BY <1>2 DEF JobState, Places
  <2>2. j.place.phase \in 1 .. 4
    BY <2>1 DEF Place, Phases
  <2>3. j.place.phase # 4
    BY <1>1 DEF Phases
  <2> QED
    BY <2>1, <2>2, <2>3 DEF Place
<1>4. Phases[j.place.phase] = "possessions" <=> j.place.phase = 3
  BY <1>3 DEF Phases
<1>5. \A i \in DOMAIN Order :
        /\ j.place.phase = 1 => (Due(j.place.phase, i) <=> Order[i] \notin deleted)
        /\ j.place.phase = 2 => (Due(j.place.phase, i) <=> Order[i] \in deleted)
        /\ j.place.phase = 3 => Due(j.place.phase, i)
  BY <1>3 DEF Due, Phases
<1>6. Holds(j.place, j.marks, deleted)
  BY <1>2 DEF WalkHolds
<1> HIDE DEF S
<1>7. CASE j.place.phase = 3
  <2>1. ahead = DOMAIN Order
    <3>1. j.place.after = 0
      BY <1>6, <1>7 DEF Holds
    <3>2. \A i \in DOMAIN Order : i > j.place.after /\ Due(j.place.phase, i)
      <4> SUFFICES ASSUME NEW i \in DOMAIN Order PROVE i > j.place.after /\ Due(j.place.phase, i)
        OBVIOUS
      <4>1. i \in Nat /\ i # 0
        BY Ordered
      <4> QED
        BY <1>5, <1>7, <3>1, <4>1
    <3> QED
      BY <3>2
  <2>2. rows \in SUBSET Held /\ rows \cap Nodes = {} /\ \A i \in DOMAIN Order : Possessed[Order[i]] \subseteq rows
    <3>1. \A i \in ahead : Possessed[Order[i]] \subseteq Held /\ Possessed[Order[i]] \cap Nodes = {}
      BY <2>1, Ordered
    <3> HIDE DEF ahead
    <3> QED
      BY <2>1, <3>1
  <2> DEFINE k == [j EXCEPT !.place = last]
             job == Add(k, rows)
  <2>3. last \in Places /\ last.phase = 4 /\ last.at = 0
    BY DEF FirstPlace, Places, Place, Phases
  <2> HIDE DEF rows, last, ahead
  <2>4. /\ k \in JobState /\ k.place = last /\ k.item = 0 /\ k.marks = j.marks /\ k.fresh = j.fresh
        /\ k.opened = j.opened /\ k.snap = j.snap /\ k.pc = "walk" /\ k.run = j.run /\ k.seq = j.seq
    BY <1>1, <1>2, <2>3 DEF JobState
  <2> DEFINE marks == j.marks \cup rows
  <2>5. Whole(marks)
    BY <1>2, <2>2, WholeRows DEF WalkHolds
  <2>6. Holds(last, marks, deleted)
    <3>1. \A i \in DOMAIN Order : HasAll(j.marks, i)
      BY <1>6, <1>7 DEF Holds, PassedBy
    <3>2. \A i \in DOMAIN Order : HasAll(marks, i)
      BY <3>1, HasGrows DEF HasAll
    <3>3. \A i \in DOMAIN Order : Possessed[Order[i]] \subseteq marks
      BY <2>2
    <3> HIDE DEF marks
    <3> QED
      BY <2>3, <3>2, <3>3 DEF Holds
  <2> DEFINE fresh == j.fresh \cup (rows \ j.marks)
  <2>7. fresh \subseteq marks /\ marks \subseteq S \cup fresh
    BY <1>2 DEF WalkHolds
  <2>8. /\ job \in JobState /\ job.pc = "walk" /\ job.run = j.run /\ job.seq = j.seq /\ job.item = 0
        /\ job.place = last /\ job.marks = marks /\ job.fresh = fresh /\ job.opened = j.opened
        /\ job.snap = j.snap
    <3>1. job = [k EXCEPT !.marks = marks, !.fresh = fresh]
      BY <2>4 DEF Add, JobState
    <3>2. marks \in SUBSET Held /\ fresh \in SUBSET Held
      BY <1>2, <2>2 DEF JobState
    <3> HIDE DEF job, marks, fresh, k
    <3> QED
      BY <2>4, <3>1, <3>2 DEF JobState
  <2>9. worker' = [worker EXCEPT ![w] = job]
    BY <1>1, <1>4, <1>7
  <2> HIDE DEF job, marks, fresh
  <2>10. WalkHolds(job, S, deleted)
    BY <1>2, <2>5, <2>6, <2>7, <2>8 DEF WalkHolds
  <2> QED
    BY <1>1, <2>8, <2>9, <2>10, WalkFits DEF S
<1>8. CASE j.place.phase # 3 /\ ahead = {}
  <2> DEFINE job == [j EXCEPT !.place = next]
  <2>1. next \in Places /\ next.phase = j.place.phase + 1 /\ next.after = 0 /\ next.at = 0
    BY <1>3, <1>8 DEF FirstPlace, Places, Place, Phases
  <2>2. worker' = [worker EXCEPT ![w] = job]
    BY <1>1, <1>4, <1>8
  <2>3. \A i \in DOMAIN Order : PassedBy(next, i, deleted) => PassedBy(j.place, i, deleted)
    <3> SUFFICES ASSUME NEW i \in DOMAIN Order, PassedBy(next, i, deleted)
                 PROVE  PassedBy(j.place, i, deleted)
      OBVIOUS
    <3>1. i \in Nat /\ i # 0
      BY Ordered
    <3>2. i \notin ahead
      BY <1>8
    <3> HIDE DEF next
    <3> QED
      BY <1>3, <1>5, <1>8, <2>1, <3>1, <3>2 DEF PassedBy
  <2> HIDE DEF next
  <2>4. /\ job \in JobState /\ job.pc = "walk" /\ job.run = j.run /\ job.seq = j.seq /\ job.item = 0
        /\ job.place = next /\ job.marks = j.marks /\ job.fresh = j.fresh /\ job.opened = j.opened
        /\ job.snap = j.snap
    BY <1>1, <1>2, <2>1 DEF JobState
  <2>5. Holds(next, j.marks, deleted)
    BY <1>3, <1>6, <1>8, <2>1, <2>3 DEF Holds
  <2> HIDE DEF job
  <2>6. WalkHolds(job, S, deleted)
    BY <1>2, <2>4, <2>5 DEF WalkHolds
  <2> QED
    BY <1>1, <2>2, <2>4, <2>6, WalkFits DEF S
<1>9. CASE j.place.phase # 3 /\ ahead # {}
  <2> DEFINE item == Min(ahead)
             job == Advance(into)
  <2>1. item \in ahead /\ \A i \in ahead : item <= i
    <3>1. ahead \subseteq Nat
      BY Ordered
    <3> HIDE DEF ahead
    <3> QED
      BY <1>9, <3>1, MinOf
  <2>2. /\ item \in DOMAIN Order /\ item \in Nat /\ item # 0 /\ item > j.place.after
        /\ \A i \in DOMAIN Order : j.place.after < i /\ i < item => ~Due(j.place.phase, i)
    <3>1. item \in DOMAIN Order /\ item \in Nat /\ item # 0 /\ item > j.place.after
      BY <2>1, Ordered
    <3>2. ASSUME NEW i \in DOMAIN Order, j.place.after < i, i < item PROVE ~Due(j.place.phase, i)
      <4>1. i \in Nat
        BY Ordered
      <4>2. i \notin ahead
        <5> HIDE DEF ahead
        <5> QED
          BY <2>1, <3>1, <3>2, <4>1
      <4> QED
        BY <1>3, <3>2, <4>1, <4>2
    <3> QED
      BY <3>1, <3>2
  <2>3. /\ done \in Nat /\ done <= Len(Versions[Order[item]]) /\ Has(j.marks, item, 1 .. done)
    <3>1. CASE j.place.at = item
      <4>1. done = j.place.seq
        BY <1>9, <3>1
      <4> HIDE DEF item
      <4> QED
        BY <1>3, <1>6, <2>2, <3>1, <4>1 DEF Places, Holds
    <3>2. CASE j.place.at # item
      <4>1. done = 0
        BY <1>9, <3>2
      <4>2. Has(j.marks, item, 1 .. 0)
        BY HasEach
      <4>3. 0 <= Len(Versions[Order[item]])
        BY <2>2, Ordered
      <4> QED
        BY <4>1, <4>2, <4>3
    <3> QED
      BY <3>1, <3>2
  <2>4. worker' = [worker EXCEPT ![w] = job]
    BY <1>1, <1>4, <1>9
  <2> HIDE DEF ahead, item, done
  <2> DEFINE new == [j EXCEPT !.item = item, !.done = done]
  <2>5. /\ new \in JobState /\ new.pc = "walk" /\ new.run = j.run /\ new.seq = j.seq /\ new.item = item
        /\ new.done = done /\ new.place = j.place /\ new.marks = j.marks /\ new.fresh = j.fresh
        /\ new.opened = j.opened /\ new.snap = j.snap
    BY <1>1, <1>2, <2>2, <2>3 DEF JobState
  <2>6. job = Advance(new)
    BY DEF item
  <2> HIDE DEF new, job
  <2>7. Inside(new)
    BY <1>3, <1>9, <2>2, <2>3, <2>5 DEF Inside
  <2>8. WalkHolds(new, S, deleted)
    <3>1. \A k \in DOMAIN Order : j.place.after < k /\ k < item =>
             IF j.place.phase = 1 THEN Order[k] \in deleted ELSE HasAll(j.marks, k)
      <4> SUFFICES ASSUME NEW k \in DOMAIN Order, j.place.after < k, k < item
                   PROVE  IF j.place.phase = 1 THEN Order[k] \in deleted ELSE HasAll(j.marks, k)
        OBVIOUS
      <4>1. ~Due(j.place.phase, k)
        BY <2>2
      <4>2. j.place.phase = 2 => HasAll(j.marks, k)
        BY <1>5, <1>6, <4>1 DEF Holds, PassedBy
      <4> QED
        BY <1>3, <1>5, <1>9, <4>1, <4>2
    <3> QED
      BY <1>2, <2>2, <2>3, <2>5, <3>1 DEF WalkHolds
  <2>9. /\ job \in JobState /\ SameJob(new, job) /\ WalkHolds(job, S, deleted)
        /\ job.item # 0 => Inside(job) /\ job.done < Len(Versions[Order[job.item]])
    BY <2>5, <2>6, <2>7, <2>8, Advanced
  <2>10. job.pc = "walk" /\ job.run = j.run /\ job.seq = j.seq
    BY <2>5, <2>9 DEF SameJob
  <2> QED
    BY <1>1, <2>4, <2>9, <2>10, WalkFits DEF S
<1> QED
  BY <1>7, <1>8, <1>9

LEMMA ReadNodeStep == ASSUME MarkInv, NEW w \in Workers, ReadNode(w) PROVE MarkInv'
<1> DEFINE j == worker[w]
           S == shards[j.run]
           ahead == (({Root(j)} \cup UNION {Children[n] : n \in j.opened}) \ j.opened) \ j.marks
<1>1. PICK n \in ahead : worker' = [worker EXCEPT ![w] = Advance(Close(Read(j, n)))]
  BY DEF ReadNode, Update
<1>2. j.pc = "walk" /\ j.item # 0 /\ UNCHANGED <<run, shards, deleted, queue, asked, upsets>>
  BY DEF ReadNode, Walking
<1>3. j \in JobState /\ JobFits(j, run) /\ WalkHolds(j, S, deleted)
  BY <1>2, JobOf DEF JobHolds
<1>4. Inside(j) /\ j.done < Len(Versions[Order[j.item]]) /\ j.done \in Nat
  BY <1>2, <1>3 DEF JobFits, Inside, JobState
<1>5. j.opened \in SUBSET Nodes /\ j.reads \in Nat /\ j.reads + 1 \in Nat
  BY <1>3 DEF JobState
<1>6. n \in Nodes
  <2>1. Root(j) \in Nodes
    <3>1. Versions[Order[j.item]] \in Seq(Nodes) /\ j.done + 1 \in 1 .. Len(Versions[Order[j.item]])
      BY <1>4, Ordered DEF Inside
    <3> QED
      BY <3>1 DEF Root, Roots
  <2>2. \A m \in j.opened : Children[m] \subseteq Nodes
    BY <1>5, CleanupConstants
  <2> QED
    BY <2>1, <2>2
<1> DEFINE read == Read(j, n)
           c == Complete(read)
           shut == [read EXCEPT !.opened = @ \ c]
           closed == Close(read)
           job == Advance(closed)
           Same(x) == /\ x.pc = "walk" /\ x.run = j.run /\ x.seq = j.seq
                      /\ x.item = j.item /\ x.done = j.done /\ x.place = j.place
<1> HIDE DEF S
<1>7. read \in JobState /\ WalkHolds(read, S, deleted) /\ Same(read)
  <2> DEFINE reads == j.reads + 1
             opened == j.opened \cup {n}
             counted == [j EXCEPT !.reads = reads]
             down == [j EXCEPT !.reads = reads, !.opened = opened]
  <2>1. opened \in SUBSET Nodes /\ reads \in Nat
    BY <1>5, <1>6
  <2> HIDE DEF reads, opened
  <2>2. CASE Children[n] = {}
    <3>1. /\ counted \in JobState /\ Same(counted) /\ counted.marks = j.marks /\ counted.fresh = j.fresh
          /\ counted.opened = j.opened /\ counted.snap = j.snap
      BY <1>2, <1>3, <2>1 DEF JobState
    <3>2. read = Add(counted, LeafMarks(n))
      BY <2>2 DEF Read, reads
    <3> HIDE DEF counted
    <3>3. WalkHolds(counted, S, deleted)
      BY <1>3, <3>1 DEF WalkHolds
    <3>4. LeafMarks(n) \in SUBSET Held
      <4>1. Points[n] \subseteq UNION {Points[m] : m \in Nodes}
        BY <1>6
      <4>2. n \in Held /\ Points[n] \subseteq Held
        BY <1>6, <4>1 DEF Held
      <4>3. {Frame[n]} \ {NoNode} \subseteq Held
        BY <1>6, CleanupConstants DEF Held
      <4> QED
        BY <4>2, <4>3 DEF LeafMarks
    <3>5. Whole(counted.marks \cup LeafMarks(n))
      BY <1>3, <1>6, <2>2, <3>1, LeafWhole DEF WalkHolds
    <3> DEFINE more == Add(counted, LeafMarks(n))
    <3>6. /\ more \in JobState /\ WalkHolds(more, S, deleted) /\ Same(more)
      BY <3>1, <3>3, <3>4, <3>5, AddKeeps
    <3> QED
      BY <3>2, <3>6
  <2>3. CASE Children[n] # {}
    <3>1. /\ down \in JobState /\ Same(down) /\ down.marks = j.marks /\ down.fresh = j.fresh
          /\ down.opened = opened /\ down.snap = j.snap
      BY <1>2, <1>3, <2>1 DEF JobState
    <3>2. read = down
      BY <1>3, <2>3 DEF Read, reads, opened, JobState
    <3> HIDE DEF down
    <3>3. WalkHolds(down, S, deleted)
      BY <1>3, <2>3, <3>1 DEF WalkHolds, opened
    <3> QED
      BY <3>1, <3>2, <3>3
  <2> QED
    BY <2>2, <2>3
<1> HIDE DEF read
<1>8. c \subseteq read.opened /\ read.opened \in SUBSET Nodes /\ c \in SUBSET Held
  BY <1>7 DEF Complete, JobState, Held
<1>9. Whole(read.marks \cup c)
  <2>1. Whole(read.marks) /\ \A m \in read.opened : Children[m] # {}
    BY <1>7 DEF WalkHolds
  <2> QED
    BY <1>8, <2>1, CompleteWhole
<1> HIDE DEF c
<1>10. /\ shut \in JobState /\ Same(shut) /\ WalkHolds(shut, S, deleted) /\ shut.marks = read.marks
  <2> DEFINE opened == read.opened \ c
             new == [read EXCEPT !.opened = opened]
  <2>1. opened \in SUBSET Nodes
    BY <1>8
  <2>2. shut = new
    BY <1>7 DEF JobState
  <2> HIDE DEF opened
  <2>3. /\ new \in JobState /\ Same(new) /\ new.marks = read.marks /\ new.fresh = read.fresh
        /\ new.opened = opened /\ new.snap = read.snap /\ new.place = read.place
        /\ new.item = read.item /\ new.done = read.done
    BY <1>7, <2>1 DEF JobState
  <2> HIDE DEF new, shut
  <2>4. WalkHolds(new, S, deleted)
    BY <1>7, <2>3 DEF WalkHolds, opened
  <2> QED
    BY <2>2, <2>3, <2>4
<1>11. closed = Add(shut, c)
  BY DEF Close, c
<1> HIDE DEF shut, closed
<1>12. closed \in JobState /\ WalkHolds(closed, S, deleted) /\ Same(closed)
  BY <1>8, <1>9, <1>10, <1>11, AddKeeps
<1>13. Inside(closed)
  BY <1>4, <1>12 DEF Inside
<1> HIDE DEF job
<1>14. /\ job \in JobState /\ SameJob(closed, job) /\ WalkHolds(job, S, deleted)
       /\ job.item # 0 => Inside(job) /\ job.done < Len(Versions[Order[job.item]])
  BY <1>12, <1>13, Advanced DEF job
<1>15. job.pc = "walk" /\ job.run = j.run /\ job.seq = j.seq
  BY <1>12, <1>14 DEF SameJob
<1>16. worker' = [worker EXCEPT ![w] = job]
  BY <1>1 DEF job, closed, read
<1> QED
  BY <1>2, <1>14, <1>15, <1>16, WalkFits DEF S

-----------------------------------------------------------------------------
(* The theorems.                                                           *)

LEMMA MarkInit == Init => MarkInv
<1> SUFFICES ASSUME Init PROVE MarkInv
  OBVIOUS
<1>1. Runs = {} /\ run \in Seq(Rows) /\ shards \in Seq(SUBSET Held) /\ Len(run) = 0 /\ Len(shards) = 0
  BY DEF Init, Runs
<1>2. worker \in [Workers -> JobState] /\ \A w \in Workers : worker[w] = Idle
  BY IdleIs DEF Init
<1>3. TypeInv
  BY <1>1, <1>2, IdleIs, Bounds DEF Init, TypeInv, NoRequest
<1>4. ShardsWhole /\ RowsHold
  BY <1>1 DEF ShardsWhole, RowsHold
<1>5. SweepsFull
  BY <1>1 DEF SweepsFull, Init, NoRequest
<1>6. JobsHold
  BY <1>2, IdleIs DEF JobsHold
<1> QED
  BY <1>3, <1>4, <1>5, <1>6 DEF MarkInv

LEMMA MarkStep == MarkInv /\ [Next]_vars => MarkInv'
<1> SUFFICES ASSUME MarkInv, [Next]_vars PROVE MarkInv'
  OBVIOUS
<1>1. CASE UNCHANGED vars
  BY <1>1, Kept, Outside DEF vars, MarkInv, TypeInv
<1>2. CASE Next
  <2>1. ASSUME NEW w \in Workers, JobStep(w) PROVE MarkInv'
    BY <2>1, BeginStep, LoadStep, ReadNodeStep, NextItemStep, CheckpointStep, StopStep,
       SweepJobStep, FinishStep, LookStep, InsertSweepStep, FailStep DEF JobStep
  <2>2. ASSUME NEW w \in Workers,
               SaveShard(w) \/ PutFails(w) \/ Crash(w) \/ \E m \in queue : Claim(w, m)
        PROVE  MarkInv'
    BY <2>2, SaveShardStep, PutFailsStep, CrashStep, ClaimStep
  <2>3. ASSUME NEW step \in {"mark", "sweep"}, Ask(step) PROVE MarkInv'
    BY <2>3, AskStep DEF Steps
  <2>4. CASE StartRun
    BY <2>4, StartRunStep
  <2>5. ASSUME NEW r \in Runs, Requeue(r) \/ Lapse(r) PROVE MarkInv'
    BY <2>5, OutsideSteps, LapseStep
  <2>6. CASE (\E m \in queue : LoseMessage(m)) \/ (\E c \in Range(Order) : Delete(c))
    BY <2>6, OutsideSteps
  <2> QED
    BY <1>2, <2>1, <2>2, <2>3, <2>4, <2>5, <2>6 DEF Next
<1> QED
  BY <1>1, <1>2

LEMMA MarkInvHolds == Spec => []MarkInv
  BY MarkInit, MarkStep, PTL DEF Spec

\* Rows, shards, messages and jobs keep their types.
THEOREM TypeCorrect == Spec => []TypeOK
<1>1. MarkInv => TypeOK
  <2> SUFFICES ASSUME MarkInv PROVE TypeOK
    OBVIOUS
  <2>1. TypeInv
    BY DEF MarkInv
  <2>2. \A r \in Runs : run[r] \in RunRow /\ shards[r] \subseteq Held
    BY RowOf DEF Rows
  <2>3. \A w \in Workers : /\ worker[w].marks \subseteq Held /\ worker[w].fresh \subseteq Held
                           /\ worker[w].place \in Place
                           /\ worker[w].pc # "idle" => worker[w].run \in Runs
    BY JobOf DEF JobState, Places
  <2>4. asked.step \in {"none", "mark", "sweep"}
    BY <2>1 DEF TypeInv, NoRequest, Steps
  <2> QED
    BY <2>1, <2>2, <2>3, <2>4 DEF TypeInv, TypeOK
<1> QED
  BY <1>1, MarkInvHolds, PTL

\* A mark misses nothing that a place says is marked or that a sweep needs, but entries of a
\* frame that its delta dropped: whatever jobs die, repeat, outlive their lease or write the
\* row over each other, and whatever is deleted meanwhile (runs.ts 241, mark.ts 122-245).
MissesOnlyDropped ==
    /\ \A r \in Runs : run[r].step = "mark" =>
          LET p == run[r].place IN
          /\ \A i \in DOMAIN Order :
                Passed(p, i) => NeedsOf(i, DOMAIN Versions[Order[i]]) \subseteq shards[r] \cup Dropped
          /\ p.at # 0 => NeedsOf(p.at, 1 .. p.seq) \subseteq shards[r] \cup Dropped
    /\ \A r \in Runs : run[r].step = "sweep" =>
          \A i \in DOMAIN Order :
             NeedsOf(i, DOMAIN Versions[Order[i]]) \cup Possessed[Order[i]]
                \subseteq shards[run[r].mark] \cup Dropped

THEOREM OnlyFramesMiss == Spec => []MissesOnlyDropped
<1>1. MarkInv => MissesOnlyDropped
  <2> SUFFICES ASSUME MarkInv PROVE MissesOnlyDropped
    OBVIOUS
  <2>1. ASSUME NEW r \in Runs, run[r].step = "mark"
        PROVE  LET p == run[r].place IN
               /\ \A i \in DOMAIN Order :
                     Passed(p, i) => NeedsOf(i, DOMAIN Versions[Order[i]]) \subseteq shards[r] \cup Dropped
               /\ p.at # 0 => NeedsOf(p.at, 1 .. p.seq) \subseteq shards[r] \cup Dropped
    <3>1. Holds(run[r].place, shards[r], deleted)
      BY <2>1, RowOf DEF RowHolds
    <3>2. \A i : Passed(run[r].place, i) <=> PassedBy(run[r].place, i, deleted)
      BY DEF Passed, PassedBy
    <3> QED
      BY <3>1, <3>2 DEF Holds, HasAll, Has
  <2>2. ASSUME NEW r \in Runs, run[r].step = "sweep", NEW i \in DOMAIN Order
        PROVE  NeedsOf(i, DOMAIN Versions[Order[i]]) \cup Possessed[Order[i]]
                  \subseteq shards[run[r].mark] \cup Dropped
    <3>1. Full(shards[run[r].mark])
      BY <2>2, RowOf
    <3> QED
      BY <3>1 DEF Full, HasAll, Has
  <2> QED
    BY <2>1, <2>2 DEF MissesOnlyDropped
<1> QED
  BY <1>1, MarkInvHolds, PTL

\* No leaf drops what the leaf it is stored against names: the case finding 9 is not in.
FramesKept == \A n \in Nodes : Frame[n] # NoNode => Points[Frame[n]] \subseteq Points[n]

LEMMA NothingDropped == FramesKept => Dropped = {}
  BY DEF FramesKept, Dropped

\* Then a place is behind the marks saved for it (runs.ts 241),
THEOREM PlacesSaved == ASSUME FramesKept PROVE Spec => []PlaceIsSaved
<1>1. MissesOnlyDropped => PlaceIsSaved
  BY NothingDropped DEF MissesOnlyDropped, PlaceIsSaved
<1> QED
  BY <1>1, OnlyFramesMiss, PTL

\* and a sweep has all it must keep (marks.ts 1-18).
THEOREM SweepsWhole == ASSUME FramesKept PROVE Spec => []SweepsOnWholeMark
<1>1. MissesOnlyDropped => SweepsOnWholeMark
  BY NothingDropped DEF MissesOnlyDropped, SweepsOnWholeMark
<1> QED
  BY <1>1, OnlyFramesMiss, PTL
===============================================================================
