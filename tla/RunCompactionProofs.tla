-------------------------- MODULE RunCompactionProofs --------------------------
(***************************************************************************)
(* Proofs about RunCompaction, for any keys, uploads, runners, tiers and   *)
(* numbers of lost, repeated and late jobs: its types, and that it         *)
(* implements Uploads.                                                     *)
(***************************************************************************)
EXTENDS RunCompaction, FiniteSetTheorems, TLAPS

-----------------------------------------------------------------------------
(* The inductive invariant.                                                *)

SplitRow == [inputs : SUBSET Seqs, tier : Nat, done : SUBSET Keys]

\* A message of the compaction numbered s.
Concerns(m, s) == m = CompactJob(s) \/ \E k \in Keys : m = PieceJob(s, k)

\* The messages that wait, and those a runner would put back.
Held == jobs \cup {runner[r].job : r \in Runners}

\* A number is in use only after it was taken from the session.
NumbersDrawn ==
    /\ DOMAIN object \subseteq 1 .. session.runs /\ DOMAIN split \subseteq 1 .. session.runs
    /\ \A t \in Rows : row[t].into <= session.runs
    /\ \A r \in Runners : runner[r].seq <= session.runs
    /\ \A m \in Held, s \in Seqs : Concerns(m, s) => s <= session.runs

\* From taking a number to the upload's row, or to the compaction's message.
Owns(r, s) == runner[r].pc \in {"record", "claim", "queue", "release"} /\ runner[r].seq = s

\* Until then nobody else works under the number, and nothing is stored under it.
OwnersAlone ==
    \A r \in Runners, s \in Seqs : Owns(r, s) =>
        /\ \A q \in Runners \ {r} : ~Owns(q, s)
        /\ \A m \in Held : ~Concerns(m, s)
        /\ s \notin DOMAIN object /\ s \notin DOMAIN split
        /\ runner[r].pc \in {"record", "claim"} => Inputs(s) = {}

\* The inputs a compaction works on: those its job listed, or those it planned its pieces for.
Works(s, L) ==
    \/ \E r \in Runners : runner[r].pc \in {"merge", "plan"} /\ runner[r].seq = s /\ runner[r].list = L
    \/ s \in DOMAIN split /\ split[s].inputs = L

\* They are the runs that are claimed, as long as any are, and what is written is the merge of them.
Agrees(s, L) ==
    /\ L \subseteq DOMAIN object
    /\ IF Inputs(s) = {} THEN s \in DOMAIN object ELSE Inputs(s) = L
    /\ s \in DOMAIN object => object[s] = Merged(L)

WorksAgree == \A s \in Seqs, L \in SUBSET Seqs : Works(s, L) => Agrees(s, L)

\* A merged run whose inputs are still there holds what they hold.
InputsCovered == \A s \in DOMAIN object : Inputs(s) # {} => object[s] = Merged(Inputs(s))

\* No object, of a run that is there or that was, has a later entry than the runs that are there.
ContentHolds == \A s \in DOMAIN object, k \in Keys : object[s][k] <= Merged(Rows)[k]

\* What a job knows of its compaction, and a commit of its runs.
RunnersTrue ==
    \A r \in Runners :
        LET x == runner[r] IN
        /\ x.pc # "idle" => x.job # NoJob
        /\ x.pc \in {"tier", "after"} => x.job # CommitJob
        /\ x.pc \in {"record", "claim", "queue", "release"} => x.seq # NoRun
        /\ x.pc \in {"merge", "plan", "slice", "sliced", "finish", "swap"} =>
              x.seq # NoRun /\ Concerns(x.job, x.seq)
        /\ x.pc \in {"slice", "sliced"} => x.seq \in DOMAIN split
        /\ x.pc = "slice" => \E k \in Keys : x.job = PieceJob(x.seq, k)
        /\ x.pc \in {"finish", "swap"} => x.seq \in DOMAIN object
        /\ x.pc = "commit" => x.list \subseteq DOMAIN object
        /\ x.pc \in {"number", "claim", "queue"} /\ x.job = CommitJob => Cardinality(x.list) <= x.count + 1

\* A run is not claimed into itself: its number was taken after those of the runs it merges were
\* written.
NoneIntoItself == \A s \in Rows : row[s].into # s

PiecesPlanned == \A s \in Seqs, k \in Keys : PieceJob(s, k) \in Held => s \in DOMAIN split

RunInv ==
    /\ TypeOK /\ (\A s \in DOMAIN split : split[s] \in SplitRow)
    /\ NumbersDrawn /\ OwnersAlone /\ WorksAgree /\ InputsCovered /\ ContentHolds /\ RunnersTrue
    /\ NoneIntoItself /\ PiecesPlanned

-----------------------------------------------------------------------------
(* Greatest elements, and merges.                                          *)

\* A finite, nonempty set of numbers has a greatest: one of the fewest elements that had none
\* would have none less, and that one has.
LEMMA MaxOfFinite ==
    ASSUME NEW S, S \subseteq Nat, S # {}, IsFiniteSet(S)
    PROVE  Max(S) \in S /\ \A y \in S : y <= Max(S)
<1> DEFINE Topped(T) == \E x \in T : \A y \in T : y <= x
<1> DEFINE Bad(n) == \E T : T \subseteq Nat /\ T # {} /\ IsFiniteSet(T) /\ Cardinality(T) = n /\ ~Topped(T)
<1> DEFINE B == {n \in Nat : Bad(n)}
<1>1. B = {}
  <2> SUFFICES ASSUME B # {} PROVE FALSE
    OBVIOUS
  <2>1. PICK n \in B : \A m \in B : ~(<<m, n>> \in OpToRel(<, Nat))
    <3> HIDE DEF B
    <3>1. B \subseteq Nat
      BY DEF B
    <3> QED
      BY <3>1, NatLessThanWellFounded, WFMin
  <2>2. \A m \in B : ~(m < n)
    BY <2>1 DEF OpToRel
  <2>3. PICK T : T \subseteq Nat /\ T # {} /\ IsFiniteSet(T) /\ Cardinality(T) = n /\ ~Topped(T)
    OBVIOUS
  <2>4. PICK x \in T : TRUE
    BY <2>3
  <2> DEFINE U == T \ {x}
  <2>5. IsFiniteSet(U) /\ Cardinality(U) = n - 1 /\ U \subseteq Nat /\ n \in Nat /\ n - 1 \in Nat
    <3>1. IsFiniteSet(U) /\ Cardinality(U) = n - 1 /\ n \in Nat
      BY <2>3, <2>4, FS_RemoveElement
    <3>2. Cardinality(U) \in Nat
      BY <3>1, FS_CardinalityType
    <3> QED
      BY <2>3, <3>1, <3>2
  <2>6. CASE U = {}
    <3>1. T = {x}
      BY <2>4, <2>6
    <3> QED
      BY <2>3, <2>4, <3>1
  <2>7. CASE U # {}
    <3>1. n - 1 \notin B
      BY <2>2, <2>5
    <3>2. Topped(U)
      BY <2>5, <2>7, <3>1
    <3>3. PICK z \in U : \A y \in U : y <= z
      BY <3>2
    <3>4. x \in Nat /\ z \in Nat /\ z \in T
      BY <2>3, <2>4, <3>3
    <3>5. CASE z <= x
      <4>1. \A y \in T : y = x \/ y \in U
        OBVIOUS
      <4>2. \A y \in T : y <= x
        BY <2>3, <3>3, <3>4, <3>5, <4>1
      <4> QED
        BY <2>3, <2>4, <4>2
    <3>6. CASE x <= z
      <4>1. \A y \in T : y <= z
        BY <2>3, <3>3, <3>4, <3>6
      <4> QED
        BY <2>3, <3>4, <4>1
    <3> QED
      BY <3>4, <3>5, <3>6
  <2> QED
    BY <2>6, <2>7
<1>2. Topped(S)
  <2>1. Cardinality(S) \in Nat
    BY FS_CardinalityType
  <2> QED
    BY <1>1, <2>1
<1>3. \E x \in S : \A y \in S : x >= y
  BY <1>2
<1> QED
  BY <1>3 DEF Max

LEMMA MaxOfBounded ==
    ASSUME NEW n \in Nat, NEW S, S \subseteq 0 .. n, S # {}
    PROVE  Max(S) \in S /\ Max(S) \in 0 .. n /\ \A y \in S : y <= Max(S)
<1>1. IsFiniteSet(S) /\ S \subseteq Nat
  <2>1. IsFiniteSet(0 .. n)
    BY FS_Interval
  <2>2. IsFiniteSet(S)
    BY <2>1, FS_Subset, Zenon
  <2> QED
    BY <2>2
<1> QED
  BY <1>1, MaxOfFinite

\* Merged, of any objects.
MergeOf(f, S) == [k \in Keys |-> Max({0} \cup {f[s][k] : s \in S})]

Entered(f, S) == \A s \in S : f[s] \in [Keys -> 0 .. MaxSeq]

LEMMA MergeOfHas ==
    ASSUME NEW f, NEW S, Entered(f, S)
    PROVE  /\ MergeOf(f, S) \in [Keys -> 0 .. MaxSeq]
           /\ \A k \in Keys :
                 /\ \A s \in S : f[s][k] <= MergeOf(f, S)[k]
                 /\ MergeOf(f, S)[k] = 0 \/ \E s \in S : f[s][k] = MergeOf(f, S)[k]
<1>1. MaxSeq \in Nat
  BY CompactionConstants
<1> SUFFICES ASSUME NEW k \in Keys
             PROVE  /\ MergeOf(f, S)[k] \in 0 .. MaxSeq
                    /\ \A s \in S : f[s][k] <= MergeOf(f, S)[k]
                    /\ MergeOf(f, S)[k] = 0 \/ \E s \in S : f[s][k] = MergeOf(f, S)[k]
  BY DEF MergeOf
<1> DEFINE V == {0} \cup {f[s][k] : s \in S}
<1>2. V \subseteq 0 .. MaxSeq /\ V # {}
  BY <1>1 DEF Entered
<1>3. Max(V) \in V /\ Max(V) \in 0 .. MaxSeq /\ \A y \in V : y <= Max(V)
  <2> HIDE DEF V
  <2> QED
    BY <1>1, <1>2, MaxOfBounded
<1>4. MergeOf(f, S)[k] = Max(V)
  BY DEF MergeOf
<1> QED
  BY <1>3, <1>4

\* It is the one function that bounds the objects' entries and has no others.
LEMMA MergeOfIs ==
    ASSUME NEW f, NEW S, Entered(f, S), NEW g \in [Keys -> 0 .. MaxSeq],
           \A k \in Keys : /\ \A s \in S : f[s][k] <= g[k]
                           /\ g[k] = 0 \/ \E s \in S : f[s][k] = g[k]
    PROVE  MergeOf(f, S) = g
<1> DEFINE h == MergeOf(f, S)
<1>1. /\ h \in [Keys -> 0 .. MaxSeq]
      /\ \A k \in Keys : /\ \A s \in S : f[s][k] <= h[k]
                         /\ h[k] = 0 \/ \E s \in S : f[s][k] = h[k]
  BY MergeOfHas
<1> HIDE DEF h
<1>2. \A k \in Keys : h[k] = g[k]
  <2> SUFFICES ASSUME NEW k \in Keys PROVE h[k] = g[k]
    OBVIOUS
  <2>1. h[k] \in Nat /\ g[k] \in Nat
    BY <1>1
  <2>2. h[k] <= g[k]
    BY <1>1, <2>1
  <2>3. g[k] <= h[k]
    BY <1>1, <2>1
  <2> QED
    BY <2>1, <2>2, <2>3
<1> QED
  BY <1>1, <1>2 DEF h

-----------------------------------------------------------------------------
(* Messages and records.                                                   *)

LEMMA MessageNumbers ==
    ASSUME NEW s, NEW t
    PROVE  /\ ~Concerns(CommitJob, s) /\ ~Concerns(UploadJob, s) /\ ~Concerns(NoJob, s)
           /\ Concerns(CompactJob(t), s) => s = t
           /\ \A k : Concerns(PieceJob(t, k), s) => s = t
           /\ Concerns(CompactJob(t), t) /\ \A k \in Keys : Concerns(PieceJob(t, k), t)
<1>1. ~Concerns(CommitJob, s)
  BY DEF Concerns, CommitJob, CompactJob, PieceJob
<1>2. ~Concerns(UploadJob, s)
  BY DEF Concerns, UploadJob, CompactJob, PieceJob
<1>3. ~Concerns(NoJob, s)
  BY DEF Concerns, NoJob, CompactJob, PieceJob
<1>4. Concerns(CompactJob(t), s) => s = t
  BY DEF Concerns, CompactJob, PieceJob
<1>5. \A k : Concerns(PieceJob(t, k), s) => s = t
  BY DEF Concerns, CompactJob, PieceJob
<1> QED
  BY <1>1, <1>2, <1>3, <1>4, <1>5 DEF Concerns

LEMMA IdleTyped == Idle \in RunnerState
  BY DEF Idle, RunnerState, Pcs, NoRun

\* The records of the steps: of one runner, the rest as it is.
Turns(r, x) == x \in RunnerState /\ runner' = [runner EXCEPT ![r] = x]

Kept == UNCHANGED <<row, object, split>> /\ session'.runs = session.runs

\* A runner that from now on owns no number and works at no compaction, or goes on to its swap.
Rests(r, x) ==
    /\ Turns(r, x) /\ Kept /\ jobs' \subseteq Held \cup {CommitJob}
    /\ x.pc \notin {"record", "claim", "queue", "release", "merge", "plan", "slice", "sliced", "finish"}
    /\ x.pc = "swap" => runner[r].pc = "finish" /\ x.seq = runner[r].seq /\ x.job = runner[r].job
    /\ x.seq \in {NoRun, runner[r].seq}
    /\ x.job \in {NoJob, CommitJob, UploadJob} \cup Held /\ (x.pc # "idle" => x.job # NoJob)
    /\ x.pc \in {"tier", "after"} => x.job # CommitJob
    /\ x.pc = "commit" => x.list = Rows
    /\ x.pc = "number" /\ x.job = CommitJob => Cardinality(x.list) <= x.count + 1

\* Only messages that were there before, or a commit's.
Sends == runner' = runner /\ Kept /\ jobs' \subseteq Held \cup {CommitJob}

Requeues(s) ==
    /\ runner' = runner /\ Kept /\ jobs' = jobs \cup {CompactJob(s)}
    /\ Lost(s) /\ Inputs(s) # {}

\* A new number.
Draws(r, x) ==
    /\ Turns(r, x) /\ UNCHANGED <<row, object, split, jobs>>
    /\ session'.runs = session.runs + 1 /\ session.runs + 1 \in Seqs
    /\ x.seq = session.runs + 1 /\ x.pc \in {"record", "claim"}
    /\ x.job \in {UploadJob} \cup Held /\ x.job # NoJob
    /\ x.pc = "claim" /\ x.job = CommitJob => Cardinality(x.list) <= x.count + 1

\* The owner of a number that is done with it: its message is queued, or its claim undone.
LetsGo(r, x) ==
    /\ Turns(r, x)
    /\ x.pc \in {"group", "idle"} /\ x.seq \in {NoRun, runner[r].seq} /\ x.job \in {NoJob, runner[r].job}
    /\ x.pc # "idle" => x.job # NoJob

Announces(r, x) ==
    /\ LetsGo(r, x) /\ Kept /\ runner[r].pc = "queue" /\ jobs' = jobs \cup {CompactJob(runner[r].seq)}

Releases(r, x) ==
    /\ LetsGo(r, x) /\ runner[r].pc = "release"
    /\ row' = [s \in Rows |-> IF row[s].into = runner[r].seq THEN [row[s] EXCEPT !.into = NoRun] ELSE row[s]]
    /\ UNCHANGED <<session, object, split, jobs>>

Claiming(r, x) ==
    /\ Turns(r, x) /\ runner[r].pc = "claim"
    /\ \E mine \in SUBSET Free :
          row' = [s \in Rows |-> IF s \in mine THEN [row[s] EXCEPT !.into = runner[r].seq] ELSE row[s]]
    /\ x.pc \in {"queue", "release"}
    /\ x.seq = runner[r].seq /\ x.job = runner[r].job /\ x.list = runner[r].list /\ x.count = runner[r].count
    /\ UNCHANGED <<session, object, split, jobs>>

\* A compaction's message is taken.
Starts(r, x) ==
    /\ Turns(r, x) /\ Kept /\ jobs' \subseteq jobs
    /\ x.seq \in Seqs /\ x.job \in jobs /\ Concerns(x.job, x.seq) /\ Inputs(x.seq) # {}
    /\ \/ x.pc \in {"merge", "plan"} /\ x.list = Inputs(x.seq)
       \/ x.pc \in {"slice", "sliced"} /\ \E k \in Keys : x.job = PieceJob(x.seq, k)

Records(r, x) ==
    /\ Turns(r, x) /\ runner[r].pc = "record" /\ runner[r].seq \in Seqs
    /\ object' = Write(object, runner[r].seq,
                       [k \in Keys |-> IF k \in runner[r].keys THEN runner[r].seq ELSE 0])
    /\ row' = Write(row, runner[r].seq, [tier |-> 0, into |-> NoRun])
    /\ x.pc = "tier" /\ x.seq = NoRun /\ x.job = UploadJob
    /\ UNCHANGED <<session, split, jobs>>

\* A job goes on with its compaction, or leaves it to its pieces.
Builds(r, x) ==
    LET s == runner[r].seq IN
    /\ Turns(r, x) /\ runner[r].pc \in {"merge", "plan", "slice", "sliced"} /\ s \in Seqs
    /\ row' = row /\ session'.runs = session.runs
    /\ DOMAIN split \subseteq DOMAIN split' /\ DOMAIN split' \subseteq DOMAIN split \cup {s}
    /\ \A t \in DOMAIN split : split'[t].inputs = split[t].inputs
    /\ s \in DOMAIN split' \ DOMAIN split => runner[r].pc = "plan" /\ split'[s].inputs = runner[r].list
    /\ jobs' \subseteq jobs \cup {PieceJob(s, k) : k \in Keys} /\ (jobs' # jobs => s \in DOMAIN split')
    /\ \/ object' = object /\ x.pc = "idle" /\ x.seq = NoRun /\ x.job = NoJob
       \/ object' = object /\ x.pc = "sliced" /\ x.seq = s /\ x.job = runner[r].job /\ s \in DOMAIN split'
       \/ /\ \E L \in SUBSET Seqs : Works(s, L) /\ object' = Write(object, s, Merged(L))
          /\ x.pc = "finish" /\ x.seq = s /\ x.job = runner[r].job

Swaps(r, x) ==
    LET s == runner[r].seq
        kept == [t \in Rows \ Inputs(s) |-> row[t]]
    IN
    /\ Turns(r, x) /\ runner[r].pc = "swap" /\ s \in Seqs
    /\ row' = IF s \in Rows THEN kept ELSE Write(kept, s, [tier |-> runner[r].tier, into |-> NoRun])
    /\ x.pc = "after" /\ x.seq = s /\ x.job = runner[r].job
    /\ UNCHANGED <<session, object, split, jobs>>

Kind ==
    \/ UNCHANGED vars \/ Sends \/ \E s \in Seqs : Requeues(s)
    \/ \E r \in Runners, x \in RunnerState :
          \/ Rests(r, x) \/ Draws(r, x) \/ Announces(r, x) \/ Releases(r, x) \/ Claiming(r, x)
          \/ Starts(r, x) \/ Records(r, x) \/ Builds(r, x) \/ Swaps(r, x)

-----------------------------------------------------------------------------
(* Every step is of a kind.                                                *)

\* What the steps of a runner begin with.
LEMMA RunnerHas ==
    ASSUME RunInv, NEW r \in Runners
    PROVE  /\ runner[r] \in RunnerState /\ runner[r].job \in Held /\ jobs \subseteq Held
           /\ (runner[r].pc # "idle" => runner[r].job # NoJob)
           /\ session.runs \in Nat /\ session.runs <= MaxSeq /\ MaxSeq \in Nat
           /\ Rows \subseteq Seqs /\ Free \subseteq Rows
           /\ \A s : Inputs(s) \subseteq Rows
<1>1. runner[r].pc # "idle" => runner[r].job # NoJob
  BY DEF RunInv, RunnersTrue
<1> QED
  BY <1>1, CompactionConstants DEF RunInv, TypeOK, SessionRow, Held, Free, Inputs, Rows

LEMMA FinishRests ==
    ASSUME RunInv, NEW r \in Runners, Finish(r), Kept, jobs' \subseteq Held \cup {CommitJob}
    PROVE  Rests(r, Idle)
  BY IdleTyped DEF Finish, Rests, Turns, Idle

LEMMA GotoRests ==
    ASSUME RunInv, NEW r \in Runners, Kept, jobs' \subseteq Held \cup {CommitJob},
           NEW pc \in {"tier", "group", "list", "phase", "clear", "ready"},
           Goto(r, pc), runner[r].pc # "idle", pc = "tier" => runner[r].job # CommitJob
    PROVE  \E x \in RunnerState : Rests(r, x)
<1> DEFINE x == [runner[r] EXCEPT !.pc = pc]
<1>1. /\ x \in RunnerState /\ x.pc = pc /\ x.seq = runner[r].seq /\ x.job = runner[r].job
  BY RunnerHas DEF RunnerState, Pcs
<1>2. runner' = [runner EXCEPT ![r] = x]
  BY DEF Goto
<1> HIDE DEF x
<1>3. Turns(r, x)
  BY <1>1, <1>2 DEF Turns
<1>4. Rests(r, x)
  BY <1>1, <1>3, RunnerHas DEF Rests
<1> QED
  BY <1>1, <1>4

\* A request or a job that is done, or a commit's next group.
LEMMA GoOnRests ==
    ASSUME RunInv, NEW r \in Runners, GoOn(r), Kept, jobs' \subseteq Held \cup {CommitJob},
           runner[r].pc # "idle"
    PROVE  \E x \in RunnerState : Rests(r, x)
  BY FinishRests, GotoRests, IdleTyped DEF GoOn

\* Runs are few, and so are sets of them.
LEMMA SeqsFinite ==
    ASSUME NEW S, S \subseteq Seqs PROVE IsFiniteSet(S) /\ Cardinality(S) \in Nat
<1>1. IsFiniteSet(Seqs)
  BY CompactionConstants, FS_Interval DEF Seqs
<1>2. IsFiniteSet(S)
  BY <1>1, FS_Subset
<1> QED
  BY <1>2, FS_CardinalityType

LEMMA PickTierKind ==
    ASSUME RunInv, NEW r \in Runners, PickTier(r) PROVE \E x \in RunnerState : Rests(r, x)
<1>1. Kept /\ jobs' = jobs /\ runner[r].pc = "tier" /\ runner[r].job # CommitJob
  BY DEF PickTier, Kept, RunInv, RunnersTrue
<1>2. CASE Finish(r)
  BY <1>1, <1>2, FinishRests, IdleTyped, RunnerHas
<1>3. CASE runner' = [runner EXCEPT ![r].pc = "number", ![r].list = FullTier(r)]
  <2> DEFINE x == [runner[r] EXCEPT !.pc = "number", !.list = FullTier(r)]
  <2>1. FullTier(r) \in SUBSET Seqs
    BY RunnerHas DEF FullTier, Oldest
  <2>2. x \in RunnerState /\ x.pc = "number" /\ x.seq = runner[r].seq /\ x.job = runner[r].job
    BY <2>1, RunnerHas DEF RunnerState, Pcs
  <2>3. runner' = [runner EXCEPT ![r] = x]
    BY <1>3
  <2> HIDE DEF x
  <2>4. Rests(r, x)
    BY <1>1, <2>2, <2>3, RunnerHas DEF Rests, Turns
  <2> QED
    BY <2>2, <2>4
<1> QED
  BY <1>2, <1>3 DEF PickTier

LEMMA TakeNumberKind ==
    ASSUME RunInv, NEW r \in Runners, TakeNumber(r)
    PROVE  \E x \in RunnerState : Rests(r, x) \/ Draws(r, x)
<1>1. UNCHANGED <<row, object, split, jobs>> /\ runner[r].pc = "number"
  BY DEF TakeNumber
<1>2. CASE GoOn(r) /\ UNCHANGED session
  BY <1>1, <1>2, GoOnRests, RunnerHas DEF Kept
<1>3. CASE /\ session.runs < MaxSeq
           /\ session' = [session EXCEPT !.runs = session.runs + 1]
           /\ runner' = [runner EXCEPT ![r].pc = "claim", ![r].seq = session.runs + 1]
  <2> DEFINE x == [runner[r] EXCEPT !.pc = "claim", !.seq = session.runs + 1]
  <2>1. session.runs + 1 \in Seqs /\ session'.runs = session.runs + 1
    BY <1>3, RunnerHas DEF Seqs, RunInv, TypeOK, SessionRow
  <2>2. /\ x \in RunnerState /\ x.pc = "claim" /\ x.seq = session.runs + 1 /\ x.job = runner[r].job
        /\ x.list = runner[r].list /\ x.count = runner[r].count
    BY <2>1, RunnerHas DEF RunnerState, Pcs
  <2>3. runner' = [runner EXCEPT ![r] = x]
    BY <1>3
  <2> HIDE DEF x
  <2>4. x.job \in Held /\ x.job # NoJob
    BY <1>1, <2>2, RunnerHas
  <2>5. x.job = CommitJob => Cardinality(x.list) <= x.count + 1
    BY <1>1, <2>2 DEF RunInv, RunnersTrue
  <2>6. Draws(r, x)
    BY <1>1, <2>1, <2>2, <2>3, <2>4, <2>5 DEF Draws, Turns
  <2> QED
    BY <2>2, <2>6
<1> QED
  BY <1>2, <1>3 DEF TakeNumber

LEMMA BeginUploadKind ==
    ASSUME RunInv, NEW r \in Runners, BeginUpload(r) PROVE \E x \in RunnerState : Draws(r, x)
<1> DEFINE x == [Idle EXCEPT !.pc = "record", !.job = UploadJob,
                     !.seq = session.runs + 1, !.keys = Batches[session.sent + 1]]
<1>1. session.runs + 1 \in Seqs /\ session'.runs = session.runs + 1
  BY RunnerHas DEF BeginUpload, Seqs, RunInv, TypeOK, SessionRow
<1>2. Batches[session.sent + 1] \in SUBSET Keys
  BY CompactionConstants DEF BeginUpload, RunInv, TypeOK, SessionRow
<1>3. /\ x \in RunnerState /\ x.pc = "record" /\ x.seq = session.runs + 1 /\ x.job = UploadJob
  BY <1>1, <1>2, IdleTyped DEF RunnerState, Pcs
<1>4. runner' = [runner EXCEPT ![r] = x] /\ UNCHANGED <<row, object, split, jobs>>
  BY DEF BeginUpload
<1> HIDE DEF x
<1>5. UploadJob # NoJob
  BY DEF UploadJob, NoJob
<1>6. Draws(r, x)
  BY <1>1, <1>3, <1>4, <1>5 DEF Draws, Turns
<1> QED
  BY <1>3, <1>6

LEMMA QueueKind ==
    ASSUME RunInv, NEW r \in Runners, QueueCompaction(r) PROVE \E x \in RunnerState : Announces(r, x)
<1>1. Kept /\ jobs' = jobs \cup {CompactJob(runner[r].seq)} /\ runner[r].pc = "queue"
  BY DEF QueueCompaction, Kept
<1>2. CASE Finish(r)
  <2>1. Idle \in RunnerState /\ Idle.pc = "idle" /\ Idle.seq = NoRun /\ Idle.job = NoJob
    BY IdleTyped DEF Idle
  <2> QED
    BY <1>1, <1>2, <2>1 DEF Finish, Announces, LetsGo, Turns
<1>3. CASE /\ runner[r].job = CommitJob
           /\ runner' = [runner EXCEPT ![r].pc = "group",
                           ![r].count = runner[r].count - (Cardinality(runner[r].list) - 1)]
  <2> DEFINE n == runner[r].count - (Cardinality(runner[r].list) - 1)
             x == [runner[r] EXCEPT !.pc = "group", !.count = n]
  <2>1. n \in Nat
    <3>1. Cardinality(runner[r].list) <= runner[r].count + 1
      BY <1>1, <1>3 DEF RunInv, RunnersTrue
    <3>2. runner[r].count \in Nat /\ runner[r].list \subseteq Seqs
      BY RunnerHas DEF RunnerState
    <3>3. Cardinality(runner[r].list) \in Nat
      BY <3>2, SeqsFinite
    <3> QED
      BY <3>1, <3>2, <3>3
  <2>2. runner' = [runner EXCEPT ![r] = x]
    BY <1>3
  <2> HIDE DEF n
  <2>3. /\ x \in RunnerState /\ x.pc = "group" /\ x.seq = runner[r].seq /\ x.job = runner[r].job
    BY <2>1, RunnerHas DEF RunnerState, Pcs
  <2>4. x.job # NoJob
    BY <1>1, <2>3, RunnerHas
  <2> HIDE DEF x
  <2> QED
    BY <1>1, <2>2, <2>3, <2>4 DEF Announces, LetsGo, Turns
<1> QED
  BY <1>2, <1>3 DEF QueueCompaction

LEMMA ClaimKind ==
    ASSUME RunInv, NEW r \in Runners, Claim(r) PROVE \E x \in RunnerState : Claiming(r, x)
<1> DEFINE mine == runner[r].list \cap Free
           pc == IF mine = runner[r].list THEN "queue" ELSE "release"
           x == [runner[r] EXCEPT !.pc = pc]
<1>1. /\ x \in RunnerState /\ x.pc \in {"queue", "release"} /\ x.seq = runner[r].seq /\ x.job = runner[r].job
      /\ x.list = runner[r].list /\ x.count = runner[r].count
  BY RunnerHas DEF RunnerState, Pcs
<1>2. runner' = [runner EXCEPT ![r] = x] /\ runner[r].pc = "claim"
      /\ UNCHANGED <<session, object, split, jobs>>
  BY DEF Claim, Goto
<1>3. row' = [s \in Rows |-> IF s \in mine THEN [row[s] EXCEPT !.into = runner[r].seq] ELSE row[s]]
  BY DEF Claim
<1>4. mine \in SUBSET Free
  OBVIOUS
<1> HIDE DEF mine, x
<1>5. Claiming(r, x)
  BY <1>1, <1>2, <1>3, <1>4 DEF Claiming, Turns
<1> QED
  BY <1>1, <1>5

LEMMA ReleaseKind ==
    ASSUME RunInv, NEW r \in Runners, Release(r) PROVE \E x \in RunnerState : Releases(r, x)
<1>1. /\ row' = [s \in Rows |-> IF row[s].into = runner[r].seq THEN [row[s] EXCEPT !.into = NoRun] ELSE row[s]]
      /\ UNCHANGED <<session, object, split, jobs>> /\ runner[r].pc = "release"
  BY DEF Release
<1>2. CASE Finish(r)
  <2>1. Idle \in RunnerState /\ Idle.pc = "idle" /\ Idle.seq = NoRun /\ Idle.job = NoJob
    BY IdleTyped DEF Idle
  <2> QED
    BY <1>1, <1>2, <2>1 DEF Finish, Releases, LetsGo, Turns
<1>3. CASE Goto(r, "group")
  <2> DEFINE x == [runner[r] EXCEPT !.pc = "group"]
  <2>1. /\ x \in RunnerState /\ x.pc = "group" /\ x.seq = runner[r].seq /\ x.job = runner[r].job
    BY RunnerHas DEF RunnerState, Pcs
  <2>2. runner' = [runner EXCEPT ![r] = x]
    BY <1>3 DEF Goto
  <2> HIDE DEF x
  <2>3. x.job # NoJob
    BY <1>1, <2>1, RunnerHas
  <2> QED
    BY <1>1, <2>1, <2>2, <2>3 DEF Releases, LetsGo, Turns
<1> QED
  BY <1>2, <1>3 DEF Release, GoOn

LEMMA TierAboveTyped ==
    ASSUME RunInv, NEW S, S \subseteq Rows, S # {} PROVE TierAbove(S) \in Nat
<1> DEFINE T == {row[s].tier : s \in S}
           f == [s \in S |-> row[s].tier]
<1>1. IsFiniteSet(S)
  BY SeqsFinite DEF RunInv, TypeOK
<1>2. f \in Surjection(S, T)
  BY DEF Surjection
<1>3. IsFiniteSet(T)
  <2> HIDE DEF T, f
  <2> QED
    BY <1>1, <1>2, FS_Surjection
<1>4. T \subseteq Nat /\ T # {}
  BY DEF RunInv, TypeOK, RunRow
<1>5. Max(T) \in Nat
  <2> HIDE DEF T
  <2> QED
    BY <1>3, <1>4, MaxOfFinite
<1> QED
  BY <1>5 DEF TierAbove

\* A message that is taken in vain.
LEMMA DeliverIdle ==
    ASSUME RunInv, NEW r \in Runners, NEW m, Deliver(r, m, Idle) PROVE \E x \in RunnerState : Rests(r, x)
<1>1. Finish(r) /\ Kept /\ jobs' \subseteq Held \cup {CommitJob}
  BY DEF Deliver, Finish, Kept, Held
<1> QED
  BY <1>1, FinishRests, IdleTyped

LEMMA StartCompactionKind ==
    ASSUME RunInv, NEW r \in Runners, NEW s \in Seqs, StartCompaction(r, s)
    PROVE  \E x \in RunnerState : Rests(r, x) \/ Starts(r, x)
<1>1. CASE Inputs(s) = {} \/ ~Active
  BY <1>1, DeliverIdle DEF StartCompaction
<1>2. CASE ~(Inputs(s) = {} \/ ~Active)
  <2> DEFINE pc == IF Entries(Inputs(s)) <= PieceSize THEN "merge" ELSE "plan"
             x == [Idle EXCEPT !.pc = pc, !.job = CompactJob(s), !.seq = s, !.list = Inputs(s),
                               !.tier = TierAbove(Inputs(s))]
  <2>1. Deliver(r, CompactJob(s), x)
    BY <1>2 DEF StartCompaction
  <2>2. TierAbove(Inputs(s)) \in Nat /\ Inputs(s) \in SUBSET Seqs /\ CompactJob(s) \in Messages
    <3>1. Inputs(s) \subseteq Rows /\ Rows \subseteq Seqs
      BY RunnerHas
    <3> QED
      BY <1>2, <3>1, TierAboveTyped DEF Messages
  <2>3. pc \in {"merge", "plan"}
    OBVIOUS
  <2> HIDE DEF pc
  <2>4. x \in RunnerState /\ x.pc = pc /\ x.seq = s /\ x.job = CompactJob(s) /\ x.list = Inputs(s)
    BY <2>2, <2>3, IdleTyped DEF RunnerState, Pcs
  <2> HIDE DEF x
  <2>5. /\ runner' = [runner EXCEPT ![r] = x] /\ Kept /\ jobs' \subseteq jobs /\ CompactJob(s) \in jobs
    BY <2>1 DEF Deliver, Kept
  <2>6. Starts(r, x)
    BY <1>2, <2>3, <2>4, <2>5, MessageNumbers DEF Starts, Turns
  <2> QED
    BY <2>4, <2>6
<1> QED
  BY <1>1, <1>2

LEMMA StartPieceKind ==
    ASSUME RunInv, NEW r \in Runners, NEW s \in Seqs, NEW k \in Keys, StartPiece(r, s, k)
    PROVE  \E x \in RunnerState : Rests(r, x) \/ Starts(r, x)
<1>1. CASE Inputs(s) = {} \/ ~Active
  BY <1>1, DeliverIdle DEF StartPiece
<1>2. CASE ~(Inputs(s) = {} \/ ~Active)
  <2> DEFINE pc == IF k \in split[s].done THEN "sliced" ELSE "slice"
             x == [Idle EXCEPT !.pc = pc, !.job = PieceJob(s, k), !.seq = s]
  <2>1. Deliver(r, PieceJob(s, k), x)
    BY <1>2 DEF StartPiece
  <2>2. PieceJob(s, k) \in Messages
    BY DEF Messages
  <2>3. pc \in {"slice", "sliced"}
    OBVIOUS
  <2> HIDE DEF pc
  <2>4. x \in RunnerState /\ x.pc = pc /\ x.seq = s /\ x.job = PieceJob(s, k)
    BY <2>2, <2>3, IdleTyped DEF RunnerState, Pcs
  <2> HIDE DEF x
  <2>5. /\ runner' = [runner EXCEPT ![r] = x] /\ Kept /\ jobs' \subseteq jobs /\ PieceJob(s, k) \in jobs
    BY <2>1 DEF Deliver, Kept
  <2>6. Concerns(x.job, x.seq) /\ x.job \in jobs /\ x.job = PieceJob(x.seq, k)
    <3>1. Concerns(PieceJob(s, k), s)
      BY MessageNumbers
    <3> QED
      BY <2>4, <2>5, <3>1
  <2>7. Turns(r, x) /\ x.seq \in Seqs /\ x.pc \in {"slice", "sliced"} /\ Inputs(x.seq) # {}
    BY <1>2, <2>3, <2>4, <2>5 DEF Turns
  <2>8. Starts(r, x)
    BY <2>5, <2>6, <2>7 DEF Starts
  <2> QED
    BY <2>4, <2>8
<1> QED
  BY <1>1, <1>2

LEMMA StartCommitKind ==
    ASSUME RunInv, NEW r \in Runners, StartCommit(r) PROVE \E x \in RunnerState : Rests(r, x)
<1>1. CASE session.status # "committing"
  BY <1>1, DeliverIdle DEF StartCommit
<1>2. CASE session.status = "committing"
  <2> DEFINE x == [Idle EXCEPT !.pc = "list", !.job = CommitJob, !.phase = session.phase]
  <2>1. Deliver(r, CommitJob, x)
    BY <1>2 DEF StartCommit
  <2>2. x \in RunnerState /\ x.pc = "list" /\ x.seq = NoRun /\ x.job = CommitJob
    <3>1. Idle.seq = NoRun /\ CommitJob \in Messages
      BY DEF Idle, Messages
    <3>2. session.phase \in {"none", "compacting"}
      BY DEF RunInv, TypeOK, SessionRow
    <3> QED
      BY <3>1, <3>2, IdleTyped DEF RunnerState, Pcs
  <2> HIDE DEF x
  <2>3. /\ runner' = [runner EXCEPT ![r] = x] /\ Kept /\ jobs' \subseteq Held
    BY <2>1 DEF Deliver, Kept, Held
  <2>4. CommitJob # NoJob
    BY DEF CommitJob, NoJob
  <2>5. Rests(r, x)
    BY <2>2, <2>3, <2>4 DEF Rests, Turns
  <2> QED
    BY <2>2, <2>5
<1> QED
  BY <1>1, <1>2

LEMMA FindInputsKind ==
    ASSUME RunInv, NEW r \in Runners, FindInputs(r) PROVE \E x \in RunnerState : Rests(r, x)
<1>1. Kept /\ jobs' \subseteq Held /\ runner[r].pc = "finish"
  BY DEF FindInputs, Kept, Held
<1>2. CASE Finish(r)
  BY <1>1, <1>2, FinishRests, IdleTyped
<1>3. CASE Goto(r, "swap")
  <2> DEFINE x == [runner[r] EXCEPT !.pc = "swap"]
  <2>1. /\ x \in RunnerState /\ x.pc = "swap" /\ x.seq = runner[r].seq /\ x.job = runner[r].job
    BY RunnerHas DEF RunnerState, Pcs
  <2>2. runner' = [runner EXCEPT ![r] = x]
    BY <1>3 DEF Goto
  <2> HIDE DEF x
  <2>3. Rests(r, x)
    BY <1>1, <2>1, <2>2, RunnerHas DEF Rests, Turns
  <2> QED
    BY <2>1, <2>3
<1> QED
  BY <1>2, <1>3 DEF FindInputs

LEMMA AfterSwapKind ==
    ASSUME RunInv, NEW r \in Runners, AfterSwap(r) PROVE \E x \in RunnerState : Rests(r, x)
<1>1. runner[r].pc = "after" /\ runner[r].job # CommitJob
  BY DEF AfterSwap, RunInv, RunnersTrue
<1>2. Kept /\ jobs' \subseteq Held \cup {CommitJob}
  <2>1. session'.runs = session.runs
    BY DEF AfterSwap, Touched, RunInv, TypeOK, SessionRow
  <2> QED
    BY <2>1 DEF AfterSwap, Kept, Held
<1>3. CASE Finish(r)
  BY <1>2, <1>3, FinishRests, IdleTyped
<1>4. CASE Goto(r, "tier")
  BY <1>1, <1>2, <1>4, GotoRests
<1> QED
  BY <1>3, <1>4 DEF AfterSwap

\* What a runner at a compaction knows.
LEMMA BuilderHas ==
    ASSUME RunInv, NEW r \in Runners,
           runner[r].pc \in {"merge", "plan", "slice", "sliced", "finish", "swap"}
    PROVE  runner[r].seq \in Seqs /\ Concerns(runner[r].job, runner[r].seq)
  BY RunnerHas DEF RunInv, RunnersTrue, RunnerState

\* The written object's record, when a job joins its pieces or merges at once.
LEMMA JoinBuilds ==
    ASSUME RunInv, NEW r \in Runners, NEW L \in SUBSET Seqs, Works(runner[r].seq, L),
           runner[r].pc \in {"merge", "plan", "slice", "sliced"},
           object' = Write(object, runner[r].seq, Merged(L)),
           NEW t \in Nat,
           runner' = [runner EXCEPT ![r].pc = "finish", ![r].list = {}, ![r].tier = t]
                \/ runner' = [runner EXCEPT ![r].pc = "finish", ![r].list = {}],
           row' = row, session'.runs = session.runs, jobs' = jobs,
           DOMAIN split \subseteq DOMAIN split', DOMAIN split' \subseteq DOMAIN split \cup {runner[r].seq},
           \A u \in DOMAIN split : split'[u].inputs = split[u].inputs,
           runner[r].seq \in DOMAIN split' \ DOMAIN split =>
                runner[r].pc = "plan" /\ split'[runner[r].seq].inputs = runner[r].list
    PROVE  \E x \in RunnerState : Builds(r, x)
<1>1. PICK x \in RunnerState : /\ runner' = [runner EXCEPT ![r] = x]
                               /\ x.pc = "finish" /\ x.seq = runner[r].seq /\ x.job = runner[r].job
  <2>1. CASE runner' = [runner EXCEPT ![r].pc = "finish", ![r].list = {}, ![r].tier = t]
    <3> DEFINE y == [runner[r] EXCEPT !.pc = "finish", !.list = {}, !.tier = t]
    <3>1. y \in RunnerState /\ y.pc = "finish" /\ y.seq = runner[r].seq /\ y.job = runner[r].job
      <4>1. runner[r] \in RunnerState /\ {} \in SUBSET Seqs /\ t \in Nat
        BY RunnerHas
      <4> QED
        BY <4>1 DEF RunnerState, Pcs
    <3> QED
      BY <2>1, <3>1
  <2>2. CASE runner' = [runner EXCEPT ![r].pc = "finish", ![r].list = {}]
    <3> DEFINE y == [runner[r] EXCEPT !.pc = "finish", !.list = {}]
    <3>1. y \in RunnerState /\ y.pc = "finish" /\ y.seq = runner[r].seq /\ y.job = runner[r].job
      <4>1. runner[r] \in RunnerState /\ {} \in SUBSET Seqs
        BY RunnerHas
      <4> QED
        BY <4>1 DEF RunnerState, Pcs
    <3> QED
      BY <2>2, <3>1
  <2> QED
    BY <2>1, <2>2
<1>2. runner[r].seq \in Seqs
  BY BuilderHas
<1>3. Builds(r, x)
  BY <1>1, <1>2 DEF Builds, Turns
<1> QED
  BY <1>3

LEMMA MergeKind ==
    ASSUME RunInv, NEW r \in Runners, Merge(r) PROVE \E x \in RunnerState : Builds(r, x)
<1>1. /\ runner[r].pc = "merge" /\ object' = Write(object, runner[r].seq, Merged(runner[r].list))
      /\ runner' = [runner EXCEPT ![r].pc = "finish", ![r].list = {}]
      /\ row' = row /\ split' = split /\ session' = session /\ jobs' = jobs
  BY DEF Merge
<1>2. runner[r].list \in SUBSET Seqs /\ Works(runner[r].seq, runner[r].list)
  BY <1>1, RunnerHas DEF Works, RunnerState
<1>3. 0 \in Nat
  OBVIOUS
<1> QED
  BY <1>1, <1>2, <1>3, JoinBuilds

LEMMA SlicedKind ==
    ASSUME RunInv, NEW r \in Runners, Sliced(r) PROVE \E x \in RunnerState : Rests(r, x) \/ Builds(r, x)
<1>1. /\ runner[r].pc = "sliced" /\ row' = row /\ split' = split /\ session' = session /\ jobs' = jobs
  BY DEF Sliced
<1>2. CASE Finish(r) /\ UNCHANGED object
  BY <1>1, <1>2, FinishRests, IdleTyped, RunnerHas DEF Kept
<1>3. CASE Join(r, split[runner[r].seq].inputs)
  <2>1. runner[r].seq \in DOMAIN split /\ split[runner[r].seq] \in SplitRow
    BY <1>1 DEF RunInv, RunnersTrue
  <2>2. Works(runner[r].seq, split[runner[r].seq].inputs) /\ split[runner[r].seq].inputs \in SUBSET Seqs
        /\ split[runner[r].seq].tier \in Nat
    BY <2>1 DEF Works, SplitRow
  <2> QED
    BY <1>1, <1>3, <2>2, JoinBuilds DEF Join
<1> QED
  BY <1>2, <1>3 DEF Sliced

LEMMA SliceKind ==
    ASSUME RunInv, NEW r \in Runners, Slice(r) PROVE \E x \in RunnerState : Builds(r, x)
<1> DEFINE x == [runner[r] EXCEPT !.pc = "sliced"]
           s == runner[r].seq
<1>1. /\ runner[r].pc = "slice" /\ row' = row /\ object' = object /\ jobs' = jobs
      /\ session'.runs = session.runs /\ runner' = [runner EXCEPT ![r] = x]
  BY DEF Slice, Goto, Touched, RunInv, TypeOK, SessionRow
<1>2. x \in RunnerState /\ x.pc = "sliced" /\ x.seq = runner[r].seq /\ x.job = runner[r].job
  BY RunnerHas DEF RunnerState, Pcs
<1> HIDE DEF x
<1>3. s \in Seqs /\ s \in DOMAIN split
  BY <1>1, BuilderHas DEF RunInv, RunnersTrue
<1>4. DOMAIN split' = DOMAIN split /\ \A t \in DOMAIN split : split'[t].inputs = split[t].inputs
  <2>1. \A t \in DOMAIN split : split[t] \in SplitRow
    BY DEF RunInv
  <2> QED
    BY <2>1 DEF Slice, SplitRow
<1>5. Builds(r, x)
  BY <1>1, <1>2, <1>3, <1>4 DEF Builds, Turns
<1> QED
  BY <1>2, <1>5

LEMMA PlanKind ==
    ASSUME RunInv, NEW r \in Runners, Plan(r) PROVE \E x \in RunnerState : Builds(r, x)
<1> DEFINE s == runner[r].seq
           plan == IF s \in DOMAIN split THEN split[s]
                   ELSE [inputs |-> runner[r].list, tier |-> runner[r].tier, done |-> {}]
<1>1. /\ runner[r].pc = "plan" /\ row' = row /\ session' = session /\ split' = Write(split, s, plan)
      /\ \/ Join(r, plan.inputs) /\ UNCHANGED jobs
         \/ /\ jobs' = jobs \cup {PieceJob(s, k) : k \in Keys \ plan.done}
            /\ Finish(r) /\ UNCHANGED object
  BY DEF Plan
<1>2. s \in Seqs
  BY <1>1, BuilderHas
<1>3. plan \in SplitRow
  BY RunnerHas DEF SplitRow, RunInv, RunnerState
<1>4. /\ DOMAIN split \subseteq DOMAIN split' /\ DOMAIN split' \subseteq DOMAIN split \cup {s}
      /\ s \in DOMAIN split' /\ split'[s] = plan
      /\ \A t \in DOMAIN split : split'[t] = split[t]
  BY <1>1 DEF Write
<1>5. s \notin DOMAIN split => plan.inputs = runner[r].list
  OBVIOUS
<1>6. Works(s, plan.inputs)
  BY <1>1 DEF Works
<1> HIDE DEF plan
<1>7. CASE Join(r, plan.inputs) /\ UNCHANGED jobs
  <2>1. plan.inputs \in SUBSET Seqs /\ plan.tier \in Nat
    BY <1>3 DEF SplitRow
  <2>2. \A u \in DOMAIN split : split'[u].inputs = split[u].inputs
    BY <1>4
  <2>3. s \in DOMAIN split' \ DOMAIN split => runner[r].pc = "plan" /\ split'[s].inputs = runner[r].list
    BY <1>1, <1>4, <1>5
  <2> QED
    BY <1>1, <1>4, <1>6, <1>7, <2>1, <2>2, <2>3, JoinBuilds DEF Join
<1>8. CASE /\ jobs' = jobs \cup {PieceJob(s, k) : k \in Keys \ plan.done}
           /\ Finish(r) /\ UNCHANGED object
  <2>1. Idle \in RunnerState /\ Idle.pc = "idle" /\ Idle.seq = NoRun /\ Idle.job = NoJob
    BY IdleTyped DEF Idle
  <2>2. runner' = [runner EXCEPT ![r] = Idle]
    BY <1>8 DEF Finish
  <2>3. Builds(r, Idle)
    BY <1>1, <1>2, <1>4, <1>5, <1>8, <2>1, <2>2 DEF Builds, Turns
  <2> QED
    BY <2>1, <2>3
<1> QED
  BY <1>1, <1>7, <1>8

LEMMA SwapKind ==
    ASSUME RunInv, NEW r \in Runners, Swap(r) PROVE \E x \in RunnerState : Swaps(r, x)
<1> DEFINE x == [runner[r] EXCEPT !.pc = "after"]
<1>1. x \in RunnerState /\ x.pc = "after" /\ x.seq = runner[r].seq /\ x.job = runner[r].job
  BY RunnerHas DEF RunnerState, Pcs
<1>2. runner' = [runner EXCEPT ![r] = x] /\ runner[r].pc = "swap" /\ UNCHANGED <<session, object, split, jobs>>
  BY DEF Swap, Goto
<1> HIDE DEF x
<1>3. runner[r].seq \in Seqs
  BY <1>2, BuilderHas
<1>4. Swaps(r, x)
  BY <1>1, <1>2, <1>3 DEF Swap, Swaps, Turns
<1> QED
  BY <1>1, <1>4

LEMMA RecordKind ==
    ASSUME RunInv, NEW r \in Runners, RecordRun(r) PROVE \E x \in RunnerState : Records(r, x)
<1> DEFINE x == [Idle EXCEPT !.pc = "tier", !.job = UploadJob]
<1>1. x \in RunnerState /\ x.pc = "tier" /\ x.seq = NoRun /\ x.job = UploadJob
  <2>1. Idle.seq = NoRun
    BY DEF Idle
  <2> QED
    BY <2>1, IdleTyped DEF RunnerState, Pcs
<1>2. runner' = [runner EXCEPT ![r] = x] /\ runner[r].pc = "record" /\ UNCHANGED <<session, split, jobs>>
  BY DEF RecordRun
<1> HIDE DEF x
<1>3. runner[r].seq \in Seqs
  BY <1>2, RunnerHas DEF RunInv, RunnersTrue, RunnerState
<1>4. /\ object' = Write(object, runner[r].seq,
                       [k \in Keys |-> IF k \in runner[r].keys THEN runner[r].seq ELSE 0])
      /\ row' = Write(row, runner[r].seq, [tier |-> 0, into |-> NoRun])
  BY DEF RecordRun
<1>5. Records(r, x)
  BY <1>1, <1>2, <1>3, <1>4 DEF Records, Turns
<1> QED
  BY <1>1, <1>5

LEMMA ListRunsKind ==
    ASSUME RunInv, NEW r \in Runners, ListRuns(r) PROVE \E x \in RunnerState : Rests(r, x)
<1>1. Kept /\ jobs' = jobs /\ runner[r].pc = "list"
  BY DEF ListRuns, Kept
<1>2. ASSUME NEW pc \in {"group", "phase"},
             runner' = [runner EXCEPT ![r].pc = pc, ![r].free = Free,
                            ![r].count = Cardinality(Free) + Cardinality(Claims)]
      PROVE  \E x \in RunnerState : Rests(r, x)
  <2> DEFINE n == Cardinality(Free) + Cardinality(Claims)
             x == [runner[r] EXCEPT !.pc = pc, !.free = Free, !.count = n]
  <2>1. Free \in SUBSET Seqs /\ n \in Nat
    <3>1. Free \subseteq Seqs
      BY RunnerHas
    <3>2. Claims \subseteq Seqs
      BY DEF Claims, RunInv, TypeOK, RunRow
    <3> QED
      BY <3>1, <3>2, SeqsFinite
  <2>2. runner' = [runner EXCEPT ![r] = x]
    BY <1>2
  <2> HIDE DEF n
  <2>3. x \in RunnerState /\ x.pc = pc /\ x.seq = runner[r].seq /\ x.job = runner[r].job
    BY <2>1, RunnerHas DEF RunnerState, Pcs
  <2> HIDE DEF x
  <2>4. Rests(r, x)
    BY <1>1, <2>2, <2>3, RunnerHas DEF Rests, Turns
  <2> QED
    BY <2>3, <2>4
<1>3. ASSUME Goto(r, "ready") \/ Goto(r, "clear") PROVE \E x \in RunnerState : Rests(r, x)
  BY <1>1, <1>3, GotoRests, RunnerHas
<1> QED
  BY <1>2, <1>3 DEF ListRuns

LEMMA CommitJobKnown == CommitJob \in Messages /\ CommitJob # NoJob
  BY DEF CommitJob, Messages, NoJob

LEMMA SetCompactingKind ==
    ASSUME RunInv, NEW r \in Runners, SetCompacting(r) PROVE \E x \in RunnerState : Rests(r, x)
<1> DEFINE x == [Idle EXCEPT !.pc = "list", !.job = CommitJob, !.phase = "compacting"]
<1>1. Kept /\ jobs' = jobs /\ runner' = [runner EXCEPT ![r] = x]
  BY DEF SetCompacting, Kept, RunInv, TypeOK, SessionRow
<1>2. x \in RunnerState /\ x.pc = "list" /\ x.seq = NoRun /\ x.job = CommitJob
  <2>1. Idle.seq = NoRun
    BY DEF Idle
  <2> QED
    BY <2>1, IdleTyped, CommitJobKnown DEF RunnerState, Pcs
<1> HIDE DEF x
<1>3. Rests(r, x)
  BY <1>1, <1>2, RunnerHas, CommitJobKnown DEF Rests, Turns
<1> QED
  BY <1>2, <1>3

LEMMA ReadRunsKind ==
    ASSUME RunInv, NEW r \in Runners, ReadRuns(r) PROVE \E x \in RunnerState : Rests(r, x)
<1> DEFINE x == [Idle EXCEPT !.pc = "commit", !.job = CommitJob, !.list = Rows]
<1>1. Kept /\ jobs' = jobs /\ runner' = [runner EXCEPT ![r] = x]
  BY DEF ReadRuns, Kept, RunInv, TypeOK, SessionRow
<1>2. x \in RunnerState /\ x.pc = "commit" /\ x.seq = NoRun /\ x.job = CommitJob /\ x.list = Rows
  <2>1. Idle.seq = NoRun /\ Rows \in SUBSET Seqs
    BY RunnerHas DEF Idle
  <2> QED
    BY <2>1, IdleTyped, CommitJobKnown DEF RunnerState, Pcs
<1> HIDE DEF x
<1>3. Rests(r, x)
  BY <1>1, <1>2, RunnerHas, CommitJobKnown DEF Rests, Turns
<1> QED
  BY <1>2, <1>3

\* The least of three numbers.
LEMMA MinOfThree ==
    ASSUME NEW a \in Nat, NEW b \in Nat, NEW c \in Nat
    PROVE  Min({a, b, c}) \in Nat /\ Min({a, b, c}) <= a /\ Min({a, b, c}) <= b /\ Min({a, b, c}) <= c
<1> DEFINE S == {a, b, c}
<1>1. \E x \in S : \A y \in S : x <= y
  <2>1. CASE a <= b /\ a <= c
    BY <2>1
  <2>2. CASE b <= a /\ b <= c
    BY <2>2
  <2>3. CASE c <= a /\ c <= b
    BY <2>3
  <2> QED
    BY <2>1, <2>2, <2>3
<1>2. Min(S) \in S /\ \A y \in S : Min(S) <= y
  BY <1>1 DEF Min
<1> QED
  BY <1>2

LEMMA GroupKind ==
    ASSUME RunInv, NEW r \in Runners, Group(r) PROVE \E x \in RunnerState : Rests(r, x)
<1>1. Kept /\ jobs' = jobs /\ runner[r].pc = "group"
  BY DEF Group, Kept
<1>2. CASE Finish(r)
  BY <1>1, <1>2, FinishRests, IdleTyped, RunnerHas
<1>3. CASE ~Finish(r)
  <2> DEFINE free == runner[r].free
             k == Min({FanIn, (runner[r].count + 1) - CommitRuns, Cardinality(free)})
  <2>1. PICK G \in kSubset(k, free) :
           /\ runner[r].count > CommitRuns
           /\ runner' = [runner EXCEPT ![r].pc = "number", ![r].list = G, ![r].free = free \ G]
    BY <1>3 DEF Group
  <2>2. free \in SUBSET Seqs /\ G \in SUBSET Seqs /\ free \ G \in SUBSET Seqs /\ Cardinality(G) = k
    BY RunnerHas DEF RunnerState, kSubset
  <2>3. k <= runner[r].count + 1
    <3>1. runner[r].count \in Nat /\ CommitRuns \in Nat /\ FanIn \in Nat
      BY RunnerHas, CompactionConstants DEF RunnerState
    <3>2. (runner[r].count + 1) - CommitRuns \in Nat /\ Cardinality(free) \in Nat
      BY <2>1, <2>2, <3>1, SeqsFinite
    <3>3. k \in Nat /\ k <= (runner[r].count + 1) - CommitRuns
      BY <3>1, <3>2, MinOfThree
    <3> HIDE DEF k
    <3> QED
      BY <3>1, <3>3
  <2> DEFINE x == [runner[r] EXCEPT !.pc = "number", !.list = G, !.free = free \ G]
  <2>4. runner' = [runner EXCEPT ![r] = x]
    BY <2>1
  <2>5. /\ x \in RunnerState /\ x.pc = "number" /\ x.seq = runner[r].seq /\ x.job = runner[r].job
        /\ x.list = G /\ x.count = runner[r].count
    BY <2>2, RunnerHas DEF RunnerState, Pcs
  <2> HIDE DEF x, k
  <2>6. Cardinality(x.list) <= x.count + 1
    BY <2>2, <2>3, <2>5
  <2>7. Rests(r, x)
    BY <1>1, <2>4, <2>5, <2>6, RunnerHas DEF Rests, Turns
  <2> QED
    BY <2>5, <2>7
<1> QED
  BY <1>2, <1>3

LEMMA SettlingKind ==
    ASSUME RunInv, NEW r \in Runners, ClearPhase(r) \/ Settle(r) \/ Crash(r)
    PROVE  \E x \in RunnerState : Rests(r, x)
<1>1. CASE ClearPhase(r)
  <2>1. Kept /\ jobs' = jobs /\ runner[r].pc = "clear" /\ Goto(r, "ready")
    BY <1>1 DEF ClearPhase, Kept, RunInv, TypeOK, SessionRow
  <2> QED
    BY <2>1, GotoRests, RunnerHas
<1>2. CASE Settle(r)
  <2>1. Kept /\ jobs' = jobs /\ Finish(r)
    BY <1>2 DEF Settle, Kept, RunInv, TypeOK, SessionRow
  <2> QED
    BY <2>1, FinishRests, IdleTyped, RunnerHas
<1>3. CASE Crash(r)
  <2>1. Kept /\ jobs' \subseteq Held /\ Finish(r)
    BY <1>3, RunnerHas DEF Crash, Kept
  <2> QED
    BY <2>1, FinishRests, IdleTyped
<1> QED
  BY <1>1, <1>2, <1>3

LEMMA SendingKind ==
    ASSUME RunInv, BeginCommit \/ Nudge \/ \E r \in Runners : Redeliver(r) PROVE Sends
<1>1. CASE BeginCommit \/ Nudge
  BY <1>1 DEF BeginCommit, Nudge, Sends, Kept, Held, RunInv, TypeOK, SessionRow
<1>2. ASSUME NEW r \in Runners, Redeliver(r) PROVE Sends
  BY <1>2, RunnerHas DEF Redeliver, Sends, Kept
<1> QED
  BY <1>1, <1>2

LEMMA StepKind == ASSUME RunInv, [Next]_vars PROVE Kind
<1>1. CASE UNCHANGED vars
  BY <1>1 DEF Kind
<1>2. CASE BeginCommit \/ Nudge
  BY <1>2, SendingKind DEF Kind
<1>3. ASSUME NEW s \in Seqs, RequeueClaim(s) PROVE Kind
  BY <1>3 DEF RequeueClaim, Requeues, Kept, Kind
<1>4. ASSUME NEW r \in Runners, RunnerStep(r) PROVE Kind
  BY <1>4, RecordKind, PickTierKind, TakeNumberKind, ClaimKind, ReleaseKind, QueueKind, MergeKind, PlanKind,
     SliceKind, SlicedKind, FindInputsKind, SwapKind, AfterSwapKind, ListRunsKind, SetCompactingKind,
     GroupKind, ReadRunsKind, SettlingKind
     DEF RunnerStep, Kind
<1>5. ASSUME NEW r \in Runners, Delivery(r) PROVE Kind
  BY <1>5, StartCommitKind, StartCompactionKind, StartPieceKind DEF Delivery, Kind
<1>6. ASSUME NEW r \in Runners, BeginUpload(r) \/ Crash(r) \/ Redeliver(r) PROVE Kind
  BY <1>6, BeginUploadKind, SettlingKind, SendingKind DEF Kind
<1> QED
  BY <1>1, <1>2, <1>3, <1>4, <1>5, <1>6 DEF Next, Sweep

-----------------------------------------------------------------------------
(* Types.                                                                  *)

LEMMA SessionTyped == ASSUME RunInv, [Next]_vars PROVE session' \in SessionRow
<1>0. MaxSeq \in Nat /\ MaxStalls \in Nat /\ Reopens \in Nat /\ Len(Batches) \in Nat /\ session \in SessionRow
  BY CompactionConstants DEF RunInv, TypeOK
<1>1. ASSUME NEW r \in Runners, BeginUpload(r) PROVE session' \in SessionRow
  <2>1. session.sent + 1 \in 0 .. Len(Batches) /\ session.runs + 1 \in 0 .. MaxSeq
    BY <1>0, <1>1 DEF BeginUpload, SessionRow
  <2> QED
    BY <1>0, <1>1, <2>1 DEF BeginUpload, SessionRow
<1>2. CASE BeginCommit
  <2>1. 0 \in 0 .. MaxStalls
    BY <1>0
  <2> QED
    BY <1>0, <1>2, <2>1 DEF BeginCommit, SessionRow
<1>3. CASE Nudge
  <2>1. CASE session.stalls < MaxStalls /\ session' = [session EXCEPT !.stalls = session.stalls + 1]
    <3>1. session.stalls + 1 \in 0 .. MaxStalls
      BY <1>0, <2>1 DEF SessionRow
    <3> QED
      BY <1>0, <2>1, <3>1 DEF SessionRow
  <2>2. CASE session' = [session EXCEPT !.status = "failed", !.phase = "none"]
    BY <1>0, <2>2 DEF SessionRow
  <2> QED
    BY <1>3, <2>1, <2>2 DEF Nudge
<1>4. ASSUME NEW r \in Runners, TakeNumber(r) PROVE session' \in SessionRow
  <2>1. CASE session.runs < MaxSeq /\ session' = [session EXCEPT !.runs = session.runs + 1]
    <3>1. session.runs + 1 \in 0 .. MaxSeq
      BY <1>0, <2>1 DEF SessionRow
    <3> QED
      BY <1>0, <2>1, <3>1 DEF SessionRow
  <2> QED
    BY <1>0, <1>4, <2>1 DEF TakeNumber
<1>5. ASSUME NEW r \in Runners, Slice(r) \/ AfterSwap(r) PROVE session' \in SessionRow
  <2>1. 0 \in 0 .. MaxStalls
    BY <1>0
  <2>2. Touched \in SessionRow
    BY <1>0, <2>1 DEF Touched, SessionRow
  <2> QED
    BY <1>0, <1>5, <2>2 DEF Slice, AfterSwap
<1>6. ASSUME NEW r \in Runners, SetCompacting(r) \/ ClearPhase(r) PROVE session' \in SessionRow
  <2>1. 0 \in 0 .. MaxStalls
    BY <1>0
  <2>2. /\ [session EXCEPT !.phase = "compacting", !.stalls = 0] \in SessionRow
        /\ [session EXCEPT !.phase = "none", !.stalls = 0] \in SessionRow
    BY <1>0, <2>1 DEF SessionRow
  <2> QED
    BY <1>6, <2>2 DEF SetCompacting, ClearPhase
<1>7. ASSUME NEW r \in Runners, Settle(r) PROVE session' \in SessionRow
  <2>1. CASE session' = [session EXCEPT !.status = "committed", !.phase = "none"]
    BY <1>0, <2>1 DEF SessionRow
  <2>2. CASE /\ session.reopened < Reopens
             /\ session' = [session EXCEPT !.status = "open", !.phase = "none",
                                           !.reopened = session.reopened + 1]
    <3>1. session.reopened + 1 \in 0 .. Reopens
      BY <1>0, <2>2 DEF SessionRow
    <3> QED
      BY <1>0, <2>2, <3>1 DEF SessionRow
  <2> QED
    BY <1>0, <1>7, <2>1, <2>2 DEF Settle
<1>8. CASE session' = session
  BY <1>0, <1>8
<1>9. ASSUME NEW r \in Runners,
             RecordRun(r) \/ PickTier(r) \/ Claim(r) \/ Release(r) \/ QueueCompaction(r) \/ Merge(r) \/ Plan(r)
             \/ Sliced(r) \/ FindInputs(r) \/ Swap(r) \/ ListRuns(r) \/ Group(r) \/ ReadRuns(r)
             \/ Delivery(r) \/ Crash(r) \/ Redeliver(r)
      PROVE  session' = session
  BY <1>9 DEF RecordRun, PickTier, Claim, Release, QueueCompaction, Merge, Plan, Sliced, FindInputs, Swap,
     ListRuns, Group, ReadRuns, Delivery, StartCommit, StartCompaction, StartPiece, Deliver, Crash, Redeliver
<1>10. ASSUME NEW s \in Seqs, RequeueClaim(s) PROVE session' = session
  BY <1>10 DEF RequeueClaim
<1>11. UNCHANGED vars => session' = session
  BY DEF vars
<1> QED
  BY <1>1, <1>2, <1>3, <1>4, <1>5, <1>6, <1>7, <1>8, <1>9, <1>10, <1>11 DEF Next, Sweep, RunnerStep

LEMMA JobsTyped == ASSUME RunInv, [Next]_vars PROVE jobs' \subseteq Messages /\ faults' \in 0 .. MaxFaults
<1>0. jobs \subseteq Messages /\ faults \in 0 .. MaxFaults /\ MaxFaults \in Nat /\ CommitJob \in Messages
  BY CompactionConstants, CommitJobKnown DEF RunInv, TypeOK
<1>1. \A s \in Seqs : CompactJob(s) \in Messages /\ \A k \in Keys : PieceJob(s, k) \in Messages
  BY DEF Messages
<1>2. CASE BeginCommit \/ Nudge \/ \E s \in Seqs : RequeueClaim(s)
  BY <1>0, <1>1, <1>2 DEF BeginCommit, Nudge, RequeueClaim
<1>3. ASSUME NEW r \in Runners, QueueCompaction(r) PROVE jobs' \subseteq Messages /\ faults' = faults
  <2>1. runner[r].seq \in Seqs
    BY <1>3, RunnerHas DEF QueueCompaction, RunInv, RunnersTrue, RunnerState
  <2> QED
    BY <1>0, <1>1, <1>3, <2>1 DEF QueueCompaction
<1>4. ASSUME NEW r \in Runners, Plan(r) PROVE jobs' \subseteq Messages /\ faults' = faults
  <2>1. runner[r].seq \in Seqs
    BY <1>4, BuilderHas DEF Plan
  <2>2. jobs' \subseteq jobs \cup {PieceJob(runner[r].seq, k) : k \in Keys} /\ faults' = faults
    BY <1>4 DEF Plan
  <2> QED
    BY <1>0, <1>1, <2>1, <2>2
<1>5. ASSUME NEW r \in Runners, Crash(r) \/ Redeliver(r)
      PROVE  jobs' \subseteq Messages /\ faults' \in 0 .. MaxFaults
  <2>1. runner[r].job \in Messages \cup {UploadJob} /\ faults' = faults + 1 /\ faults < MaxFaults
    BY <1>5, RunnerHas DEF RunnerState, Crash, Redeliver, Fault
  <2>2. jobs' \subseteq Messages
    BY <1>0, <1>5, <2>1 DEF Crash, Redeliver
  <2> QED
    BY <1>0, <2>1, <2>2
<1>6. ASSUME NEW r \in Runners, AfterSwap(r) \/ Delivery(r) PROVE jobs' \subseteq Messages /\ faults' = faults
  BY <1>0, <1>6 DEF AfterSwap, Delivery, StartCommit, StartCompaction, StartPiece, Deliver
<1>7. ASSUME NEW r \in Runners,
             BeginUpload(r) \/ RecordRun(r) \/ PickTier(r) \/ TakeNumber(r) \/ Claim(r) \/ Release(r)
             \/ Merge(r) \/ Slice(r) \/ Sliced(r) \/ FindInputs(r) \/ Swap(r) \/ ListRuns(r)
             \/ SetCompacting(r) \/ Group(r) \/ ClearPhase(r) \/ ReadRuns(r) \/ Settle(r)
      PROVE  jobs' = jobs /\ faults' = faults
  BY <1>7 DEF BeginUpload, RecordRun, PickTier, TakeNumber, Claim, Release, Merge, Slice, Sliced, FindInputs,
     Swap, ListRuns, SetCompacting, Group, ClearPhase, ReadRuns, Settle
<1>8. UNCHANGED vars => jobs' = jobs /\ faults' = faults
  BY DEF vars
<1> QED
  BY <1>0, <1>2, <1>3, <1>4, <1>5, <1>6, <1>7, <1>8 DEF Next, Sweep, RunnerStep

SplitTyped == \A s \in DOMAIN split : split[s] \in SplitRow

LEMMA SplitStep == ASSUME RunInv, [Next]_vars PROVE SplitTyped'
<1>0. SplitTyped
  BY DEF RunInv, SplitTyped
<1>1. ASSUME NEW r \in Runners, Plan(r) PROVE SplitTyped'
  <2> DEFINE s == runner[r].seq
             plan == IF s \in DOMAIN split THEN split[s]
                     ELSE [inputs |-> runner[r].list, tier |-> runner[r].tier, done |-> {}]
  <2>1. split' = Write(split, s, plan)
    BY <1>1 DEF Plan
  <2>2. plan \in SplitRow
    BY <1>0, RunnerHas DEF SplitTyped, SplitRow, RunnerState
  <2> HIDE DEF plan
  <2> QED
    BY <1>0, <2>1, <2>2 DEF SplitTyped, Write
<1>2. ASSUME NEW r \in Runners, Slice(r) PROVE SplitTyped'
  <2>1. runner[r].seq \in DOMAIN split /\ runner[r].job[3] \in Keys
    <3>1. runner[r].seq \in DOMAIN split
      BY <1>2 DEF Slice, RunInv, RunnersTrue
    <3>2. \E k \in Keys : runner[r].job = PieceJob(runner[r].seq, k)
      BY <1>2 DEF Slice, RunInv, RunnersTrue
    <3> QED
      BY <3>1, <3>2 DEF PieceJob
  <2> DEFINE s == runner[r].seq
             done == split[s].done \cup {runner[r].job[3]}
  <2>2. split' = [split EXCEPT ![s].done = done]
    BY <1>2 DEF Slice
  <2>3. split[s] \in SplitRow /\ done \in SUBSET Keys
    BY <1>0, <2>1 DEF SplitTyped, SplitRow
  <2> HIDE DEF done, s
  <2>4. [split[s] EXCEPT !.done = done] \in SplitRow
    BY <2>3 DEF SplitRow
  <2>5. DOMAIN split' = DOMAIN split /\ \A t \in DOMAIN split :
           split'[t] = IF t = s THEN [split[s] EXCEPT !.done = done] ELSE split[t]
    BY <2>2
  <2> QED
    BY <1>0, <2>4, <2>5 DEF SplitTyped
<1>3. CASE split' = split
  BY <1>0, <1>3 DEF SplitTyped
<1>4. ASSUME NEW r \in Runners,
             BeginUpload(r) \/ RecordRun(r) \/ PickTier(r) \/ TakeNumber(r) \/ Claim(r) \/ Release(r)
             \/ QueueCompaction(r) \/ Merge(r) \/ Sliced(r) \/ FindInputs(r)
      PROVE  split' = split
  BY <1>4 DEF BeginUpload, RecordRun, PickTier, TakeNumber, Claim, Release, QueueCompaction, Merge, Sliced,
     FindInputs
<1>5. ASSUME NEW r \in Runners,
             Swap(r) \/ AfterSwap(r) \/ ListRuns(r) \/ SetCompacting(r) \/ Group(r) \/ ClearPhase(r)
             \/ ReadRuns(r) \/ Settle(r) \/ Crash(r) \/ Redeliver(r)
      PROVE  split' = split
  BY <1>5 DEF Swap, AfterSwap, ListRuns, SetCompacting, Group, ClearPhase, ReadRuns, Settle, Crash, Redeliver
<1>6. ASSUME NEW r \in Runners, Delivery(r) PROVE split' = split
  BY <1>6 DEF Delivery, StartCommit, StartCompaction, StartPiece, Deliver
<1>7. ASSUME BeginCommit \/ Sweep \/ UNCHANGED vars PROVE split' = split
  BY <1>7 DEF BeginCommit, Sweep, Nudge, RequeueClaim, vars
<1>8. split' = split \/ \E r \in Runners : Plan(r) \/ Slice(r)
  BY <1>4, <1>5, <1>6, <1>7 DEF Next, RunnerStep
<1> QED
  BY <1>1, <1>2, <1>3, <1>8

-----------------------------------------------------------------------------
(* What a step does to the inputs, the objects, and who works under which number. *)

\* A kind of a runner's step.
Turned(r, x) ==
    \/ Rests(r, x) \/ Draws(r, x) \/ Announces(r, x) \/ Releases(r, x) \/ Claiming(r, x)
    \/ Starts(r, x) \/ Records(r, x) \/ Builds(r, x) \/ Swaps(r, x)

LEMMA KindIs ==
    ASSUME Kind
    PROVE  \/ UNCHANGED vars \/ Sends \/ \E s \in Seqs : Requeues(s)
           \/ \E r \in Runners, x \in RunnerState : Turned(r, x)
  BY DEF Kind, Turned

\* Rows claimed by a number are rows, and rows are numbered.
LEMMA InputsAre ==
    ASSUME RunInv, NEW s
    PROVE  Inputs(s) \subseteq Rows /\ Inputs(s) \subseteq Seqs /\ Inputs(s) \subseteq DOMAIN object
  BY DEF Inputs, RunInv, TypeOK

\* Who owns a number is alone with it.
LEMMA OwnerNoWork ==
    ASSUME RunInv, NEW r \in Runners, NEW s \in Seqs, Owns(r, s)
    PROVE  /\ s \notin DOMAIN object /\ s \notin DOMAIN split
           /\ \A L : ~Works(s, L)
           /\ \A q \in Runners : ~(runner[q].pc \in {"merge", "plan", "slice", "sliced", "finish", "swap"}
                                   /\ runner[q].seq = s)
           /\ \A q \in Runners : Owns(q, s) => q = r
<1>1. /\ s \notin DOMAIN object /\ s \notin DOMAIN split
      /\ \A m \in Held : ~Concerns(m, s)
      /\ \A q \in Runners : Owns(q, s) => q = r
  BY DEF RunInv, OwnersAlone
<1>2. \A q \in Runners : ~(runner[q].pc \in {"merge", "plan", "slice", "sliced", "finish", "swap"}
                           /\ runner[q].seq = s)
  BY <1>1, RunnerHas DEF RunInv, RunnersTrue
<1> QED
  BY <1>1, <1>2 DEF Works

LEMMA InputsStep ==
    ASSUME RunInv, Kind, NEW t \in Seqs
    PROVE  \/ Inputs(t)' = Inputs(t)
           \/ Inputs(t)' = {} /\ t \in DOMAIN object /\ UNCHANGED object
           \/ \E r \in Runners :
                 Owns(r, t) /\ UNCHANGED object /\ runner'[r].pc \notin {"record", "claim"}
<1>0. /\ runner \in [Runners -> RunnerState] /\ \A u \in Rows : row[u] \in RunRow
      /\ t # NoRun
  BY DEF RunInv, TypeOK, Seqs, NoRun
<1>1. CASE row' = row
  BY <1>1 DEF Inputs, Rows
<1>2. ASSUME NEW r \in Runners, NEW x \in RunnerState, Releases(r, x)
      PROVE  \/ Inputs(t)' = Inputs(t)
             \/ Owns(r, t) /\ UNCHANGED object /\ runner'[r].pc \notin {"record", "claim"}
  <2>1. CASE t = runner[r].seq
    BY <1>0, <1>2, <2>1 DEF Releases, LetsGo, Turns, Owns
  <2>2. CASE t # runner[r].seq
    <3>1. row' = [u \in Rows |-> IF row[u].into = runner[r].seq THEN [row[u] EXCEPT !.into = NoRun] ELSE row[u]]
      BY <1>2 DEF Releases
    <3>2. ASSUME NEW u \in Rows PROVE row'[u].into = t <=> row[u].into = t
      <4>1. row[u] \in RunRow
        BY <1>0
      <4>2. CASE row[u].into = runner[r].seq
        BY <1>0, <2>2, <3>1, <4>1, <4>2 DEF RunRow
      <4>3. CASE row[u].into # runner[r].seq
        BY <3>1, <4>3
      <4> QED
        BY <4>2, <4>3
    <3> QED
      BY <3>1, <3>2 DEF Inputs, Rows
  <2> QED
    BY <2>1, <2>2
<1>3. ASSUME NEW r \in Runners, NEW x \in RunnerState, Claiming(r, x)
      PROVE  \/ Inputs(t)' = Inputs(t)
             \/ Owns(r, t) /\ UNCHANGED object /\ runner'[r].pc \notin {"record", "claim"}
  <2>1. CASE t = runner[r].seq
    BY <1>0, <1>3, <2>1 DEF Claiming, Turns, Owns
  <2>2. CASE t # runner[r].seq
    <3>1. PICK mine \in SUBSET Free :
             row' = [u \in Rows |-> IF u \in mine THEN [row[u] EXCEPT !.into = runner[r].seq] ELSE row[u]]
      BY <1>3 DEF Claiming
    <3>2. ASSUME NEW u \in Rows PROVE row'[u].into = t <=> row[u].into = t
      <4>1. row[u] \in RunRow
        BY <1>0
      <4>2. CASE u \in mine
        BY <1>0, <2>2, <3>1, <4>1, <4>2 DEF Free, RunRow
      <4>3. CASE u \notin mine
        BY <3>1, <4>3
      <4> QED
        BY <4>2, <4>3
    <3> QED
      BY <3>1, <3>2 DEF Inputs, Rows
  <2> QED
    BY <2>1, <2>2
<1>4. ASSUME NEW r \in Runners, NEW x \in RunnerState, Records(r, x)
      PROVE  Inputs(t)' = Inputs(t)
  <2>1. runner[r].seq \notin Rows
    BY <1>4, OwnerNoWork DEF Records, Owns, RunInv, TypeOK
  <2> QED
    BY <1>0, <1>4, <2>1 DEF Records, Write, Inputs, Rows
<1>5. ASSUME NEW r \in Runners, NEW x \in RunnerState, Swaps(r, x)
      PROVE  \/ Inputs(t)' = Inputs(t)
             \/ Inputs(t)' = {} /\ t \in DOMAIN object /\ UNCHANGED object
  <2> DEFINE s == runner[r].seq
  <2>1. s \in DOMAIN object /\ s \notin Inputs(s) /\ UNCHANGED object
    BY <1>5 DEF Swaps, RunInv, RunnersTrue, NoneIntoItself, Inputs
  <2>2. /\ DOMAIN row' = (Rows \ Inputs(s)) \cup {s}
        /\ \A u \in Rows \ Inputs(s) : row'[u] = row[u]
        /\ s \notin Rows => row'[s].into = NoRun
    BY <1>5, <2>1 DEF Swaps, Write
  <2> HIDE DEF s
  <2>3. CASE t = s
    <3>1. ASSUME NEW u \in DOMAIN row' PROVE row'[u].into # t
      BY <1>0, <2>1, <2>2, <2>3 DEF Inputs
    <3> QED
      BY <2>1, <2>3, <3>1 DEF Inputs, Rows
  <2>4. CASE t # s
    <3>1. ASSUME NEW u PROVE u \in DOMAIN row' /\ row'[u].into = t <=> u \in Rows /\ row[u].into = t
      BY <1>0, <2>1, <2>2, <2>4 DEF Inputs
    <3> QED
      BY <3>1 DEF Inputs, Rows
  <2> QED
    BY <2>3, <2>4
<1>6. ASSUME NEW r \in Runners, NEW x \in RunnerState,
             Rests(r, x) \/ Draws(r, x) \/ Announces(r, x) \/ Starts(r, x) \/ Builds(r, x)
      PROVE  row' = row
  BY <1>6 DEF Rests, Draws, Announces, Starts, Builds, Kept
<1>7. UNCHANGED vars \/ Sends \/ (\E s \in Seqs : Requeues(s)) => row' = row
  BY DEF vars, Sends, Requeues, Kept
<1> QED
  BY <1>1, <1>2, <1>3, <1>4, <1>5, <1>6, <1>7, KindIs DEF Turned

\* What is written stays, and is written under a number that is owned, or by the compaction's work.
LEMMA ObjectsStep ==
    ASSUME RunInv, Kind
    PROVE  /\ \A t \in DOMAIN object : t \in DOMAIN object' /\ object'[t] = object[t]
           /\ \A t \in DOMAIN object' \ DOMAIN object :
                 /\ t \in Seqs /\ \A u \in Seqs : Inputs(u)' = Inputs(u)
                 /\ \/ \E r \in Runners, x \in RunnerState :
                          Records(r, x) /\ Owns(r, t) /\ runner[r].seq = t /\ t \in Rows' /\ Inputs(t) = {}
                    \/ \E L \in SUBSET Seqs : Works(t, L) /\ object'[t] = Merged(L)
<1>1. CASE object' = object
  BY <1>1
<1>2. ASSUME NEW r \in Runners, NEW x \in RunnerState, Records(r, x)
      PROVE  /\ \A t \in DOMAIN object : t \in DOMAIN object' /\ object'[t] = object[t]
             /\ \A t \in DOMAIN object' \ DOMAIN object :
                   /\ t \in Seqs /\ \A u \in Seqs : Inputs(u)' = Inputs(u)
                   /\ Owns(r, t) /\ runner[r].seq = t /\ t \in Rows' /\ Inputs(t) = {}
  <2> DEFINE s == runner[r].seq
  <2>1. s \in Seqs /\ Owns(r, s) /\ s \notin DOMAIN object /\ Inputs(s) = {}
    <3>1. s \in Seqs /\ Owns(r, s) /\ runner[r].pc = "record"
      BY <1>2 DEF Records, Owns
    <3> QED
      BY <3>1, OwnerNoWork DEF RunInv, OwnersAlone
  <2>2. \A u \in Seqs : Inputs(u)' = Inputs(u)
    <3>1. s \notin Rows
      BY <2>1 DEF RunInv, TypeOK
    <3> QED
      BY <1>2, <3>1 DEF Records, Write, Inputs, Rows, Seqs, NoRun
  <2>3. object' = Write(object, s, [k \in Keys |-> IF k \in runner[r].keys THEN s ELSE 0]) /\ s \in Rows'
    BY <1>2 DEF Records, Write, Rows
  <2> QED
    BY <2>1, <2>2, <2>3 DEF Write
<1>3. ASSUME NEW r \in Runners, NEW x \in RunnerState, Builds(r, x), object' # object
      PROVE  /\ \A t \in DOMAIN object : t \in DOMAIN object' /\ object'[t] = object[t]
             /\ \A t \in DOMAIN object' \ DOMAIN object :
                   /\ t \in Seqs /\ \A u \in Seqs : Inputs(u)' = Inputs(u)
                   /\ \E L \in SUBSET Seqs : Works(t, L) /\ object'[t] = Merged(L)
  <2> DEFINE s == runner[r].seq
  <2>1. s \in Seqs /\ row' = row /\ \E L \in SUBSET Seqs : Works(s, L) /\ object' = Write(object, s, Merged(L))
    BY <1>3 DEF Builds
  <2>2. PICK L \in SUBSET Seqs : Works(s, L) /\ object' = Write(object, s, Merged(L))
    BY <2>1
  <2>3. s \in DOMAIN object => object[s] = Merged(L)
    BY <2>1, <2>2 DEF RunInv, WorksAgree, Agrees
  <2>4. \A u \in Seqs : Inputs(u)' = Inputs(u)
    BY <2>1 DEF Inputs, Rows
  <2> QED
    BY <2>1, <2>2, <2>3, <2>4 DEF Write
<1>4. ASSUME NEW r \in Runners, NEW x \in RunnerState,
             Rests(r, x) \/ Draws(r, x) \/ Announces(r, x) \/ Releases(r, x) \/ Claiming(r, x)
             \/ Starts(r, x) \/ Swaps(r, x)
      PROVE  object' = object
  BY <1>4 DEF Rests, Draws, Announces, Releases, Claiming, Starts, Swaps, Kept
<1>5. UNCHANGED vars \/ Sends \/ (\E s \in Seqs : Requeues(s)) => object' = object
  BY DEF vars, Sends, Requeues, Kept
<1> QED
  BY <1>1, <1>2, <1>3, <1>4, <1>5, KindIs DEF Turned

\* A merge of what was written before is the merge of the same objects after.
LEMMA MergeStays ==
    ASSUME RunInv, Kind, NEW L, L \subseteq DOMAIN object PROVE MergeOf(object', L) = Merged(L)
<1>1. \A s \in L : object'[s] = object[s]
  BY ObjectsStep
<1>2. \A k \in Keys : {object'[s][k] : s \in L} = {object[s][k] : s \in L}
  BY <1>1
<1> QED
  BY <1>2 DEF MergeOf, Merged

LEMMA MergedIs == ASSUME NEW L PROVE Merged(L) = MergeOf(object, L) /\ Merged(L)' = MergeOf(object', L)
  BY DEF Merged, MergeOf

\* The records of the runners after a turn.
LEMMA TurnTaken ==
    ASSUME RunInv, NEW r \in Runners, NEW x \in RunnerState, Turned(r, x)
    PROVE  /\ runner' \in [Runners -> RunnerState] /\ runner'[r] = x
           /\ \A q \in Runners : q # r => runner'[q] = runner[q]
<1>1. Turns(r, x)
  BY DEF Turned, Rests, Draws, Announces, Releases, Claiming, Starts, Records, Builds, Swaps, LetsGo
<1> QED
  BY <1>1 DEF Turns, RunInv, TypeOK

\* What a compaction works on, it worked on before, or it has just listed its inputs.
LEMMA WorkStep ==
    ASSUME RunInv, Kind, NEW s \in Seqs, NEW L \in SUBSET Seqs, Works(s, L)'
    PROVE  Works(s, L) \/ (L = Inputs(s) /\ L # {} /\ UNCHANGED <<row, object>>)
<1>1. ASSUME UNCHANGED vars \/ Sends \/ \E t \in Seqs : Requeues(t) PROVE Works(s, L)
  BY <1>1 DEF vars, Sends, Requeues, Kept, Works
<1>2. ASSUME NEW r \in Runners, NEW x \in RunnerState, Turned(r, x)
      PROVE  Works(s, L) \/ (L = Inputs(s) /\ L # {} /\ UNCHANGED <<row, object>>)
  <2>1. CASE s \in DOMAIN split' /\ split'[s].inputs = L
    <3>1. CASE split' = split
      BY <2>1, <3>1 DEF Works
    <3>2. CASE Builds(r, x)
      BY <2>1, <3>2 DEF Works, Builds
    <3>3. split' = split \/ Builds(r, x)
      BY <1>2 DEF Turned, Rests, Draws, Announces, Releases, Claiming, Starts, Records, Swaps, Kept
    <3> QED
      BY <3>1, <3>2, <3>3
  <2>2. ASSUME NEW q \in Runners,
               runner'[q].pc \in {"merge", "plan"}, runner'[q].seq = s, runner'[q].list = L
        PROVE  Works(s, L) \/ (L = Inputs(s) /\ L # {} /\ UNCHANGED <<row, object>>)
    <3>1. CASE q # r
      BY <1>2, <2>2, <3>1, TurnTaken DEF Works
    <3>2. CASE q = r
      <4>1. x.pc \in {"merge", "plan"} /\ x.seq = s /\ x.list = L
        BY <1>2, <2>2, <3>2, TurnTaken
      <4>2. Starts(r, x)
        BY <1>2, <4>1 DEF Turned, Rests, Draws, Announces, Releases, Claiming, Records, Builds, Swaps, LetsGo
      <4> QED
        BY <4>1, <4>2 DEF Starts, Kept
    <3> QED
      BY <3>1, <3>2
  <2> QED
    BY <2>1, <2>2 DEF Works
<1> QED
  BY <1>1, <1>2, KindIs

\* A number is owned by who owned it, or has just been drawn.
LEMMA OwnStep ==
    ASSUME RunInv, Kind, NEW q \in Runners, NEW s \in Seqs, Owns(q, s)'
    PROVE  \/ /\ Owns(q, s)
              /\ runner'[q].pc \in {"record", "claim"} => runner[q].pc \in {"record", "claim"}
           \/ \E x \in RunnerState : Draws(q, x) /\ s = session.runs + 1
<1>1. ASSUME UNCHANGED vars \/ Sends \/ \E t \in Seqs : Requeues(t) PROVE Owns(q, s) /\ runner' = runner
  BY <1>1 DEF vars, Sends, Requeues, Owns
<1>2. ASSUME NEW r \in Runners, NEW x \in RunnerState, Turned(r, x)
      PROVE  \/ /\ Owns(q, s)
                /\ runner'[q].pc \in {"record", "claim"} => runner[q].pc \in {"record", "claim"}
             \/ Draws(q, x) /\ s = session.runs + 1
  <2>1. CASE q # r
    BY <1>2, <2>1, TurnTaken DEF Owns
  <2>2. CASE q = r
    <3>1. x.pc \in {"record", "claim", "queue", "release"} /\ x.seq = s /\ runner'[q] = x
      BY <1>2, <2>2, TurnTaken DEF Owns
    <3>2. CASE Draws(r, x)
      BY <2>2, <3>1, <3>2 DEF Draws
    <3>3. CASE Claiming(r, x)
      BY <2>2, <3>1, <3>3 DEF Claiming, Owns
    <3>4. Draws(r, x) \/ Claiming(r, x)
      BY <1>2, <3>1 DEF Turned, Rests, Announces, Releases, LetsGo, Starts, Records, Builds, Swaps
    <3> QED
      BY <3>2, <3>3, <3>4
  <2> QED
    BY <2>1, <2>2
<1> QED
  BY <1>1, <1>2, KindIs

\* Where a compaction's message comes from.
Sent(m) ==
    \/ \E r \in Runners :
          /\ runner[r].pc = "queue" /\ m = CompactJob(runner[r].seq)
          /\ runner'[r].pc \notin {"record", "claim", "queue", "release"}
    \/ \E s \in Seqs : Lost(s) /\ m = CompactJob(s) /\ runner' = runner /\ Inputs(s) # {}
    \/ \E r \in Runners, k \in Keys :
          /\ runner[r].pc \in {"merge", "plan", "slice", "sliced"} /\ runner[r].seq \in DOMAIN split'
          /\ m = PieceJob(runner[r].seq, k)

LEMMA HeldStep ==
    ASSUME RunInv, Kind
    PROVE  \A m \in Held' : m \in Held \cup {CommitJob, UploadJob, NoJob} \/ Sent(m)
<1> DEFINE Known(m) == m \in Held \cup {CommitJob, UploadJob, NoJob} \/ Sent(m)
<1>0. jobs \subseteq Held /\ \A r \in Runners : runner[r].job \in Held
  BY DEF Held
<1>1. ASSUME UNCHANGED vars \/ Sends PROVE \A m \in Held' : Known(m)
  BY <1>1 DEF vars, Sends, Held
<1>2. ASSUME NEW s \in Seqs, Requeues(s) PROVE \A m \in Held' : Known(m)
  <2>1. Sent(CompactJob(s))
    BY <1>2 DEF Requeues, Sent
  <2> QED
    BY <1>2, <2>1 DEF Requeues, Held
<1>3. ASSUME NEW r \in Runners, NEW x \in RunnerState, Turned(r, x) PROVE \A m \in Held' : Known(m)
  <2>1. \A m \in Held' : m \in jobs' \/ m = x.job \/ m \in Held
    BY <1>3, TurnTaken DEF Held
  <2>2. ASSUME Rests(r, x) \/ Draws(r, x) \/ Releases(r, x) \/ Claiming(r, x) \/ Starts(r, x)
               \/ Records(r, x) \/ Swaps(r, x)
        PROVE  (\A m \in jobs' : Known(m)) /\ Known(x.job)
    BY <1>0, <2>2 DEF Rests, Draws, Releases, Claiming, Starts, Records, Swaps, LetsGo
  <2>3. ASSUME Announces(r, x) PROVE (\A m \in jobs' : Known(m)) /\ Known(x.job)
    <3>1. Sent(CompactJob(runner[r].seq))
      BY <1>3, <2>3, TurnTaken DEF Announces, LetsGo, Sent
    <3> QED
      BY <1>0, <2>3, <3>1 DEF Announces, LetsGo
  <2>4. ASSUME Builds(r, x) PROVE (\A m \in jobs' : Known(m)) /\ Known(x.job)
    <3>1. Known(x.job)
      BY <1>0, <2>4 DEF Builds
    <3>2. CASE jobs' = jobs
      BY <1>0, <3>1, <3>2
    <3>3. CASE jobs' # jobs
      <4>1. \A k \in Keys : Sent(PieceJob(runner[r].seq, k))
        BY <2>4, <3>3 DEF Builds, Sent
      <4> QED
        BY <1>0, <2>4, <3>1, <4>1 DEF Builds
    <3> QED
      BY <3>2, <3>3
  <2> QED
    BY <1>3, <2>1, <2>2, <2>3, <2>4 DEF Turned
<1> QED
  BY <1>1, <1>2, <1>3, KindIs

-----------------------------------------------------------------------------
(* Each conjunct is kept.                                                  *)

LEMMA RunsStep ==
    ASSUME RunInv, Kind
    PROVE  session.runs \in Nat /\ session'.runs \in {session.runs, session.runs + 1}
<1>1. session.runs \in Nat
  BY DEF RunInv, TypeOK, SessionRow
<1>2. UNCHANGED vars \/ Sends \/ (\E s \in Seqs : Requeues(s)) => session'.runs = session.runs
  BY DEF vars, Sends, Requeues, Kept
<1>3. ASSUME NEW r \in Runners, NEW x \in RunnerState, Turned(r, x)
      PROVE  session'.runs \in {session.runs, session.runs + 1}
  BY <1>3 DEF Turned, Rests, Draws, Announces, Releases, Claiming, Starts, Records, Builds, Swaps, Kept
<1> QED
  BY <1>1, <1>2, <1>3, KindIs

LEMMA OwnersStep == ASSUME RunInv, Kind PROVE OwnersAlone'
<1> SUFFICES ASSUME NEW q \in Runners, NEW s \in Seqs, Owns(q, s)'
             PROVE  /\ \A p \in Runners \ {q} : ~Owns(p, s)'
                    /\ \A m \in Held' : ~Concerns(m, s)
                    /\ s \notin DOMAIN object' /\ s \notin DOMAIN split'
                    /\ runner'[q].pc \in {"record", "claim"} => Inputs(s)' = {}
  BY DEF OwnersAlone
<1>0. session.runs \in Nat /\ s \in Nat
  BY RunsStep DEF Seqs
<1>1. CASE /\ Owns(q, s)
           /\ runner'[q].pc \in {"record", "claim"} => runner[q].pc \in {"record", "claim"}
  <2>1. /\ s \notin DOMAIN object /\ s \notin DOMAIN split /\ \A L : ~Works(s, L)
        /\ \A p \in Runners : ~(runner[p].pc \in {"merge", "plan", "slice", "sliced", "finish", "swap"}
                                /\ runner[p].seq = s)
        /\ \A p \in Runners : Owns(p, s) => p = q
    BY <1>1, OwnerNoWork
  <2>2. s <= session.runs /\ \A m \in Held : ~Concerns(m, s)
    BY <1>1 DEF RunInv, OwnersAlone, NumbersDrawn, Owns
  <2>3. ASSUME NEW p \in Runners \ {q} PROVE ~Owns(p, s)'
    BY <1>0, <2>1, <2>2, OwnStep
  <2>4. ASSUME NEW m \in Held', Concerns(m, s) PROVE FALSE
    <3>1. Sent(m)
      BY <2>2, <2>4, HeldStep, MessageNumbers
    <3>2. ASSUME NEW r \in Runners, runner[r].pc = "queue", m = CompactJob(runner[r].seq),
                 runner'[r].pc \notin {"record", "claim", "queue", "release"}
          PROVE  FALSE
      <4>1. runner[r].seq = s
        BY <2>4, <3>2, MessageNumbers
      <4> QED
        BY <2>1, <3>2, <4>1 DEF Owns
    <3>3. ASSUME NEW t \in Seqs, Lost(t), m = CompactJob(t) PROVE FALSE
      <4>1. t = s
        BY <2>4, <3>3, MessageNumbers
      <4> QED
        BY <1>1, <3>3, <4>1 DEF Owns, Lost
    <3>4. ASSUME NEW r \in Runners, NEW k \in Keys, m = PieceJob(runner[r].seq, k),
                 runner[r].pc \in {"merge", "plan", "slice", "sliced"}
          PROVE  FALSE
      <4>1. runner[r].seq = s
        BY <2>4, <3>4, MessageNumbers
      <4> QED
        BY <2>1, <3>4, <4>1
    <3> QED
      BY <3>1, <3>2, <3>3, <3>4 DEF Sent
  <2>5. s \notin DOMAIN object'
    <3>1. ASSUME NEW r \in Runners, NEW x \in RunnerState, Records(r, x), Owns(r, s) PROVE FALSE
      <4>1. r = q /\ Turned(r, x) /\ x.pc = "tier"
        BY <2>1, <3>1 DEF Turned, Records
      <4> QED
        BY <4>1, TurnTaken DEF Owns
    <3> QED
      BY <2>1, <3>1, ObjectsStep
  <2>6. s \notin DOMAIN split'
    <3>1. ASSUME NEW r \in Runners, NEW x \in RunnerState, Builds(r, x) PROVE s \notin DOMAIN split'
      BY <2>1, <3>1 DEF Builds
    <3>2. ASSUME NEW r \in Runners, NEW x \in RunnerState,
                 Rests(r, x) \/ Draws(r, x) \/ Announces(r, x) \/ Releases(r, x) \/ Claiming(r, x)
                 \/ Starts(r, x) \/ Records(r, x) \/ Swaps(r, x)
          PROVE  split' = split
      BY <3>2 DEF Rests, Draws, Announces, Releases, Claiming, Starts, Records, Swaps, Kept
    <3>3. UNCHANGED vars \/ Sends \/ (\E t \in Seqs : Requeues(t)) => split' = split
      BY DEF vars, Sends, Requeues, Kept
    <3> QED
      BY <2>1, <3>1, <3>2, <3>3, KindIs DEF Turned
  <2>7. ASSUME runner'[q].pc \in {"record", "claim"} PROVE Inputs(s)' = {}
    <3>1. Inputs(s) = {}
      BY <1>1, <2>7 DEF RunInv, OwnersAlone
    <3> QED
      BY <2>1, <2>7, <3>1, InputsStep
  <2> QED
    BY <2>3, <2>4, <2>5, <2>6, <2>7
<1>2. ASSUME NEW x \in RunnerState, Draws(q, x), s = session.runs + 1
      PROVE  /\ \A p \in Runners \ {q} : ~Owns(p, s)'
             /\ \A m \in Held' : ~Concerns(m, s)
             /\ s \notin DOMAIN object' /\ s \notin DOMAIN split'
             /\ Inputs(s)' = {}
  <2>1. /\ UNCHANGED <<row, object, split, jobs>> /\ x.job \in {UploadJob} \cup Held
        /\ \A p \in Runners : p # q => runner'[p] = runner[p]
        /\ runner'[q] = x
    BY <1>2, TurnTaken DEF Draws, Turned
  <2>2. /\ \A p \in Runners : runner[p].seq \in Nat /\ runner[p].seq <= session.runs
        /\ \A m \in Held : ~Concerns(m, s)
        /\ s \notin DOMAIN object /\ s \notin DOMAIN split
        /\ \A t \in Rows : row[t].into \in Nat /\ row[t].into <= session.runs
    <3>1. \A p \in Runners : runner[p].seq \in Nat
      BY DEF RunInv, TypeOK, RunnerState, Seqs, NoRun
    <3>2. \A t \in Rows : row[t].into \in Nat
      <4>1. \A t \in Rows : row[t] \in RunRow
        BY DEF RunInv, TypeOK
      <4> QED
        BY <4>1 DEF RunRow, Seqs, NoRun
    <3> QED
      BY <1>0, <1>2, <3>1, <3>2 DEF RunInv, NumbersDrawn
  <2>3. ASSUME NEW p \in Runners \ {q} PROVE ~Owns(p, s)'
    BY <1>0, <1>2, <2>1, <2>2 DEF Owns
  <2>4. ASSUME NEW m \in Held' PROVE ~Concerns(m, s)
    <3>1. m \in Held \/ m = UploadJob
      BY <2>1 DEF Held
    <3> QED
      BY <2>2, <3>1, MessageNumbers
  <2>5. Inputs(s)' = {}
    BY <1>0, <1>2, <2>1, <2>2 DEF Inputs, Rows
  <2> QED
    BY <2>1, <2>2, <2>3, <2>4, <2>5
<1> QED
  BY <1>1, <1>2, OwnStep

LEMMA RowsStep ==
    ASSUME RunInv, Kind
    PROVE  Rows' \subseteq Seqs /\ Rows' \subseteq DOMAIN object' /\ \A t \in Rows' : row'[t] \in RunRow
<1>0. /\ Rows \subseteq Seqs /\ Rows \subseteq DOMAIN object /\ \A t \in Rows : row[t] \in RunRow
      /\ \A r \in Runners : runner[r] \in RunnerState
      /\ DOMAIN object \subseteq DOMAIN object'
  BY ObjectsStep DEF RunInv, TypeOK
<1>1. CASE row' = row
  BY <1>0, <1>1 DEF Rows
<1>2. ASSUME NEW r \in Runners, NEW x \in RunnerState, Releases(r, x)
      PROVE  Rows' = Rows /\ \A t \in Rows' : row'[t] \in RunRow
  BY <1>0, <1>2 DEF Releases, Rows, RunRow
<1>3. ASSUME NEW r \in Runners, NEW x \in RunnerState, Claiming(r, x)
      PROVE  Rows' = Rows /\ \A t \in Rows' : row'[t] \in RunRow
  <2>1. PICK mine \in SUBSET Free :
           row' = [u \in Rows |-> IF u \in mine THEN [row[u] EXCEPT !.into = runner[r].seq] ELSE row[u]]
    BY <1>3 DEF Claiming
  <2>2. runner[r].seq \in Seqs \cup {NoRun}
    BY <1>0 DEF RunnerState
  <2> QED
    BY <1>0, <2>1, <2>2 DEF Rows, RunRow
<1>4. ASSUME NEW r \in Runners, NEW x \in RunnerState, Records(r, x)
      PROVE  Rows' \subseteq Seqs /\ Rows' \subseteq DOMAIN object' /\ \A t \in Rows' : row'[t] \in RunRow
  <2>1. [tier |-> 0, into |-> NoRun] \in RunRow
    BY DEF RunRow
  <2>2. /\ row' = Write(row, runner[r].seq, [tier |-> 0, into |-> NoRun])
        /\ runner[r].seq \in Seqs /\ runner[r].seq \in DOMAIN object'
    BY <1>4 DEF Records, Write
  <2> QED
    BY <1>0, <2>1, <2>2 DEF Write, Rows
<1>5. ASSUME NEW r \in Runners, NEW x \in RunnerState, Swaps(r, x)
      PROVE  Rows' \subseteq Seqs /\ Rows' \subseteq DOMAIN object' /\ \A t \in Rows' : row'[t] \in RunRow
  <2> DEFINE s == runner[r].seq
             new == [tier |-> runner[r].tier, into |-> NoRun]
             kept == [t \in Rows \ Inputs(s) |-> row[t]]
  <2>1. new \in RunRow
    BY <1>0 DEF RunRow, RunnerState
  <2>2. s \in Seqs /\ s \in DOMAIN object /\ (row' = kept \/ row' = Write(kept, s, new))
    BY <1>5 DEF Swaps, RunInv, RunnersTrue
  <2> HIDE DEF new, s
  <2> QED
    BY <1>0, <2>1, <2>2 DEF Write, Rows
<1>6. ASSUME NEW r \in Runners, NEW x \in RunnerState,
             Rests(r, x) \/ Draws(r, x) \/ Announces(r, x) \/ Starts(r, x) \/ Builds(r, x)
      PROVE  row' = row
  BY <1>6 DEF Rests, Draws, Announces, Starts, Builds, Kept
<1>7. UNCHANGED vars \/ Sends \/ (\E t \in Seqs : Requeues(t)) => row' = row
  BY DEF vars, Sends, Requeues, Kept
<1> QED
  BY <1>0, <1>1, <1>2, <1>3, <1>4, <1>5, <1>6, <1>7, KindIs DEF Turned

LEMMA NumbersStep == ASSUME RunInv, Kind PROVE NumbersDrawn'
<1>0. /\ session.runs \in Nat /\ session'.runs \in Nat /\ session.runs <= session'.runs
  BY RunsStep
<1>1. /\ DOMAIN object \subseteq 1 .. session.runs /\ DOMAIN split \subseteq 1 .. session.runs
      /\ \A t \in Rows : row[t].into <= session.runs
      /\ \A r \in Runners : runner[r].seq <= session.runs
      /\ \A m \in Held, s \in Seqs : Concerns(m, s) => s <= session.runs
  BY DEF RunInv, NumbersDrawn
<1>2. \A r \in Runners : runner[r].seq \in Nat
  BY DEF RunInv, TypeOK, RunnerState, Seqs, NoRun
<1>3. \A t \in Rows : row[t] \in RunRow /\ row[t].into \in Nat
  <2>1. \A t \in Rows : row[t] \in RunRow
    BY DEF RunInv, TypeOK
  <2> QED
    BY <2>1 DEF RunRow, Seqs, NoRun
<1>4. DOMAIN object' \subseteq 1 .. session'.runs
  <2> SUFFICES ASSUME NEW t \in DOMAIN object' PROVE t \in 1 .. session'.runs
    OBVIOUS
  <2>1. CASE t \in DOMAIN object
    BY <1>0, <1>1, <2>1
  <2>2. CASE t \notin DOMAIN object
    <3>1. t \in Seqs /\ ((\E r \in Runners : Owns(r, t)) \/ (\E L \in SUBSET Seqs : Works(t, L)))
      BY <2>2, ObjectsStep
    <3>2. t \in 1 .. MaxSeq /\ MaxSeq \in Nat
      BY <3>1, CompactionConstants DEF Seqs
    <3> QED
      BY <1>0, <1>1, <1>2, <3>1, <3>2 DEF Owns, Works
  <2> QED
    BY <2>1, <2>2
<1>5. DOMAIN split' \subseteq 1 .. session'.runs
  <2>1. ASSUME NEW r \in Runners, NEW x \in RunnerState, Builds(r, x) PROVE DOMAIN split' \subseteq 1 .. session'.runs
    <3>1. runner[r].seq \in Seqs /\ DOMAIN split' \subseteq DOMAIN split \cup {runner[r].seq}
      BY <2>1 DEF Builds
    <3>2. runner[r].seq \in 1 .. session'.runs
      BY <1>0, <1>1, <1>2, <3>1 DEF Seqs
    <3> QED
      BY <1>0, <1>1, <3>1, <3>2
  <2>2. ASSUME split' = split PROVE DOMAIN split' \subseteq 1 .. session'.runs
    BY <1>0, <1>1, <2>2
  <2>3. ASSUME NEW r \in Runners, NEW x \in RunnerState, Turned(r, x) PROVE split' = split \/ Builds(r, x)
    BY <2>3 DEF Turned, Rests, Draws, Announces, Releases, Claiming, Starts, Records, Swaps, Kept
  <2>4. UNCHANGED vars \/ Sends \/ (\E t \in Seqs : Requeues(t)) => split' = split
    BY DEF vars, Sends, Requeues, Kept
  <2> QED
    BY <2>1, <2>2, <2>3, <2>4, KindIs
<1>6. \A t \in Rows' : row'[t].into <= session'.runs
  <2> SUFFICES ASSUME NEW t \in Rows' PROVE row'[t].into <= session'.runs
    OBVIOUS
  <2>1. row'[t].into \in Seqs \cup {NoRun}
    BY RowsStep DEF RunRow
  <2>2. CASE row'[t].into = NoRun
    BY <1>0, <2>2 DEF NoRun
  <2>3. CASE row'[t].into \in Seqs
    <3>1. PICK s \in Seqs : row'[t].into = s
      BY <2>3
    <3>2. t \in Inputs(s)'
      BY <3>1 DEF Inputs
    <3>3. t \in Inputs(s) \/ \E r \in Runners : runner[r].seq = s
      BY <3>2, InputsStep DEF Owns
    <3>4. s \in Nat /\ s <= session.runs
      BY <1>1, <3>3 DEF Inputs, Seqs
    <3> QED
      BY <1>0, <3>1, <3>4
  <2> QED
    BY <2>1, <2>2, <2>3
<1>7. \A r \in Runners : runner'[r].seq <= session'.runs
  <2>1. ASSUME UNCHANGED vars \/ Sends \/ \E t \in Seqs : Requeues(t) PROVE runner' = runner
    BY <2>1 DEF vars, Sends, Requeues
  <2>2. ASSUME NEW r \in Runners, NEW x \in RunnerState, Turned(r, x) PROVE x.seq <= session'.runs
    <3>1. ASSUME Draws(r, x) PROVE x.seq <= session'.runs
      BY <1>0, <3>1 DEF Draws
    <3>2. ASSUME Starts(r, x) PROVE x.seq <= session'.runs
      <4>1. x.seq \in Seqs /\ x.job \in Held /\ Concerns(x.job, x.seq)
        BY <3>2 DEF Starts, Held
      <4>2. x.seq \in Nat /\ x.seq <= session.runs
        BY <1>1, <4>1 DEF Seqs
      <4> QED
        BY <1>0, <4>2
    <3>3. ASSUME ~Draws(r, x), ~Starts(r, x) PROVE x.seq \in {0, runner[r].seq}
      BY <2>2, <3>3 DEF Turned, Rests, Announces, Releases, LetsGo, Claiming, Records, Builds, Swaps, NoRun
    <3> QED
      BY <1>0, <1>1, <1>2, <3>1, <3>2, <3>3
  <2> QED
    BY <1>0, <1>1, <1>2, <2>1, <2>2, TurnTaken, KindIs
<1>8. \A m \in Held', s \in Seqs : Concerns(m, s) => s <= session'.runs
  <2> SUFFICES ASSUME NEW m \in Held', NEW s \in Seqs, Concerns(m, s) PROVE s <= session.runs
    <3>1. \A s \in Seqs : s \in Nat
      BY DEF Seqs
    <3> QED
      BY <1>0, <3>1
  <2>1. m \in Held \/ Sent(m)
    BY HeldStep, MessageNumbers
  <2>2. ASSUME Sent(m) PROVE s <= session.runs
    <3>1. (\E r \in Runners : s = runner[r].seq) \/ Inputs(s) # {}
      <4>1. ASSUME NEW r \in Runners, m = CompactJob(runner[r].seq) PROVE s = runner[r].seq
        BY <4>1, MessageNumbers
      <4>2. ASSUME NEW u \in Seqs, m = CompactJob(u), Inputs(u) # {} PROVE Inputs(s) # {}
        BY <4>2, MessageNumbers
      <4>3. ASSUME NEW r \in Runners, NEW k \in Keys, m = PieceJob(runner[r].seq, k) PROVE s = runner[r].seq
        BY <4>3, MessageNumbers
      <4> QED
        BY <2>2, <4>1, <4>2, <4>3 DEF Sent
    <3>2. Inputs(s) # {} => s <= session.runs
      BY <1>1 DEF Inputs
    <3> QED
      BY <1>1, <3>1, <3>2
  <2> QED
    BY <1>1, <2>1, <2>2
<1> QED
  BY <1>4, <1>5, <1>6, <1>7, <1>8 DEF NumbersDrawn

\* Objects that are there can be merged.
LEMMA EnteredIs ==
    ASSUME RunInv, NEW L, L \subseteq DOMAIN object
    PROVE  /\ Entered(object, L) /\ Merged(L) \in [Keys -> 0 .. MaxSeq]
           /\ \A k \in Keys :
                 /\ \A s \in L : object[s][k] <= Merged(L)[k]
                 /\ Merged(L)[k] = 0 \/ \E s \in L : object[s][k] = Merged(L)[k]
<1>1. Entered(object, L)
  BY DEF Entered, RunInv, TypeOK
<1> QED
  BY <1>1, MergeOfHas, MergedIs

LEMMA ObjectsTyped ==
    ASSUME RunInv, Kind PROVE \A t \in DOMAIN object' : object'[t] \in [Keys -> 0 .. MaxSeq]
<1> SUFFICES ASSUME NEW t \in DOMAIN object' PROVE object'[t] \in [Keys -> 0 .. MaxSeq]
  OBVIOUS
<1>1. CASE t \in DOMAIN object
  BY <1>1, ObjectsStep DEF RunInv, TypeOK
<1>2. ASSUME NEW r \in Runners, NEW x \in RunnerState, Records(r, x), runner[r].seq = t,
             t \notin DOMAIN object, t \in Seqs
      PROVE  object'[t] \in [Keys -> 0 .. MaxSeq]
  <2>1. object'[t] = [k \in Keys |-> IF k \in runner[r].keys THEN t ELSE 0]
    BY <1>2 DEF Records, Write
  <2>2. t \in 0 .. MaxSeq /\ 0 \in 0 .. MaxSeq
    BY <1>2, CompactionConstants DEF Seqs
  <2> QED
    BY <2>1, <2>2
<1>3. ASSUME NEW L \in SUBSET Seqs, t \in Seqs, Works(t, L), object'[t] = Merged(L)
      PROVE  object'[t] \in [Keys -> 0 .. MaxSeq]
  BY <1>3, EnteredIs DEF RunInv, WorksAgree, Agrees
<1> QED
  BY <1>1, <1>2, <1>3, ObjectsStep

LEMMA WorksStep == ASSUME RunInv, Kind PROVE WorksAgree'
<1> SUFFICES ASSUME NEW s \in Seqs, NEW L \in SUBSET Seqs, Works(s, L)'
             PROVE  /\ L \subseteq DOMAIN object'
                    /\ IF Inputs(s)' = {} THEN s \in DOMAIN object' ELSE Inputs(s)' = L
                    /\ s \in DOMAIN object' => object'[s] = MergeOf(object', L)
  BY MergedIs DEF WorksAgree, Agrees
<1>1. CASE Works(s, L)
  <2>1. /\ L \subseteq DOMAIN object
        /\ IF Inputs(s) = {} THEN s \in DOMAIN object ELSE Inputs(s) = L
        /\ s \in DOMAIN object => object[s] = Merged(L)
    BY <1>1 DEF RunInv, WorksAgree, Agrees
  <2>2. \A r \in Runners : ~Owns(r, s)
    BY <1>1, OwnerNoWork
  <2>3. Inputs(s)' = Inputs(s) \/ (Inputs(s)' = {} /\ s \in DOMAIN object)
    BY <2>2, InputsStep
  <2>4. L \subseteq DOMAIN object' /\ MergeOf(object', L) = Merged(L) /\ DOMAIN object \subseteq DOMAIN object'
    BY <2>1, ObjectsStep, MergeStays
  <2>5. s \in DOMAIN object' => object'[s] = Merged(L)
    <3>1. CASE s \in DOMAIN object
      BY <2>1, <3>1, ObjectsStep
    <3>2. CASE s \in DOMAIN object' \ DOMAIN object
      <4>1. PICK M \in SUBSET Seqs : Works(s, M) /\ object'[s] = Merged(M)
        BY <2>2, <3>2, ObjectsStep
      <4>2. IF Inputs(s) = {} THEN s \in DOMAIN object ELSE Inputs(s) = M
        BY <4>1 DEF RunInv, WorksAgree, Agrees
      <4> QED
        BY <2>1, <3>2, <4>1, <4>2
    <3> QED
      BY <3>1, <3>2
  <2> QED
    BY <2>1, <2>3, <2>4, <2>5
<1>2. CASE L = Inputs(s) /\ L # {} /\ UNCHANGED <<row, object>>
  <2>1. L \subseteq DOMAIN object /\ Inputs(s)' = L
    BY <1>2, InputsAre DEF Inputs, Rows
  <2>2. s \in DOMAIN object => object[s] = Merged(L)
    BY <1>2 DEF RunInv, InputsCovered
  <2> QED
    BY <1>2, <2>1, <2>2, MergedIs
<1> QED
  BY <1>1, <1>2, WorkStep

LEMMA ObjectNumbers == ASSUME RunInv PROVE DOMAIN object \subseteq Seqs
<1>1. DOMAIN object \subseteq 1 .. session.runs /\ session.runs \in 0 .. MaxSeq /\ MaxSeq \in Nat
  BY CompactionConstants DEF RunInv, NumbersDrawn, TypeOK, SessionRow
<1> QED
  BY <1>1 DEF Seqs

LEMMA CoveredStep == ASSUME RunInv, Kind PROVE InputsCovered'
<1> SUFFICES ASSUME NEW t \in DOMAIN object', Inputs(t)' # {}
             PROVE  object'[t] = MergeOf(object', Inputs(t)')
  BY MergedIs DEF InputsCovered, Merged, MergeOf
<1>1. t \in Seqs
  BY ObjectsStep, ObjectNumbers
<1>2. CASE t \in DOMAIN object
  <2>1. Inputs(t)' = Inputs(t)
    BY <1>1, <1>2, InputsStep, OwnerNoWork
  <2>2. object'[t] = Merged(Inputs(t)) /\ MergeOf(object', Inputs(t)) = Merged(Inputs(t))
    BY <1>2, <2>1, InputsAre, MergeStays, ObjectsStep DEF RunInv, InputsCovered
  <2> QED
    BY <2>1, <2>2
<1>3. CASE t \notin DOMAIN object
  <2>1. Inputs(t)' = Inputs(t)
    BY <1>3, ObjectsStep
  <2>2. PICK L \in SUBSET Seqs : Works(t, L) /\ object'[t] = Merged(L)
    BY <1>3, <2>1, ObjectsStep
  <2>3. L = Inputs(t) /\ L \subseteq DOMAIN object
    BY <1>1, <2>1, <2>2 DEF RunInv, WorksAgree, Agrees
  <2> QED
    BY <2>1, <2>2, <2>3, MergeStays
<1> QED
  BY <1>2, <1>3

\* A step that is no upload changes nothing of what the runs come to.
LEMMA ContentSame ==
    ASSUME RunInv, Kind, ~\E r \in Runners, x \in RunnerState : Records(r, x)
    PROVE  MergeOf(object', Rows') = Merged(Rows)
<1>0. Rows \subseteq DOMAIN object
  BY DEF RunInv, TypeOK
<1>1. CASE Rows' = Rows
  BY <1>0, <1>1, MergeStays
<1>2. ASSUME NEW r \in Runners, NEW x \in RunnerState, Swaps(r, x)
      PROVE  MergeOf(object', Rows') = Merged(Rows)
  <2> DEFINE s == runner[r].seq
  <2>1. s \in DOMAIN object /\ s \notin Inputs(s) /\ object' = object
    BY <1>2 DEF Swaps, RunInv, RunnersTrue, NoneIntoItself, Inputs
  <2>2. DOMAIN row' = (Rows \ Inputs(s)) \cup {s}
    BY <1>2, <2>1 DEF Swaps, Write
  <2> DEFINE S == (Rows \ Inputs(s)) \cup {s}
  <2>3. S \subseteq DOMAIN object /\ Entered(object, S)
    BY <1>0, <2>1, EnteredIs
  <2>4. ASSUME NEW k \in Keys
        PROVE  /\ \A t \in S : object[t][k] <= Merged(Rows)[k]
               /\ Merged(Rows)[k] = 0 \/ \E t \in S : object[t][k] = Merged(Rows)[k]
    <3>1. \A t \in DOMAIN object : object[t][k] <= Merged(Rows)[k]
      BY DEF RunInv, ContentHolds
    <3>2. \A t \in DOMAIN object : object[t][k] \in 0 .. MaxSeq
      BY DEF RunInv, TypeOK
    <3>3. ASSUME NEW u \in Rows, object[u][k] = Merged(Rows)[k], u \in Inputs(s)
          PROVE  object[s][k] = Merged(Rows)[k]
      <4>1. object[s] = Merged(Inputs(s))
        BY <2>1, <3>3 DEF RunInv, InputsCovered
      <4>2. object[u][k] <= object[s][k]
        BY <3>3, <4>1, EnteredIs, InputsAre
      <4>3. object[s][k] <= Merged(Rows)[k] /\ object[s][k] \in Nat /\ object[u][k] \in Nat
        BY <1>0, <2>1, <3>1, <3>2
      <4> QED
        BY <3>3, <4>2, <4>3
    <3>4. Merged(Rows)[k] = 0 \/ \E u \in Rows : object[u][k] = Merged(Rows)[k]
      BY <1>0, EnteredIs
    <3> QED
      BY <2>3, <3>1, <3>3, <3>4
  <2>5. Merged(Rows) \in [Keys -> 0 .. MaxSeq]
    BY <1>0, EnteredIs
  <2> HIDE DEF S
  <2>6. MergeOf(object, S) = Merged(Rows)
    BY <2>3, <2>4, <2>5, MergeOfIs
  <2> QED
    BY <2>1, <2>2, <2>6 DEF S, Rows
<1>3. ASSUME NEW r \in Runners, NEW x \in RunnerState,
             Rests(r, x) \/ Draws(r, x) \/ Announces(r, x) \/ Starts(r, x) \/ Builds(r, x)
             \/ Releases(r, x) \/ Claiming(r, x)
      PROVE  Rows' = Rows
  BY <1>3 DEF Rests, Draws, Announces, Starts, Builds, Releases, Claiming, Kept, Rows
<1>4. UNCHANGED vars \/ Sends \/ (\E t \in Seqs : Requeues(t)) => Rows' = Rows
  BY DEF vars, Sends, Requeues, Kept, Rows
<1> QED
  BY <1>1, <1>2, <1>3, <1>4, KindIs DEF Turned

\* An upload is what it says: each of its keys gets its number, unless a later one is there.
LEMMA ContentUpload ==
    ASSUME RunInv, Kind, NEW r \in Runners, NEW x \in RunnerState, Records(r, x)
    PROVE  MergeOf(object', Rows') =
               [k \in Keys |-> IF k \in runner[r].keys /\ Merged(Rows)[k] < runner[r].seq THEN runner[r].seq
                               ELSE Merged(Rows)[k]]
<1> DEFINE s == runner[r].seq
           c == Merged(Rows)
           g == [k \in Keys |-> IF k \in runner[r].keys /\ c[k] < s THEN s ELSE c[k]]
<1>0. /\ Rows \subseteq DOMAIN object /\ s \in Seqs /\ s \in 0 .. MaxSeq /\ s \notin DOMAIN object
      /\ MaxSeq \in Nat
  <2>1. s \in Seqs /\ Owns(r, s)
    BY DEF Records, Owns
  <2> QED
    BY <2>1, OwnerNoWork, CompactionConstants DEF RunInv, TypeOK, Seqs
<1>1. c \in [Keys -> 0 .. MaxSeq]
  BY <1>0, EnteredIs
<1>2. g \in [Keys -> 0 .. MaxSeq]
  <2> HIDE DEF c, s
  <2> QED
    BY <1>0, <1>1
<1>3. /\ Rows' = Rows \cup {s}
      /\ object' = Write(object, s, [k \in Keys |-> IF k \in runner[r].keys THEN s ELSE 0])
  BY DEF Records, Write, Rows
<1>4. \A t \in Rows : object'[t] = object[t]
  BY <1>0, ObjectsStep
<1>5. object'[s] = [k \in Keys |-> IF k \in runner[r].keys THEN s ELSE 0]
  BY <1>3 DEF Write
<1>6. Entered(object', Rows')
  BY ObjectsTyped, RowsStep DEF Entered
<1>7. ASSUME NEW k \in Keys
      PROVE  /\ \A t \in Rows' : object'[t][k] <= g[k]
             /\ g[k] = 0 \/ \E t \in Rows' : object'[t][k] = g[k]
  <2>1. /\ \A t \in Rows : object[t][k] <= c[k] /\ object[t][k] \in Nat
        /\ c[k] = 0 \/ \E t \in Rows : object[t][k] = c[k]
        /\ c[k] \in Nat
    BY <1>0, <1>1, EnteredIs DEF RunInv, TypeOK
  <2>2. object'[s][k] = (IF k \in runner[r].keys THEN s ELSE 0)
    BY <1>5
  <2>3. g[k] = IF k \in runner[r].keys /\ c[k] < s THEN s ELSE c[k]
    OBVIOUS
  <2> HIDE DEF g, c, s
  <2>4. \A t \in Rows' : object'[t][k] <= g[k]
    BY <1>0, <1>3, <1>4, <2>1, <2>2, <2>3
  <2>5. g[k] = 0 \/ \E t \in Rows' : object'[t][k] = g[k]
    BY <1>0, <1>3, <1>4, <2>1, <2>2, <2>3
  <2> QED
    BY <2>4, <2>5
<1> HIDE DEF g, c, s
<1>8. MergeOf(object', Rows') = g
  BY <1>2, <1>6, <1>7, MergeOfIs
<1> QED
  BY <1>8 DEF g, c, s

\* What the runs come to only grows.
LEMMA ContentGrows ==
    ASSUME RunInv, Kind
    PROVE  \A k \in Keys : /\ Merged(Rows)[k] <= MergeOf(object', Rows')[k]
                           /\ Merged(Rows)[k] \in Nat /\ MergeOf(object', Rows')[k] \in Nat
<1>1. Merged(Rows) \in [Keys -> 0 .. MaxSeq]
  BY EnteredIs DEF RunInv, TypeOK
<1>2. CASE ~\E r \in Runners, x \in RunnerState : Records(r, x)
  BY <1>1, <1>2, ContentSame
<1>3. ASSUME NEW r \in Runners, NEW x \in RunnerState, Records(r, x), NEW k \in Keys
      PROVE  /\ Merged(Rows)[k] <= MergeOf(object', Rows')[k]
             /\ Merged(Rows)[k] \in Nat /\ MergeOf(object', Rows')[k] \in Nat
  <2>1. MergeOf(object', Rows')[k] =
            IF k \in runner[r].keys /\ Merged(Rows)[k] < runner[r].seq THEN runner[r].seq ELSE Merged(Rows)[k]
    BY <1>3, ContentUpload
  <2>2. runner[r].seq \in Nat /\ Merged(Rows)[k] \in Nat
    BY <1>1, <1>3 DEF Records, Seqs
  <2> QED
    BY <2>1, <2>2
<1> QED
  BY <1>2, <1>3

LEMMA ContentStep == ASSUME RunInv, Kind PROVE ContentHolds'
<1> SUFFICES ASSUME NEW t \in DOMAIN object', NEW k \in Keys
             PROVE  object'[t][k] <= MergeOf(object', Rows')[k]
  BY MergedIs DEF ContentHolds, Merged, MergeOf
<1>0. /\ Merged(Rows)[k] <= MergeOf(object', Rows')[k]
      /\ Merged(Rows)[k] \in Nat /\ MergeOf(object', Rows')[k] \in Nat
  BY ContentGrows
<1>1. \A s \in DOMAIN object : object[s][k] <= Merged(Rows)[k] /\ object[s][k] \in Nat
  BY DEF RunInv, TypeOK, ContentHolds
<1>2. CASE t \in DOMAIN object
  BY <1>0, <1>1, <1>2, ObjectsStep
<1>3. ASSUME t \in Rows' PROVE object'[t][k] <= MergeOf(object', Rows')[k]
  <2>1. Entered(object', Rows')
    BY ObjectsTyped, RowsStep DEF Entered
  <2> QED
    BY <1>3, <2>1, MergeOfHas
<1>4. ASSUME NEW L \in SUBSET Seqs, t \in Seqs, Works(t, L), object'[t] = Merged(L)
      PROVE  object'[t][k] <= MergeOf(object', Rows')[k]
  <2>1. L \subseteq DOMAIN object
    BY <1>4 DEF RunInv, WorksAgree, Agrees
  <2>2. Merged(L)[k] = 0 \/ \E s \in L : object[s][k] = Merged(L)[k]
    BY <2>1, EnteredIs
  <2> QED
    BY <1>0, <1>1, <1>4, <2>1, <2>2
<1> QED
  BY <1>2, <1>3, <1>4, ObjectsStep

LEMMA SplitGrows == ASSUME RunInv, Kind PROVE DOMAIN split \subseteq DOMAIN split'
<1>1. ASSUME NEW r \in Runners, NEW x \in RunnerState, Turned(r, x) PROVE DOMAIN split \subseteq DOMAIN split'
  BY <1>1 DEF Turned, Rests, Draws, Announces, Releases, Claiming, Starts, Records, Builds, Swaps, Kept
<1>2. UNCHANGED vars \/ Sends \/ (\E t \in Seqs : Requeues(t)) => split' = split
  BY DEF vars, Sends, Requeues, Kept
<1> QED
  BY <1>1, <1>2, KindIs

\* What a runner's record says, of any objects and compactions.
TrueOf(x, obj, spl) ==
    /\ x.pc # "idle" => x.job # NoJob
    /\ x.pc \in {"tier", "after"} => x.job # CommitJob
    /\ x.pc \in {"record", "claim", "queue", "release"} => x.seq # NoRun
    /\ x.pc \in {"merge", "plan", "slice", "sliced", "finish", "swap"} => x.seq # NoRun /\ Concerns(x.job, x.seq)
    /\ x.pc \in {"slice", "sliced"} => x.seq \in DOMAIN spl
    /\ x.pc = "slice" => \E k \in Keys : x.job = PieceJob(x.seq, k)
    /\ x.pc \in {"finish", "swap"} => x.seq \in DOMAIN obj
    /\ x.pc = "commit" => x.list \subseteq DOMAIN obj
    /\ x.pc \in {"number", "claim", "queue"} /\ x.job = CommitJob => Cardinality(x.list) <= x.count + 1

LEMMA RunnersAre ==
    /\ RunnersTrue <=> \A r \in Runners : TrueOf(runner[r], object, split)
    /\ RunnersTrue' <=> \A r \in Runners : TrueOf(runner'[r], object', split')
  BY DEF RunnersTrue, TrueOf

LEMMA TurnTrue ==
    ASSUME RunInv, NEW r \in Runners, NEW x \in RunnerState, Turned(r, x)
    PROVE  TrueOf(x, object', split')
<1>0. /\ TrueOf(runner[r], object, split) /\ Kind
      /\ Rows \subseteq DOMAIN object /\ DOMAIN object \subseteq DOMAIN object' /\ DOMAIN split \subseteq DOMAIN split'
  <2>1. Kind
    BY DEF Kind, Turned
  <2> QED
    BY <2>1, RunnersAre, ObjectsStep, SplitGrows DEF RunInv, TypeOK
<1>a. \A s \in Seqs : s # NoRun
  BY DEF Seqs, NoRun
<1>1. CASE Rests(r, x)
  <2>1. /\ x.pc \notin {"record", "claim", "queue", "release", "merge", "plan", "slice", "sliced", "finish"}
        /\ x.pc = "swap" => runner[r].pc = "finish" /\ x.seq = runner[r].seq /\ x.job = runner[r].job
        /\ x.pc # "idle" => x.job # NoJob
        /\ x.pc \in {"tier", "after"} => x.job # CommitJob
        /\ x.pc = "commit" => x.list = Rows
        /\ x.pc = "number" /\ x.job = CommitJob => Cardinality(x.list) <= x.count + 1
    BY <1>1 DEF Rests
  <2> QED
    BY <1>0, <2>1 DEF TrueOf
<1>2. CASE Draws(r, x)
  <2>1. x.pc \in {"record", "claim"} /\ x.seq # NoRun /\ x.job # NoJob
        /\ (x.pc = "claim" /\ x.job = CommitJob => Cardinality(x.list) <= x.count + 1)
    BY <1>2, <1>a DEF Draws
  <2> QED
    BY <2>1 DEF TrueOf
<1>3. CASE Announces(r, x) \/ Releases(r, x)
  <2>1. x.pc \in {"group", "idle"} /\ (x.pc # "idle" => x.job # NoJob)
    BY <1>3 DEF Announces, Releases, LetsGo
  <2> QED
    BY <2>1 DEF TrueOf
<1>4. CASE Claiming(r, x)
  <2>1. /\ runner[r].pc = "claim" /\ x.pc \in {"queue", "release"}
        /\ x.seq = runner[r].seq /\ x.job = runner[r].job /\ x.list = runner[r].list /\ x.count = runner[r].count
    BY <1>4 DEF Claiming
  <2> QED
    BY <1>0, <2>1 DEF TrueOf
<1>5. CASE Starts(r, x)
  <2>0. jobs \subseteq Held
    BY DEF Held
  <2>1. x.seq \in Seqs /\ Concerns(x.job, x.seq) /\ x.job \in Held /\ x.pc \in {"merge", "plan", "slice", "sliced"}
    BY <1>5, <2>0 DEF Starts
  <2>2. x.job # NoJob
    BY <2>1, MessageNumbers
  <2>3. CASE x.pc \in {"merge", "plan"}
    BY <1>a, <2>1, <2>2, <2>3 DEF TrueOf
  <2>4. CASE x.pc \in {"slice", "sliced"}
    <3>1. PICK k \in Keys : x.job = PieceJob(x.seq, k)
      BY <1>5, <2>4 DEF Starts
    <3>2. x.seq \in DOMAIN split'
      BY <1>0, <2>1, <3>1 DEF RunInv, PiecesPlanned
    <3> QED
      BY <1>a, <2>1, <2>2, <2>4, <3>1, <3>2 DEF TrueOf
  <2> QED
    BY <2>1, <2>3, <2>4
<1>6. CASE Records(r, x)
  <2>1. x.pc = "tier" /\ x.job # NoJob /\ x.job # CommitJob
    BY <1>6 DEF Records, UploadJob, NoJob, CommitJob
  <2> QED
    BY <2>1 DEF TrueOf
<1>7. CASE Builds(r, x)
  <2>1. x.pc = "idle" => TrueOf(x, object', split')
    BY DEF TrueOf
  <2>2. runner[r].seq # NoRun /\ Concerns(runner[r].job, runner[r].seq) /\ runner[r].job # NoJob
    BY <1>0, <1>7 DEF Builds, TrueOf
  <2>3. ASSUME x.pc = "sliced", x.seq = runner[r].seq, x.job = runner[r].job, runner[r].seq \in DOMAIN split'
        PROVE  TrueOf(x, object', split')
    BY <2>2, <2>3 DEF TrueOf
  <2>4. ASSUME x.pc = "finish", x.seq = runner[r].seq, x.job = runner[r].job,
               \E L \in SUBSET Seqs : object' = Write(object, runner[r].seq, Merged(L))
        PROVE  TrueOf(x, object', split')
    <3>1. runner[r].seq \in DOMAIN object'
      BY <2>4 DEF Write
    <3> QED
      BY <2>2, <2>4, <3>1 DEF TrueOf
  <2> QED
    BY <1>7, <2>1, <2>3, <2>4 DEF Builds
<1>8. CASE Swaps(r, x)
  <2>1. Concerns(runner[r].job, runner[r].seq) /\ runner[r].job # NoJob
    BY <1>0, <1>8 DEF Swaps, TrueOf
  <2>2. runner[r].job # CommitJob
    BY <2>1, MessageNumbers
  <2> QED
    BY <1>8, <2>1, <2>2 DEF Swaps, TrueOf
<1> QED
  BY <1>1, <1>2, <1>3, <1>4, <1>5, <1>6, <1>7, <1>8 DEF Turned

LEMMA RunnersStep == ASSUME RunInv, Kind PROVE RunnersTrue' /\ runner' \in [Runners -> RunnerState]
<1>0. /\ \A q \in Runners : TrueOf(runner[q], object, split)
      /\ DOMAIN object \subseteq DOMAIN object' /\ DOMAIN split \subseteq DOMAIN split'
      /\ runner \in [Runners -> RunnerState]
  BY RunnersAre, ObjectsStep, SplitGrows DEF RunInv, TypeOK
<1>1. ASSUME NEW y, TrueOf(y, object, split) PROVE TrueOf(y, object', split')
  BY <1>0, <1>1 DEF TrueOf
<1>2. ASSUME UNCHANGED vars \/ Sends \/ \E t \in Seqs : Requeues(t) PROVE runner' = runner
  BY <1>2 DEF vars, Sends, Requeues
<1>3. CASE runner' = runner
  BY <1>0, <1>1, <1>3, RunnersAre
<1>4. ASSUME NEW r \in Runners, NEW x \in RunnerState, Turned(r, x)
      PROVE  RunnersTrue' /\ runner' \in [Runners -> RunnerState]
  <2>1. \A q \in Runners : TrueOf(runner'[q], object', split')
    BY <1>0, <1>1, <1>4, TurnTaken, TurnTrue
  <2> QED
    BY <1>4, <2>1, TurnTaken, RunnersAre
<1> QED
  BY <1>2, <1>3, <1>4, KindIs

LEMMA PiecesStep == ASSUME RunInv, Kind PROVE PiecesPlanned'
<1> SUFFICES ASSUME NEW s \in Seqs, NEW k \in Keys, PieceJob(s, k) \in Held' PROVE s \in DOMAIN split'
  BY DEF PiecesPlanned
<1>1. CASE PieceJob(s, k) \in Held
  BY <1>1, SplitGrows DEF RunInv, PiecesPlanned
<1>2. CASE Sent(PieceJob(s, k))
  <2>1. \A t : PieceJob(s, k) # CompactJob(t)
    BY DEF PieceJob, CompactJob
  <2>2. \A t, j : PieceJob(s, k) = PieceJob(t, j) => s = t
    BY DEF PieceJob
  <2> QED
    BY <1>2, <2>1, <2>2 DEF Sent
<1>3. PieceJob(s, k) \notin {CommitJob, UploadJob, NoJob}
  BY DEF PieceJob, CommitJob, UploadJob, NoJob
<1> QED
  BY <1>1, <1>2, <1>3, HeldStep

LEMMA NoneStep == ASSUME RunInv, Kind PROVE NoneIntoItself'
<1> SUFFICES ASSUME NEW t \in Rows', row'[t].into = t PROVE FALSE
  BY DEF NoneIntoItself
<1>1. t \in Seqs /\ t \in Inputs(t)'
  BY RowsStep DEF Inputs
<1>2. t \notin Inputs(t)
  BY DEF Inputs, RunInv, NoneIntoItself
<1>3. PICK r \in Runners : Owns(r, t) /\ UNCHANGED object
  BY <1>1, <1>2, InputsStep
<1>4. t \in DOMAIN object
  BY <1>3, RowsStep
<1> QED
  BY <1>1, <1>3, <1>4, OwnerNoWork

-----------------------------------------------------------------------------
(* The theorems.                                                           *)

LEMMA InitInv == ASSUME Init PROVE RunInv
<1>0. /\ DOMAIN row = {} /\ DOMAIN object = {} /\ DOMAIN split = {} /\ jobs = {} /\ faults = 0
      /\ \A r \in Runners : runner[r] = Idle
      /\ runner \in [Runners -> RunnerState]
  BY IdleTyped DEF Init
<1>1. /\ Idle.pc = "idle" /\ Idle.seq = NoRun /\ Idle.job = NoJob
  BY DEF Idle
<1>2. Rows = {} /\ \A s : Inputs(s) = {}
  BY <1>0 DEF Rows, Inputs
<1>3. \A m \in Held : m = NoJob
  BY <1>0, <1>1 DEF Held
<1>4. session \in SessionRow /\ session.runs = 0 /\ faults \in 0 .. MaxFaults
  <2>1. 0 \in 0 .. MaxSeq /\ 0 \in 0 .. MaxStalls /\ 0 \in 0 .. Len(Batches) /\ 0 \in 0 .. Reopens
        /\ 0 \in 0 .. MaxFaults
    BY CompactionConstants
  <2> QED
    BY <1>0, <2>1 DEF Init, SessionRow
<1>5. TypeOK
  BY <1>0, <1>2, <1>4 DEF TypeOK
<1>6. NumbersDrawn
  BY <1>0, <1>1, <1>2, <1>3, <1>4, MessageNumbers DEF NumbersDrawn, NoRun
<1>7. OwnersAlone
  BY <1>0, <1>1 DEF OwnersAlone, Owns
<1>8. WorksAgree
  BY <1>0, <1>1 DEF WorksAgree, Works
<1>9. InputsCovered /\ ContentHolds /\ NoneIntoItself
  BY <1>0, <1>2 DEF InputsCovered, ContentHolds, NoneIntoItself
<1>10. RunnersTrue
  BY <1>0, <1>1 DEF RunnersTrue
<1>11. PiecesPlanned
  <2>1. \A s, k : PieceJob(s, k) # NoJob
    BY DEF PieceJob, NoJob
  <2> QED
    BY <1>3, <2>1 DEF PiecesPlanned
<1> QED
  BY <1>0, <1>5, <1>6, <1>7, <1>8, <1>9, <1>10, <1>11 DEF RunInv

LEMMA InvStep == ASSUME RunInv, [Next]_vars PROVE RunInv'
<1>0. Kind
  BY StepKind
<1>1. TypeOK'
  <2>1. \A s \in DOMAIN split' : split'[s].inputs \subseteq Seqs /\ split'[s].done \subseteq Keys
    BY SplitStep DEF SplitTyped, SplitRow
  <2> QED
    BY <1>0, <2>1, SessionTyped, JobsTyped, RowsStep, ObjectsTyped, RunnersStep DEF TypeOK, Rows
<1>2. \A s \in DOMAIN split' : split'[s] \in SplitRow
  BY SplitStep DEF SplitTyped
<1> QED
  BY <1>0, <1>1, <1>2, NumbersStep, OwnersStep, WorksStep, CoveredStep, ContentStep, RunnersStep, NoneStep,
     PiecesStep
     DEF RunInv

LEMMA InvHolds == Spec => []RunInv
<1>1. Init => RunInv
  BY InitInv
<1>2. RunInv /\ [Next]_vars => RunInv'
  BY InvStep
<1> QED
  BY <1>1, <1>2, PTL DEF Spec

\* The rows, objects, messages and what each job holds have the types of their columns, and
\* every row has its object: the merged run's row never goes in before what it names is
\* written, and no upload's does (runs.ts, compact.ts finishCompaction).
THEOREM TypeCorrect == Spec => []TypeOK
<1>1. RunInv => TypeOK
  BY DEF RunInv
<1> QED
  BY <1>1, InvHolds, PTL

LEMMA PromiseInit == ASSUME Init PROVE Promise!Init
<1>1. Rows = {} /\ \A r \in Runners : runner[r].pc = "idle"
  BY DEF Init, Rows, Idle
<1>2. Merged(Rows) = [k \in Keys |-> 0]
  <2>1. [k \in Keys |-> 0] \in [Keys -> 0 .. MaxSeq] /\ Entered(object, {})
    BY CompactionConstants DEF Entered
  <2>2. MergeOf(object, {}) = [k \in Keys |-> 0]
    <3> DEFINE g == [k \in Keys |-> 0]
               h == MergeOf(object, {})
    <3>1. \A k \in Keys : g[k] = 0
      OBVIOUS
    <3>2. h \in [Keys -> 0 .. MaxSeq] /\ \A k \in Keys : h[k] = 0
      BY <2>1, MergeOfHas
    <3> HIDE DEF g, h
    <3>3. \A k \in Keys : h[k] = g[k]
      BY <3>1, <3>2
    <3> QED
      BY <2>1, <3>2, <3>3 DEF g, h
  <2> QED
    BY <1>1, <2>2, MergedIs
<1> QED
  BY <1>1, <1>2 DEF Promise!Init

\* What a commit has read, in the terms of Uploads.
Seen(r) == IF runner[r].pc = "commit" THEN Merged(runner[r].list) ELSE Unread

LEMMA SeenStays ==
    ASSUME RunInv, Kind, NEW q \in Runners, runner'[q] = runner[q] PROVE Seen(q)' = Seen(q)
<1>1. CASE runner[q].pc = "commit"
  <2>1. runner[q].list \subseteq DOMAIN object
    BY <1>1 DEF RunInv, RunnersTrue
  <2>2. MergeOf(object', runner[q].list) = Merged(runner[q].list)
    BY <2>1, MergeStays
  <2> QED
    BY <1>1, <2>2 DEF Seen, Merged, MergeOf
<1> QED
  BY <1>1 DEF Seen

LEMMA PromiseStep ==
    ASSUME RunInv, Kind
    PROVE  Promise!Next \/ UNCHANGED <<Merged(Rows), [r \in Runners |-> Seen(r)]>>
<1> DEFINE content == Merged(Rows)
           seen == [r \in Runners |-> Seen(r)]
<1>0. content' = MergeOf(object', Rows')
  BY MergedIs DEF Merged, MergeOf
<1>1. ASSUME NEW r \in Runners, NEW x \in RunnerState, Records(r, x) PROVE Promise!Next
  <2> DEFINE q == runner[r].seq
             K == runner[r].keys
  <2>1. q \in Seqs /\ K \in SUBSET Keys /\ runner[r].pc = "record" /\ x.pc = "tier" /\ Turned(r, x)
    BY <1>1 DEF Records, Turned, RunInv, TypeOK, RunnerState
  <2>2. \A p \in Runners : Seen(p)' = Seen(p)
    <3>1. Seen(r)' = Seen(r)
      BY <2>1, TurnTaken DEF Seen
    <3>2. ASSUME NEW p \in Runners, p # r PROVE Seen(p)' = Seen(p)
      BY <2>1, <3>2, TurnTaken, SeenStays
    <3> QED
      BY <3>1, <3>2
  <2>3. seen' = seen
    BY <2>2
  <2>4. content' = [k \in Keys |-> IF k \in K /\ content[k] < q THEN q ELSE content[k]]
    BY <1>0, <1>1, ContentUpload
  <2>5. Promise!Upload(q, K)
    BY <2>3, <2>4 DEF Promise!Upload, Seen
  <2> QED
    BY <2>1, <2>5 DEF Promise!Next
<1>2. ASSUME NEW r \in Runners, NEW x \in RunnerState, Turned(r, x), ~Records(r, x), content' = content
      PROVE  Promise!Next
  <2>1. \A p \in Runners : p # r => Seen(p)' = Seen(p)
    BY <1>2, TurnTaken, SeenStays
  <2>2. CASE x.pc = "commit"
    <3>1. x.list = Rows /\ runner'[r] = x /\ Rows \subseteq DOMAIN object
      BY <1>2, <2>2, TurnTaken
         DEF Turned, Rests, Draws, Announces, Releases, LetsGo, Claiming, Starts, Records, Builds, Swaps,
             RunInv, TypeOK
    <3>2. MergeOf(object', Rows) = content
      BY <3>1, MergeStays
    <3>3. Seen(r)' = content
      BY <2>2, <3>1, <3>2 DEF Seen, Merged, MergeOf
    <3>4. seen' = [seen EXCEPT ![r] = content]
      BY <2>1, <3>3
    <3>5. Promise!Read(r)
      BY <1>2, <3>4 DEF Promise!Read, Seen
    <3> QED
      BY <3>5 DEF Promise!Next
  <2>3. CASE x.pc # "commit"
    <3>1. Seen(r)' = Unread
      BY <1>2, <2>3, TurnTaken DEF Seen
    <3>2. seen' = [seen EXCEPT ![r] = Unread]
      BY <2>1, <3>1
    <3>3. Promise!Forget(r)
      BY <1>2, <3>2 DEF Promise!Forget, Seen
    <3> QED
      BY <3>3 DEF Promise!Next
  <2> QED
    BY <2>2, <2>3
<1>3. CASE ~\E r \in Runners, x \in RunnerState : Records(r, x)
  <2>1. content' = content
    BY <1>0, <1>3, ContentSame
  <2>2. ASSUME runner' = runner PROVE seen' = seen
    <3>1. \A p \in Runners : Seen(p)' = Seen(p)
      BY <2>2, SeenStays
    <3> QED
      BY <3>1
  <2>3. UNCHANGED vars \/ Sends \/ (\E s \in Seqs : Requeues(s)) => runner' = runner
    BY DEF vars, Sends, Requeues
  <2> QED
    BY <1>2, <1>3, <2>1, <2>2, <2>3, KindIs
<1> QED
  BY <1>1, <1>3

\* Runs, merged in any groups by any jobs, are the session's uploads, and a commit reads all of
\* them as they were at one moment (compact.ts 22-26, runs.ts 30-35): an upload is recorded in
\* one step, a commit reads in one, and no step of a compaction changes what the runs come to,
\* whatever is lost, repeated or late.
THEOREM Implements == Spec => ImplementsUploads
<1>1. Init => Promise!Init
  BY PromiseInit
<1>2. RunInv /\ [Next]_vars =>
        [Promise!Next]_<<Merged(Rows), [r \in Runners |-> IF runner[r].pc = "commit"
                                                          THEN Merged(runner[r].list) ELSE Unread]>>
  BY StepKind, PromiseStep DEF Seen
<1> QED
  BY <1>1, <1>2, InvHolds, PTL DEF ImplementsUploads, Promise!Spec, Spec
=============================================================================
