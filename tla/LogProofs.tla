-------------------------------- MODULE LogProofs --------------------------------
(***************************************************************************)
(* Proofs about the two logs that follow a publish: VersionLog, for any    *)
(* workers, keys and number of versions, with and without failures, and R, *)
(* the reference log, whose state RefLogRows declares.                     *)
(***************************************************************************)
EXTENDS VersionLog, RefLogRows, SequenceTheorems, FiniteSetTheorems, TLAPS

\* An append is under way, past its look at head.json.
Placing(x) == x.pc \in {"readInfo", "putEntry", "putHead"} \/ (x.pc = "writeInfo" /\ x.task # "info")

\* Whoever appends has a version that is published, and sees entries up to the one before.
InOrder(x) ==
    /\ x.task \in {"commit", "repair"} => x.v \in 1 .. count /\ x.last \in x.v .. count
    /\ x.pc = "idle" => x.task = "none"
    /\ x.pc \notin {"idle", "writeInfo"} => x.task \in {"commit", "repair"}
    /\ x.pc = "announce" => x.task = "commit"
    /\ Placing(x) =>
          /\ x.task # "none" /\ Len(x.prev) + 1 = x.v
          /\ \A m \in 1 .. x.v - 1 : InLog(m)
    /\ x.pc = "putHead" => InLog(x.v)

AppendsInOrder == Len(head) <= count /\ \A a \in Workers : InOrder(worker[a])

LogInv ==
    TypeOK /\ HeadHasEntries /\ LogHasNoGaps /\ Announces /\ AppendsInOrder

-----------------------------------------------------------------------------
(* What a step does to the worker that takes it.                           *)

\* The version of a commit stays with its worker, or is announced or given up.
Carried(a, x) ==
    worker[a].task = "commit" =>
        (x.task = "commit" /\ x.v = worker[a].v) \/ worker[a].v \in announced' \cup missed'

Moves(a, x) ==
    /\ x \in WorkerState /\ worker' = [worker EXCEPT ![a] = x]
    /\ InOrder(x)' /\ Carried(a, x)

\* Only the versions' number and the log matter to the order of appends, and both grow.
Grows == count <= count' /\ \A n \in Versions : InLog(n) => InLog(n)'

LEMMA OrderKept ==
    ASSUME TypeOK, TypeOK', Grows, NEW x \in WorkerState, InOrder(x)
    PROVE  InOrder(x)'
<1>1. count \in Nat /\ count' \in Nat /\ count <= MaxVersions /\ MaxVersions \in Nat /\ x.v \in Nat /\ x.last \in Nat
  BY LogConstants DEF TypeOK, WorkerState
<1>2. x.task \in {"commit", "repair"} => x.v \in 1 .. count' /\ x.last \in x.v .. count'
  BY <1>1 DEF InOrder, Grows
<1>3. Placing(x) => x.task \in {"commit", "repair"}
  BY DEF InOrder, Placing, WorkerState, Tasks
<1>4. Placing(x) => x.v \in Versions /\ \A m \in 1 .. x.v - 1 : m \in Versions
  <2>1. Placing(x) => x.v \in 1 .. count
    BY <1>3 DEF InOrder
  <2> QED
    BY <1>1, <2>1 DEF Versions
<1>5. x.pc = "putHead" => x.v \in Versions
  BY <1>4 DEF Placing
<1>6. Placing(x) => \A m \in 1 .. x.v - 1 : InLog(m)'
  BY <1>4 DEF InOrder, Grows
<1>7. x.pc = "putHead" => InLog(x.v)'
  BY <1>5 DEF InOrder, Grows
<1> QED
  BY <1>2, <1>6, <1>7 DEF InOrder, InLog

\* One worker's record changes at most, in order.
Settled(a) == (\E x : Moves(a, x)) \/ worker' = worker

\* As long as the versions and the entries stay, so does the order.
LEMMA OrderSame ==
    ASSUME UNCHANGED <<count, entries>>, NEW x, InOrder(x) PROVE InOrder(x)'
  BY DEF InOrder, InLog, Placing

\* A step of an append that only goes on, with its version, or ends.
Passes(a, x) ==
    /\ x \in WorkerState /\ worker' = [worker EXCEPT ![a] = x] /\ InOrder(x)
    /\ worker[a].task = "commit" => x.task = "commit" /\ x.v = worker[a].v

LEMMA PassesMoves ==
    ASSUME NEW a \in Workers, NEW x, Passes(a, x), UNCHANGED <<count, entries>>
    PROVE  Moves(a, x)
  BY OrderSame DEF Passes, Moves, Carried

LEMMA IdleTyped == ASSUME NEW k \in Keys PROVE Idle(k) \in WorkerState /\ InOrder(Idle(k))
<1>1. Idle(k) \in WorkerState
  BY LogConstants, EmptySeq DEF Idle, WorkerState, Pcs, Tasks
<1> QED
  BY <1>1 DEF Idle, InOrder, Placing

LEMMA StopMoves ==
    ASSUME TypeOK, NEW a \in Workers, worker[a].task # "commit", Stop(a)
    PROVE  \E x : Passes(a, x)
  BY IdleTyped DEF Stop, Passes, TypeOK, WorkerState

LEMMA GotoMoves ==
    ASSUME TypeOK, NEW a \in Workers, NEW pc \in Pcs, Goto(a, pc),
           InOrder([worker[a] EXCEPT !.pc = pc])
    PROVE  \E x : Passes(a, x)
<1> DEFINE x == [worker[a] EXCEPT !.pc = pc]
<1>1. x \in WorkerState /\ x.task = worker[a].task /\ x.v = worker[a].v
  BY DEF TypeOK, WorkerState
<1>2. worker' = [worker EXCEPT ![a] = x]
  BY DEF Goto
<1>3. InOrder(x)
  OBVIOUS
<1> HIDE DEF x
<1> QED
  BY <1>1, <1>2, <1>3 DEF Passes

\* Appends of a commit end in an announcement; a repair goes on to its next version.
LEMMA AppendedMoves ==
    ASSUME TypeOK, AppendsInOrder, NEW a \in Workers, worker[a].pc \in {"readHead", "putHead"}, Appended(a)
    PROVE  \E x : Passes(a, x)
<1>0. worker[a] \in WorkerState /\ InOrder(worker[a]) /\ worker[a].task \in {"commit", "repair"}
  BY DEF TypeOK, AppendsInOrder, InOrder
<1>1. CASE worker[a].task = "commit"
  <2>1. Goto(a, "announce")
    BY <1>1 DEF Appended
  <2>2. InOrder([worker[a] EXCEPT !.pc = "announce"])
    BY <1>0, <1>1 DEF InOrder, WorkerState, Placing
  <2> QED
    BY <2>1, <2>2, GotoMoves DEF Pcs
<1>2. CASE worker[a].task = "repair" /\ worker[a].v < worker[a].last
  <2> DEFINE x == [worker[a] EXCEPT !.pc = "readHead", !.v = worker[a].v + 1]
  <2>1. worker' = [worker EXCEPT ![a] = x]
    BY <1>2 DEF Appended
  <2>2. worker[a].v \in Nat /\ worker[a].last \in 0 .. MaxVersions /\ count \in Nat
    BY <1>0 DEF WorkerState, TypeOK
  <2>3. worker[a].v + 1 \in 0 .. MaxVersions
    BY <1>2, <2>2, LogConstants
  <2>4. x \in WorkerState /\ x.pc = "readHead" /\ x.task = "repair" /\ x.v = worker[a].v + 1
        /\ x.last = worker[a].last
    BY <1>0, <1>2, <2>3 DEF WorkerState, Pcs
  <2> HIDE DEF x
  <2>5. x.v \in 1 .. count /\ x.last \in x.v .. count
    BY <1>0, <1>2, <2>2, <2>4 DEF InOrder
  <2> QED
    BY <1>2, <2>1, <2>4, <2>5 DEF Passes, InOrder, Placing
<1>3. CASE worker[a].task = "repair" /\ ~(worker[a].v < worker[a].last)
  BY <1>3, StopMoves DEF Appended
<1> QED
  BY <1>0, <1>1, <1>2, <1>3

LEMMA ThrowMoves ==
    ASSUME TypeOK, AppendsInOrder, NEW a \in Workers, Throw(a)
    PROVE  \E x : Passes(a, x)
<1>0. worker[a] \in WorkerState /\ InOrder(worker[a])
  BY DEF TypeOK, AppendsInOrder
<1>1. CASE worker[a].task = "commit"
  <2>1. Goto(a, "announce")
    BY <1>1 DEF Throw
  <2>2. InOrder([worker[a] EXCEPT !.pc = "announce"])
    BY <1>0, <1>1 DEF InOrder, WorkerState, Placing
  <2> QED
    BY <2>1, <2>2, GotoMoves DEF Pcs
<1>2. CASE worker[a].task # "commit"
  BY <1>2, StopMoves DEF Throw
<1> QED
  BY <1>1, <1>2

-----------------------------------------------------------------------------
(* The steps that leave the versions and the entries alone.                *)

LEMMA ReadingMoves ==
    ASSUME TypeOK, HeadHasEntries, AppendsInOrder, NEW a \in Workers,
           StartRepair(a) \/ StartInfo(a) \/ ReadHead(a) \/ ReadInfo(a) \/ WriteInfo(a) \/ PutHead(a)
           \/ Fail(a)
    PROVE  Settled(a)
<1>0. worker[a] \in WorkerState /\ InOrder(worker[a]) /\ key \in Keys /\ count \in Nat
      /\ Len(head) \in Nat /\ head \in Seq(Keys) /\ count <= MaxVersions
  BY LogConstants DEF TypeOK, AppendsInOrder
<1>1. UNCHANGED <<count, entries>>
  BY DEF StartRepair, StartInfo, ReadHead, ReadInfo, WriteInfo, PutHead, Fail
<1> SUFFICES (\E x : Passes(a, x)) \/ worker' = worker
  BY <1>1, PassesMoves DEF Settled
<1>2. CASE StartRepair(a)
  <2> DEFINE x == [Idle(key) EXCEPT !.pc = "readHead", !.task = "repair",
                                    !.v = Len(head) + 1, !.last = count]
  <2>1. CASE Len(head) < count
    <3>0. Len(head) + 1 \in 0 .. MaxVersions /\ count \in 0 .. MaxVersions
      BY <1>0, <2>1, LogConstants
    <3>1. x = [Idle(key) EXCEPT !.pc = "readHead", !.task = "repair", !.v = Len(head) + 1, !.last = count]
      OBVIOUS
    <3>2. ~(Len(head) >= count)
      BY <1>0, <2>1
    <3>3. worker' = [worker EXCEPT ![a] = x] /\ worker[a].pc = "idle"
      BY <1>2, <3>2, Zenon DEF StartRepair
    <3>4. "readHead" \in Pcs /\ "repair" \in Tasks
      BY DEF Pcs, Tasks
    <3> HIDE DEF x
    <3>5. x \in WorkerState /\ x.pc = "readHead" /\ x.task = "repair" /\ x.v = Len(head) + 1
          /\ x.last = count
      BY <1>0, <3>0, <3>1, <3>4, IdleTyped DEF WorkerState
    <3>6. InOrder(x)
      BY <1>0, <2>1, <3>5 DEF InOrder, Placing
    <3>7. worker[a].task # "commit"
      BY <1>0, <3>3 DEF InOrder
    <3> QED
      BY <3>3, <3>5, <3>6, <3>7 DEF Passes
  <2> QED
    BY <1>0, <1>2, <2>1 DEF StartRepair
<1>3. CASE StartInfo(a)
  <2> DEFINE x == [Idle(key) EXCEPT !.pc = "writeInfo", !.task = "info", !.keys = listed]
  <2>1. x \in WorkerState /\ x.pc = "writeInfo" /\ x.task = "info"
    BY <1>0, IdleTyped DEF Idle, WorkerState, Pcs, Tasks, TypeOK
  <2>2. worker' = [worker EXCEPT ![a] = x] /\ worker[a].task # "commit"
    BY <1>0, <1>3 DEF StartInfo, InOrder
  <2> HIDE DEF x
  <2> QED
    BY <2>1, <2>2 DEF Passes, InOrder, Placing
<1>4. CASE ReadHead(a)
  <2>1. CASE Appended(a)
    BY <1>4, <2>1, AppendedMoves DEF ReadHead
  <2>2. CASE Throw(a)
    BY <2>2, ThrowMoves
  <2>3. CASE CanAppend(a) /\ worker' = [worker EXCEPT ![a].pc = "readInfo", ![a].prev = head]
    <3> DEFINE x == [worker[a] EXCEPT !.pc = "readInfo", !.prev = head]
    <3>1. /\ x \in WorkerState /\ x.pc = "readInfo" /\ x.prev = head
          /\ x.task = worker[a].task /\ x.v = worker[a].v /\ x.last = worker[a].last
      BY <1>0 DEF WorkerState, Pcs
    <3>2. worker' = [worker EXCEPT ![a] = x] /\ worker[a].pc = "readHead"
      BY <1>4, <2>3 DEF ReadHead
    <3> HIDE DEF x
    <3>3. Len(x.prev) + 1 = x.v /\ x.task \in {"commit", "repair"}
      BY <1>0, <2>3, <3>1, <3>2 DEF CanAppend, InOrder
    <3>4. \A m \in 1 .. x.v - 1 : InLog(m)
      <4> SUFFICES ASSUME NEW m \in 1 .. x.v - 1 PROVE InLog(m)
        OBVIOUS
      <4>1. m \in Nat /\ 1 <= m /\ m <= Len(head)
        BY <1>0, <3>1, <3>3
      <4>2. Len(head) <= MaxVersions
        BY <1>0, LogConstants DEF AppendsInOrder
      <4>3. m \in Versions
        BY <1>0, <4>1, <4>2, LogConstants DEF Versions
      <4> QED
        BY <4>1, <4>3 DEF HeadHasEntries
    <3>5. InOrder(x)
      BY <1>0, <3>1, <3>3, <3>4 DEF InOrder
    <3> QED
      BY <3>1, <3>2, <3>5 DEF Passes
  <2> QED
    BY <1>4, <2>1, <2>2, <2>3 DEF ReadHead
<1>5. CASE ReadInfo(a)
  <2>0. worker[a].pc = "readInfo"
    BY <1>5 DEF ReadInfo
  <2>1. CASE Goto(a, "putEntry")
    <3>1. InOrder([worker[a] EXCEPT !.pc = "putEntry"])
      BY <1>0, <2>0 DEF InOrder, WorkerState, Placing
    <3> QED
      BY <2>1, <3>1, GotoMoves DEF Pcs
  <2>2. CASE worker' = [worker EXCEPT ![a].pc = "writeInfo", ![a].keys = listed \cup {worker[a].key}]
    <3> DEFINE x == [worker[a] EXCEPT !.pc = "writeInfo", !.keys = listed \cup {worker[a].key}]
    <3>0. listed \cup {worker[a].key} \in SUBSET Keys
      BY <1>0 DEF TypeOK, WorkerState
    <3>1. /\ x \in WorkerState /\ x.pc = "writeInfo" /\ x.prev = worker[a].prev
          /\ x.task = worker[a].task /\ x.v = worker[a].v /\ x.last = worker[a].last
      BY <1>0, <3>0 DEF WorkerState, Pcs
    <3>2. worker' = [worker EXCEPT ![a] = x]
      BY <2>2
    <3> HIDE DEF x
    <3>3. InOrder(x)
      BY <1>0, <2>0, <3>1 DEF InOrder, Placing
    <3> QED
      BY <3>1, <3>2, <3>3 DEF Passes
  <2> QED
    BY <1>5, <2>1, <2>2 DEF ReadInfo
<1>6. CASE WriteInfo(a)
  <2>0. worker[a].pc = "writeInfo"
    BY <1>6 DEF WriteInfo
  <2>1. CASE worker[a].task = "info"
    BY <1>6, <2>1, StopMoves DEF WriteInfo
  <2>2. CASE worker[a].task # "info"
    <3>1. InOrder([worker[a] EXCEPT !.pc = "putEntry"])
      BY <1>0, <2>0, <2>2 DEF InOrder, WorkerState, Placing, Tasks
    <3> QED
      BY <1>6, <2>2, <3>1, GotoMoves DEF WriteInfo, Pcs
  <2> QED
    BY <2>1, <2>2
<1>7. CASE PutHead(a)
  BY <1>7, AppendedMoves DEF PutHead
<1>8. CASE Fail(a)
  BY <1>8, ThrowMoves DEF Fail
<1> QED
  BY <1>2, <1>3, <1>4, <1>5, <1>6, <1>7, <1>8

-----------------------------------------------------------------------------
(* The steps that publish, put an entry, announce or give up.              *)

LEMMA WritingMoves ==
    ASSUME TypeOK, AppendsInOrder, NEW a \in Workers,
           Publish(a) \/ ReadBack(a) \/ PutEntry(a) \/ Announce(a) \/ Die(a)
    PROVE  Settled(a)
<1>0. worker[a] \in WorkerState /\ InOrder(worker[a]) /\ key \in Keys /\ count \in Nat
      /\ count <= MaxVersions /\ MaxVersions \in Nat
  BY LogConstants DEF TypeOK, AppendsInOrder
<1>1. CASE Publish(a)
  <2>1. PICK x : x = [Idle(key) EXCEPT !.pc = "published", !.task = "commit", !.v = count + 1,
                                       !.last = count + 1]
    OBVIOUS
  <2>2. worker' = [worker EXCEPT ![a] = x] /\ worker[a].pc = "idle"
    BY <1>1, <2>1 DEF Publish
  <2>3. count' = count + 1 /\ count + 1 \in 0 .. MaxVersions
    BY <1>0, <1>1 DEF Publish
  <2>4. "published" \in Pcs /\ "commit" \in Tasks
    BY DEF Pcs, Tasks
  <2>5. x \in WorkerState /\ x.pc = "published" /\ x.task = "commit" /\ x.v = count + 1 /\ x.last = count + 1
    BY <1>0, <2>1, <2>3, <2>4, IdleTyped DEF WorkerState
  <2>6. InOrder(x)'
    BY <1>0, <2>3, <2>5 DEF InOrder, Placing
  <2>7. worker[a].task # "commit"
    BY <1>0, <2>2 DEF InOrder
  <2> QED
    BY <2>2, <2>5, <2>6, <2>7 DEF Settled, Moves, Carried
<1>2. CASE ReadBack(a)
  <2>1. UNCHANGED <<count, entries>> /\ worker[a].pc = "published"
    BY <1>2 DEF ReadBack
  <2>2. CASE Goto(a, "readHead")
    <3>1. InOrder([worker[a] EXCEPT !.pc = "readHead"])
      BY <1>0, <2>1 DEF InOrder, WorkerState, Placing
    <3> QED
      BY <2>1, <2>2, <3>1, GotoMoves, PassesMoves DEF Pcs, Settled
  <2>3. CASE Stop(a) /\ missed' = missed \cup {worker[a].v}
    <3>1. PICK k \in Keys : k = worker[a].key
      BY <1>0 DEF WorkerState
    <3>2. Idle(k) \in WorkerState /\ InOrder(Idle(k))'
      BY <2>1, IdleTyped, OrderSame
    <3>3. worker' = [worker EXCEPT ![a] = Idle(k)]
      BY <2>3, <3>1 DEF Stop
    <3> QED
      BY <2>3, <3>2, <3>3 DEF Settled, Moves, Carried
  <2> QED
    BY <1>2, <2>2, <2>3 DEF ReadBack
<1>3. CASE PutEntry(a)
  <2>0. PICK x : x = [worker[a] EXCEPT !.pc = "putHead"]
    OBVIOUS
  <2>1. x \in WorkerState
    BY <1>0, <2>0 DEF WorkerState, Pcs
  <2>2. worker' = [worker EXCEPT ![a] = x] /\ worker[a].pc = "putEntry" /\ count' = count
    BY <1>3, <2>0 DEF PutEntry, Goto
  <2>3. /\ x.pc = "putHead" /\ x.task = worker[a].task /\ x.v = worker[a].v
        /\ x.last = worker[a].last /\ x.prev = worker[a].prev
    BY <1>0, <2>0 DEF WorkerState
  <2>4. worker[a].v \in Versions /\ \A m \in 1 .. worker[a].v - 1 : InLog(m) /\ m \in Versions
    <3>1. worker[a].v \in 1 .. count /\ \A m \in 1 .. worker[a].v - 1 : InLog(m)
      BY <1>0, <2>2 DEF InOrder, Placing
    <3> QED
      BY <1>0, <3>1 DEF Versions
  <2>5. Signed(a) # <<>>
    BY <1>0 DEF Signed, WorkerState
  <2>6. \A n \in Versions : InLog(n) \/ n = worker[a].v => InLog(n)'
    BY <1>3, <2>4, <2>5 DEF PutEntry, InLog, TypeOK
  <2>7. InOrder(x)'
    BY <1>0, <2>2, <2>3, <2>4, <2>6 DEF InOrder, Placing
  <2> QED
    BY <2>1, <2>2, <2>3, <2>7 DEF Settled, Moves, Carried
<1>4. CASE Announce(a) \/ Die(a)
  <2>1. UNCHANGED <<count, entries>> /\ Stop(a)
    BY <1>4 DEF Announce, Die
  <2>2. worker[a].task = "commit" => worker[a].v \in announced' \cup missed'
    BY <1>4 DEF Announce, Die
  <2>3. PICK k \in Keys : k = worker[a].key
    BY <1>0 DEF WorkerState
  <2>4. Idle(k) \in WorkerState /\ InOrder(Idle(k))'
    BY <2>1, IdleTyped, OrderSame
  <2>5. worker' = [worker EXCEPT ![a] = Idle(k)]
    BY <2>1, <2>3 DEF Stop
  <2> QED
    BY <2>2, <2>4, <2>5 DEF Settled, Moves, Carried
<1> QED
  BY <1>1, <1>2, <1>3, <1>4

-----------------------------------------------------------------------------
(* What a step does to the log and the versions.                           *)

\* An entry that is there stays as it is; what is added has all before it, and is published.
LogExtended ==
    /\ \A n \in Versions : InLog(n) => entries'[n] = entries[n]
    /\ \A n \in Versions : InLog(n)' /\ ~InLog(n) => n <= count' /\ \A m \in 1 .. n - 1 : InLog(m)

\* head.json stays, or becomes the hash of an entry that is there.
HeadMoved == head' = head \/ (Len(head') \in 1 .. count /\ \A n \in 1 .. Len(head') : InLog(n))

LEMMA Versioned ==
    ASSUME TypeOK, AppendsInOrder, NEW a \in Workers, worker[a].pc \notin {"idle", "writeInfo"}
    PROVE  worker[a].v \in Versions /\ worker[a].v <= count
<1>1. worker[a].v \in 1 .. count
  BY DEF AppendsInOrder, InOrder
<1> QED
  BY <1>1, LogConstants DEF TypeOK, Versions

LEMMA DataMoves ==
    ASSUME LogInv, NEW a \in Workers, Step(a) \/ Publish(a) \/ StartInfo(a) \/ Fail(a) \/ Die(a)
    PROVE  /\ count' \in 0 .. MaxVersions /\ count <= count' /\ key' = key
           /\ entries' \in [Versions -> Seq(Keys)] /\ head' \in Seq(Keys) /\ listed' \subseteq Keys
           /\ repair' \in BOOLEAN
           /\ announced \subseteq announced' /\ announced' \subseteq Versions
           /\ missed \subseteq missed' /\ missed' \subseteq Versions
           /\ LogExtended /\ HeadMoved
<1> USE DEF LogInv
<1>0. worker[a] \in WorkerState /\ InOrder(worker[a]) /\ count \in Nat /\ MaxVersions \in Nat
      /\ count <= MaxVersions
  BY LogConstants DEF TypeOK, AppendsInOrder
<1>1. Signed(a) \in Seq(Keys) /\ Signed(a) # <<>> /\ Len(Signed(a)) = Len(worker[a].prev) + 1
  BY <1>0 DEF Signed, WorkerState
<1>2. Appended(a) \/ Throw(a) => repair' \in BOOLEAN
  BY DEF Appended, Throw, TypeOK
<1>3. (\E n \in Nat : count' = n /\ n <= MaxVersions) /\ count <= count' /\ key' = key
  <2>1. CASE Publish(a)
    BY <1>0, <2>1 DEF Publish
  <2>2. CASE ~Publish(a)
    BY <1>0, <2>2 DEF Step, ReadBack, StartRepair, ReadHead, ReadInfo, WriteInfo, PutEntry, PutHead,
                      Announce, StartInfo, Fail, Die
  <2> QED
    BY <2>1, <2>2
<1>4. repair' \in BOOLEAN
  <2>1. CASE StartRepair(a) \/ ReadHead(a) \/ PutHead(a) \/ Fail(a)
    BY <1>2, <2>1 DEF StartRepair, ReadHead, PutHead, Fail, TypeOK
  <2>2. CASE ~(StartRepair(a) \/ ReadHead(a) \/ PutHead(a) \/ Fail(a))
    BY <2>2 DEF Step, ReadBack, ReadInfo, WriteInfo, PutEntry, Announce, Publish, StartInfo, Die, TypeOK
  <2> QED
    BY <2>1, <2>2
<1>5. listed' \subseteq Keys
  <2>1. CASE WriteInfo(a)
    BY <1>0, <2>1 DEF WriteInfo, WorkerState
  <2>2. CASE ~WriteInfo(a)
    BY <2>2 DEF Step, ReadBack, StartRepair, ReadHead, ReadInfo, PutEntry, PutHead, Announce, Publish,
                StartInfo, Fail, Die, TypeOK
  <2> QED
    BY <2>1, <2>2
<1>6. announced \subseteq announced' /\ announced' \subseteq Versions
  <2>1. CASE Announce(a)
    BY <2>1, Versioned DEF Announce, TypeOK
  <2>2. CASE ~Announce(a)
    BY <2>2 DEF Step, ReadBack, StartRepair, ReadHead, ReadInfo, WriteInfo, PutEntry, PutHead, Publish,
                StartInfo, Fail, Die, TypeOK
  <2> QED
    BY <2>1, <2>2
<1>7. missed \subseteq missed' /\ missed' \subseteq Versions
  <2>1. CASE ReadBack(a)
    BY <2>1, Versioned DEF ReadBack, TypeOK
  <2>2. CASE Die(a)
    <3>1. worker[a].task = "commit" => worker[a].v \in Versions
      BY <1>0 DEF InOrder, Versions
    <3> QED
      BY <2>2, <3>1 DEF Die, TypeOK
  <2>3. CASE ~(ReadBack(a) \/ Die(a))
    BY <2>3 DEF Step, StartRepair, ReadHead, ReadInfo, WriteInfo, PutEntry, PutHead, Announce, Publish,
                StartInfo, Fail, TypeOK
  <2> QED
    BY <2>1, <2>2, <2>3
<1>8. entries' \in [Versions -> Seq(Keys)] /\ LogExtended
  <2>1. CASE PutEntry(a)
    <3>1. worker[a].v \in Versions /\ worker[a].v <= count /\ count' = count
          /\ \A m \in 1 .. worker[a].v - 1 : InLog(m)
      BY <1>0, <2>1, Versioned DEF PutEntry, InOrder, Placing
    <3>2. entries' \in [Versions -> Seq(Keys)]
      BY <1>1, <2>1 DEF PutEntry, TypeOK
    <3>3. \A n \in Versions : n # worker[a].v \/ InLog(n) => entries'[n] = entries[n]
      BY <2>1, <3>1 DEF PutEntry, InLog, TypeOK
    <3> QED
      BY <3>1, <3>2, <3>3 DEF LogExtended, InLog
  <2>2. CASE ~PutEntry(a)
    <3>1. entries' = entries
      BY <2>2 DEF Step, ReadBack, StartRepair, ReadHead, ReadInfo, WriteInfo, PutHead, Announce, Publish,
                StartInfo, Fail, Die
    <3> QED
      BY <3>1 DEF LogExtended, InLog, TypeOK
  <2> QED
    BY <2>1, <2>2
<1>9. head' \in Seq(Keys) /\ HeadMoved
  <2>1. CASE PutHead(a)
    <3>1. Len(Signed(a)) = worker[a].v /\ InLog(worker[a].v) /\ \A m \in 1 .. worker[a].v - 1 : InLog(m)
      BY <1>0, <1>1, <2>1 DEF PutHead, InOrder, Placing
    <3>2. worker[a].v \in 1 .. count
      BY <1>0, <2>1 DEF PutHead, InOrder
    <3>3. \A m \in 1 .. worker[a].v : m = worker[a].v \/ m \in 1 .. worker[a].v - 1
      BY <1>0, <3>2
    <3>4. head' = Signed(a) /\ Len(head') = worker[a].v
      BY <2>1, <3>1 DEF PutHead
    <3>5. \A n \in 1 .. worker[a].v : InLog(n)
      BY <3>1, <3>3
    <3>6. Len(head') \in 1 .. count /\ \A n \in 1 .. Len(head') : InLog(n)
      BY <3>2, <3>4, <3>5
    <3>7. HeadMoved
      BY <3>6, Zenon DEF HeadMoved
    <3> QED
      BY <1>1, <3>4, <3>7, Zenon
  <2>2. CASE ~PutHead(a)
    BY <2>2 DEF Step, ReadBack, StartRepair, ReadHead, ReadInfo, WriteInfo, PutEntry, Announce, Publish,
                StartInfo, Fail, Die, TypeOK, HeadMoved
  <2> QED
    BY <2>1, <2>2
<1> QED
  BY <1>0, <1>3, <1>4, <1>5, <1>6, <1>7, <1>8, <1>9

-----------------------------------------------------------------------------
(* The invariant.                                                          *)

LEMMA WorkerMoves ==
    ASSUME LogInv, NEW a \in Workers, Step(a) \/ Publish(a) \/ StartInfo(a) \/ Fail(a) \/ Die(a)
    PROVE  Settled(a)
  BY ReadingMoves, WritingMoves DEF LogInv, Step

\* A version that is published by the step is in the hands of its commit.
NewCarried ==
    \A n \in Nat : count < n /\ n <= count' =>
        \E a \in Workers : worker'[a].task = "commit" /\ worker'[a].v = n

LEMMA PublishCarries ==
    ASSUME LogInv, NEW a \in Workers, Step(a) \/ Publish(a) \/ StartInfo(a) \/ Fail(a) \/ Die(a)
    PROVE  NewCarried
<1>1. count \in Nat
  BY DEF LogInv, TypeOK
<1>2. CASE Publish(a)
  <2>1. count' = count + 1
    BY <1>2 DEF Publish
  <2>2. worker'[a].task = "commit" /\ worker'[a].v = count + 1
    BY <1>2 DEF Publish, LogInv, TypeOK, Idle
  <2> QED
    BY <1>1, <2>1, <2>2 DEF NewCarried
<1>3. CASE ~Publish(a)
  <2>1. count' = count
    BY <1>3 DEF Step, ReadBack, StartRepair, ReadHead, ReadInfo, WriteInfo, PutEntry, PutHead, Announce,
                StartInfo, Fail, Die
  <2> QED
    BY <1>1, <2>1 DEF NewCarried
<1> QED
  BY <1>2, <1>3

\* What one worker, or a rotation of the key, does to everything but the records.
LogStep ==
    /\ count' \in 0 .. MaxVersions /\ count <= count' /\ key' \in Keys
    /\ entries' \in [Versions -> Seq(Keys)] /\ head' \in Seq(Keys) /\ listed' \subseteq Keys
    /\ repair' \in BOOLEAN
    /\ announced \subseteq announced' /\ announced' \subseteq Versions
    /\ missed \subseteq missed' /\ missed' \subseteq Versions
    /\ LogExtended /\ HeadMoved
    /\ worker' = worker \/ \E a \in Workers : \E x : Moves(a, x)
    /\ NewCarried

LEMMA LogSteps == ASSUME LogInv, [Next]_vars PROVE LogStep
<1>1. CASE UNCHANGED vars \/ \E k \in Keys : Rotate(k)
  <2>1. /\ UNCHANGED <<count, entries, head, listed, repair, announced, missed, worker>>
        /\ key' \in Keys
    BY <1>1 DEF vars, Rotate, LogInv, TypeOK
  <2>2. LogExtended
    BY <2>1 DEF LogExtended, InLog
  <2>4. HeadMoved
    BY <2>1, Zenon DEF HeadMoved
  <2>3. count' <= MaxVersions /\ count <= count'
    BY <2>1, LogConstants DEF LogInv, TypeOK
  <2>5. NewCarried
    BY <2>1 DEF NewCarried, LogInv, TypeOK
  <2> QED
    BY <2>1, <2>2, <2>3, <2>4, <2>5 DEF LogStep, LogInv, TypeOK
<1>2. ASSUME NEW a \in Workers, Step(a) \/ Publish(a) \/ StartInfo(a) \/ Fail(a) \/ Die(a)
      PROVE  LogStep
  <2>1. Settled(a)
    BY <1>2, WorkerMoves
  <2>2. key' \in Keys
    BY <1>2, DataMoves DEF LogInv, TypeOK
  <2> QED
    BY <1>2, <2>1, <2>2, DataMoves, PublishCarries DEF LogStep, Settled
<1> QED
  BY <1>1, <1>2 DEF Next

LEMMA TypeStep == ASSUME LogInv, LogStep PROVE TypeOK'
<1>1. worker' \in [Workers -> WorkerState]
  BY DEF LogInv, TypeOK, LogStep, Moves
<1> QED
  BY <1>1 DEF LogStep, TypeOK

LEMMA EntriesGrow == ASSUME LogStep PROVE Grows
  BY DEF LogStep, LogExtended, Grows, InLog

LEMMA HeadStep == ASSUME LogInv, LogStep PROVE HeadHasEntries' /\ Len(head') <= count'
<1>1. Grows /\ HeadMoved /\ count \in Nat /\ count' \in Nat /\ Len(head) \in Nat /\ MaxVersions \in Nat
  BY EntriesGrow, LogConstants DEF LogStep, LogInv, TypeOK
<1>2. CASE head' = head
  BY <1>1, <1>2 DEF LogInv, HeadHasEntries, Grows, AppendsInOrder
<1>3. CASE Len(head') \in 1 .. count /\ \A n \in 1 .. Len(head') : InLog(n)
  <2>1. \A n \in Versions : n <= Len(head') => n \in 1 .. Len(head')
    BY <1>1, <1>3 DEF Versions
  <2> QED
    BY <1>1, <1>3, <2>1 DEF HeadHasEntries, Grows
<1> QED
  BY <1>1, <1>2, <1>3 DEF HeadMoved

LEMMA GapsStep == ASSUME LogInv, LogStep PROVE LogHasNoGaps'
<1>1. Grows /\ LogExtended /\ count \in Nat /\ count' \in Nat /\ MaxVersions \in Nat /\ count <= count'
  BY EntriesGrow, LogConstants DEF LogStep, LogInv, TypeOK
<1> SUFFICES ASSUME NEW n \in Versions, InLog(n)'
             PROVE  n <= count' /\ \A m \in 1 .. n : InLog(m)'
  BY DEF LogHasNoGaps
<1>2. \A m \in 1 .. n : m \in Versions /\ (m = n \/ m \in 1 .. n - 1)
  BY <1>1 DEF Versions
<1>3. CASE InLog(n)
  <2>1. n <= count /\ \A m \in 1 .. n : InLog(m)
    BY <1>3 DEF LogInv, LogHasNoGaps
  <2>2. n <= count'
    BY <1>1, <2>1 DEF Versions
  <2> QED
    BY <1>1, <1>2, <2>1, <2>2 DEF Grows
<1>4. CASE ~InLog(n)
  <2>1. n <= count' /\ \A m \in 1 .. n - 1 : InLog(m)
    BY <1>1, <1>4 DEF LogExtended
  <2> QED
    BY <1>1, <1>2, <2>1 DEF Grows
<1> QED
  BY <1>3, <1>4

LEMMA OrderStep == ASSUME LogInv, LogStep PROVE AppendsInOrder'
<1>1. Grows /\ TypeOK /\ TypeOK' /\ Len(head') <= count'
  BY EntriesGrow, TypeStep, HeadStep DEF LogInv
<1> SUFFICES ASSUME NEW b \in Workers PROVE InOrder(worker[b])'
  BY <1>1 DEF AppendsInOrder
<1>2. PICK y : y = worker[b]
  OBVIOUS
<1>3. InOrder(y)'
  BY <1>1, <1>2, OrderKept DEF LogInv, AppendsInOrder, TypeOK
<1>4. CASE worker'[b] = worker[b]
  BY <1>2, <1>3, <1>4 DEF InOrder, Placing
<1>5. ASSUME NEW x, Moves(b, x) PROVE InOrder(worker[b])'
  <2>1. worker'[b] = x /\ InOrder(x)'
    BY <1>5 DEF Moves, LogInv, TypeOK
  <2> QED
    BY <2>1 DEF InOrder, Placing
<1>6. ASSUME NEW a \in Workers, NEW x, Moves(a, x), a # b PROVE worker'[b] = worker[b]
  BY <1>6 DEF Moves, LogInv, TypeOK
<1> QED
  BY <1>4, <1>5, <1>6 DEF LogStep

LEMMA AnnouncesStep == ASSUME LogInv, LogStep PROVE Announces'
<1>1. count \in Nat /\ count' \in Nat
  BY LogConstants DEF LogStep, LogInv, TypeOK
<1> SUFFICES ASSUME NEW n \in 1 .. count', n \notin announced' \cup missed'
             PROVE  \E a \in Workers : worker'[a].task = "commit" /\ worker'[a].v = n
  BY DEF Announces
<1>2. CASE count < n
  BY <1>1, <1>2 DEF LogStep, NewCarried
<1>3. CASE n <= count
  <2>1. PICK b \in Workers : worker[b].task = "commit" /\ worker[b].v = n
    BY <1>1, <1>3 DEF LogInv, Announces, LogStep
  <2>2. ASSUME NEW x, Moves(b, x) PROVE worker'[b].task = "commit" /\ worker'[b].v = n
    <3>1. worker'[b] = x /\ Carried(b, x)
      BY <2>2 DEF Moves, LogInv, TypeOK
    <3> QED
      BY <2>1, <3>1 DEF Carried
  <2>3. ASSUME NEW a \in Workers, NEW x, Moves(a, x), a # b PROVE worker'[b] = worker[b]
    BY <2>3 DEF Moves, LogInv, TypeOK
  <2> QED
    BY <2>1, <2>2, <2>3 DEF LogStep
<1> QED
  BY <1>1, <1>2, <1>3

LEMMA LogInvStep == ASSUME LogInv, [Next]_vars PROVE LogInv'
<1>1. LogStep
  BY LogSteps
<1> QED
  BY <1>1, TypeStep, HeadStep, GapsStep, OrderStep, AnnouncesStep DEF LogInv

LEMMA LogInvInit == ASSUME Init PROVE LogInv
<1>1. TypeOK
  <2>1. worker \in [Workers -> WorkerState]
    BY IdleTyped DEF Init
  <2>2. count \in 0 .. MaxVersions /\ <<>> \in Seq(Keys)
    BY LogConstants, EmptySeq DEF Init
  <2> QED
    BY <2>1, <2>2 DEF Init, TypeOK
<1>2. count = 0 /\ head = <<>> /\ Len(head) = 0 /\ \A n \in Versions : ~InLog(n) /\ 0 < n
  BY LogConstants, EmptySeq DEF Init, InLog, Versions
<1>3. HeadHasEntries /\ LogHasNoGaps /\ Announces
  BY <1>2, LogConstants DEF HeadHasEntries, LogHasNoGaps, Announces, Versions
<1>4. AppendsInOrder
  BY <1>2, IdleTyped DEF Init, AppendsInOrder
<1> QED
  BY <1>1, <1>3, <1>4 DEF LogInv

LEMMA LogInvHolds == Spec => []LogInv
  BY LogInvInit, LogInvStep, PTL DEF Spec

-----------------------------------------------------------------------------
(* Theorems.                                                               *)

\* Workers hold versions that are published, and keys and hashes the deployment has signed with.
THEOREM TypeCorrect == Spec => []TypeOK
  BY LogInvHolds, PTL DEF LogInv

\* Whoever reads head.json finds every entry below it, however appends of several versions
\* overlap, repeat or break off (log.ts 204-208).
THEOREM HeadIsBacked == Spec => []HeadHasEntries
  BY LogInvHolds, PTL DEF LogInv

\* The log holds published versions only and leaves none out: an append waits for the entry
\* before it, or throws and leaves it to the repair (commit.ts 326-329).
THEOREM NoGaps == Spec => []LogHasNoGaps
  BY LogInvHolds, PTL DEF LogInv

\* A commit that lives and found itself at the head has its version announced, whatever became
\* of the log append (commit.ts 245-259).
THEOREM EveryVersionAnnounced == Spec => []Announces
  BY LogInvHolds, PTL DEF LogInv

\* No signed entry is ever replaced: not by a repeated append, a repair, or a rotated key.
THEOREM EntriesStay == Spec => EntriesKept
<1>1. LogInv /\ [Next]_vars => [\A n \in Versions : InLog(n) => entries'[n] = entries[n]]_vars
  <2> SUFFICES ASSUME LogInv, [Next]_vars PROVE \A n \in Versions : InLog(n) => entries'[n] = entries[n]
    OBVIOUS
  <2> QED
    BY LogSteps DEF LogStep, LogExtended
<1> QED
  BY <1>1, LogInvHolds, PTL DEF Spec, EntriesKept

-----------------------------------------------------------------------------
(* A deployment that keeps its one key: the chain verifies, and everyone who signed is listed. *)

EntryLengths == \A n \in Versions : InLog(n) => Len(entries[n]) = n

\* A key is listed before anything is signed, and what is about to be listed holds one.
Listing(x) ==
    /\ x.pc = "writeInfo" => x.keys # {}
    /\ x.pc \in {"putEntry", "putHead"} => listed # {}

SignedAreListed ==
    /\ \A n \in Versions : InLog(n) => listed # {}
    /\ \A a \in Workers : Listing(worker[a])

LEMMA LengthsStep == ASSUME LogInv, EntryLengths, [Next]_vars PROVE EntryLengths'
<1>1. ASSUME NEW a \in Workers, PutEntry(a) PROVE EntryLengths'
  <2>1. worker[a].v \in Versions /\ Len(worker[a].prev) + 1 = worker[a].v /\ worker[a] \in WorkerState
    BY <1>1, Versioned DEF LogInv, PutEntry, AppendsInOrder, InOrder, Placing, TypeOK
  <2>2. Len(Signed(a)) = worker[a].v
    BY <2>1 DEF Signed, WorkerState
  <2>3. \A n \in Versions : entries'[n] = entries[n] \/ (n = worker[a].v /\ entries'[n] = Signed(a))
    BY <1>1, <2>1 DEF PutEntry, LogInv, TypeOK
  <2> QED
    BY <2>2, <2>3 DEF EntryLengths, InLog
<1>2. CASE entries' = entries
  BY <1>2 DEF EntryLengths, InLog
<1>3. entries' = entries \/ \E a \in Workers : PutEntry(a)
  BY DEF Next, vars, Step, Rotate, ReadBack, StartRepair, ReadHead, ReadInfo, WriteInfo, PutHead, Announce,
         Publish, StartInfo, Fail, Die
<1> QED
  BY <1>1, <1>2, <1>3

\* What becomes of one worker's record while it appends; elsewhere it is at none of these points.
LEMMA ListingMoves ==
    ASSUME LogInv, SignedAreListed, NEW a \in Workers,
           Step(a) \/ Publish(a) \/ StartInfo(a) \/ Fail(a) \/ Die(a)
    PROVE  /\ listed # {} => listed' # {}
           /\ Listing(worker[a])'
           /\ \A n \in Versions : InLog(n)' => InLog(n) \/ listed # {}
<1>0. worker[a] \in WorkerState /\ worker \in [Workers -> WorkerState] /\ Listing(worker[a])
  BY DEF LogInv, TypeOK, SignedAreListed
<1>1. listed # {} => listed' # {}
  BY <1>0 DEF Step, ReadBack, StartRepair, ReadHead, ReadInfo, WriteInfo, PutEntry, PutHead, Announce,
              Publish, StartInfo, Fail, Die, Listing
<1>2. \A n \in Versions : InLog(n)' => InLog(n) \/ listed # {}
  <2>1. CASE PutEntry(a)
    BY <1>0, <2>1 DEF PutEntry, Listing
  <2>2. CASE ~PutEntry(a)
    BY <2>2 DEF InLog, Step, ReadBack, StartRepair, ReadHead, ReadInfo, WriteInfo, PutHead, Announce,
                Publish, StartInfo, Fail, Die
  <2> QED
    BY <2>1, <2>2
<1> SUFFICES Listing(worker[a])'
  BY <1>1, <1>2
<1> DEFINE Elsewhere == worker'[a].pc \notin {"writeInfo", "putEntry", "putHead"}
<1>3. Elsewhere => Listing(worker[a])'
  BY DEF Listing
<1>4. Stop(a) => Elsewhere
  BY <1>0 DEF Stop, Idle
<1>5. \A pc \in Pcs : Goto(a, pc) => worker'[a].pc = pc
  BY <1>0 DEF Goto, WorkerState
<1>6. Goto(a, "announce") \/ Goto(a, "readHead") => Elsewhere
  BY <1>5 DEF Pcs
<1>7. /\ Publish(a) => Elsewhere
      /\ worker' = [worker EXCEPT ![a].pc = "readHead", ![a].v = worker[a].v + 1] => Elsewhere
      /\ worker' = [worker EXCEPT ![a].pc = "readInfo", ![a].prev = head] => Elsewhere
  <2>1. worker' = [worker EXCEPT ![a].pc = "readHead", ![a].v = worker[a].v + 1] => Elsewhere
    BY <1>0 DEF WorkerState
  <2>2. worker' = [worker EXCEPT ![a].pc = "readInfo", ![a].prev = head] => Elsewhere
    BY <1>0 DEF WorkerState
  <2>3. Publish(a) => Elsewhere
    BY <1>0 DEF Publish, Idle, WorkerState
  <2> QED
    BY <2>1, <2>2, <2>3
<1>8. StartRepair(a) => Elsewhere
  <2> SUFFICES ASSUME StartRepair(a) PROVE Elsewhere
    OBVIOUS
  <2>1. worker[a].pc = "idle"
    BY DEF StartRepair
  <2>2. CASE worker' = worker
    BY <2>1, <2>2
  <2>3. CASE worker' # worker
    <3>1. worker' = [worker EXCEPT ![a] = [Idle(key) EXCEPT
                        !.pc = "readHead", !.task = "repair", !.v = Len(head) + 1, !.last = count]]
      BY <2>3 DEF StartRepair
    <3> QED
      BY <1>0, <3>1 DEF Idle
  <2> QED
    BY <2>2, <2>3
<1> HIDE DEF Elsewhere
<1>9. Appended(a) \/ Throw(a) => Elsewhere
  BY <1>4, <1>6, <1>7, Zenon DEF Appended, Throw
<1>10. CASE Publish(a) \/ ReadBack(a) \/ StartRepair(a) \/ ReadHead(a) \/ PutHead(a) \/ Announce(a) \/ Fail(a)
            \/ Die(a)
  BY <1>3, <1>4, <1>6, <1>7, <1>8, <1>9, <1>10, Zenon DEF ReadBack, ReadHead, PutHead, Announce, Fail, Die
<1>11. CASE StartInfo(a)
  <2>1. worker'[a].pc = "writeInfo" /\ worker'[a].keys = listed /\ listed # {}
    BY <1>0, <1>11 DEF StartInfo, Idle
  <2> QED
    BY <2>1 DEF Listing
<1>12. CASE ReadInfo(a)
  <2>1. CASE Goto(a, "putEntry") /\ worker[a].key \in listed
    <3>1. worker'[a].pc = "putEntry" /\ listed' = listed
      BY <1>5, <1>12, <2>1 DEF Pcs, ReadInfo
    <3> QED
      BY <2>1, <3>1 DEF Listing
  <2>2. CASE worker' = [worker EXCEPT ![a].pc = "writeInfo", ![a].keys = listed \cup {worker[a].key}]
    <3>1. worker'[a].pc = "writeInfo" /\ worker'[a].keys = listed \cup {worker[a].key}
      BY <1>0, <2>2 DEF WorkerState
    <3> QED
      BY <3>1 DEF Listing
  <2> QED
    BY <1>12, <2>1, <2>2 DEF ReadInfo
<1>13. CASE PutEntry(a)
  <2>1. worker'[a].pc = "putHead" /\ listed' = listed /\ listed # {}
    BY <1>0, <1>5, <1>13 DEF PutEntry, Pcs, Listing
  <2> QED
    BY <2>1 DEF Listing
<1>14. CASE WriteInfo(a)
  <2>1. CASE Stop(a)
    BY <1>3, <1>4, <2>1
  <2>2. CASE Goto(a, "putEntry")
    <3>1. worker'[a].pc = "putEntry" /\ listed' # {}
      BY <1>0, <1>5, <1>14, <2>2 DEF WriteInfo, Pcs, Listing
    <3> QED
      BY <3>1 DEF Listing
  <2> QED
    BY <1>14, <2>1, <2>2 DEF WriteInfo
<1> QED
  BY <1>10, <1>11, <1>12, <1>13, <1>14 DEF Step

LEMMA ListedStep == ASSUME LogInv, SignedAreListed, [Next]_vars PROVE SignedAreListed'
<1>1. ASSUME NEW a \in Workers, Step(a) \/ Publish(a) \/ StartInfo(a) \/ Fail(a) \/ Die(a)
      PROVE  SignedAreListed'
  <2>1. /\ listed # {} => listed' # {}
        /\ Listing(worker[a])'
        /\ \A n \in Versions : InLog(n)' => InLog(n) \/ listed # {}
    BY <1>1, ListingMoves
  <2>2. ASSUME NEW b \in Workers, b # a PROVE worker'[b] = worker[b]
    <3>1. Settled(a)
      BY <1>1, WorkerMoves
    <3> QED
      BY <2>2, <3>1 DEF Settled, Moves, LogInv, TypeOK
  <2> QED
    BY <2>1, <2>2 DEF SignedAreListed, Listing
<1>2. CASE UNCHANGED <<entries, listed, worker>>
  BY <1>2 DEF SignedAreListed, Listing, InLog
<1> QED
  BY <1>1, <1>2 DEF Next, Rotate, vars

OneKeyInv == LogInv /\ EntryLengths /\ SignedAreListed

LEMMA OneKeyInvHolds == Spec => []OneKeyInv
<1>1. Init => OneKeyInv
  <2> SUFFICES ASSUME Init PROVE EntryLengths /\ SignedAreListed
    BY LogInvInit DEF OneKeyInv
  <2>1. \A a \in Workers : worker[a].pc = "idle"
    BY DEF Init, Idle
  <2> QED
    BY <2>1 DEF Init, EntryLengths, SignedAreListed, Listing, InLog
<1>2. OneKeyInv /\ [Next]_vars => OneKeyInv'
  BY LogInvStep, LengthsStep, ListedStep DEF OneKeyInv
<1> QED
  BY <1>1, <1>2, PTL DEF Spec

\* With one key, a hash is as good as its length.
LEMMA OneKeySeqs ==
    ASSUME NEW k, NEW s \in Seq({k}), NEW t \in Seq({k}), Len(s) = Len(t)
    PROVE  s = t
  BY SeqEqual

LEMMA OneKeyChains ==
    ASSUME OneKeyInv, NEW k, Keys = {k} PROVE ChainHolds /\ SignersListed
<1>0. MaxVersions \in Nat /\ count \in Nat /\ count <= MaxVersions /\ head \in Seq({k}) /\ listed \subseteq {k}
  BY LogConstants DEF OneKeyInv, LogInv, TypeOK
<1>1. ASSUME NEW n \in Versions, InLog(n), n > 1 PROVE SubSeq(entries[n], 1, n - 1) = entries[n - 1]
  <2>1. n - 1 \in Versions /\ n - 1 \in 1 .. n /\ n \in Nat
    BY <1>0, <1>1 DEF Versions
  <2>2. InLog(n - 1)
    BY <1>1, <2>1 DEF OneKeyInv, LogInv, LogHasNoGaps
  <2>3. entries[n] \in Seq({k}) /\ entries[n - 1] \in Seq({k}) /\ Len(entries[n]) = n /\ Len(entries[n - 1]) = n - 1
    BY <1>1, <2>1, <2>2 DEF OneKeyInv, LogInv, TypeOK, EntryLengths
  <2>4. SubSeq(entries[n], 1, n - 1) \in Seq({k}) /\ Len(SubSeq(entries[n], 1, n - 1)) = n - 1
    BY <2>1, <2>3
  <2> QED
    BY <2>3, <2>4, OneKeySeqs
<1>2. head # <<>> => entries[Len(head)] = head
  <2> SUFFICES ASSUME head # <<>> PROVE entries[Len(head)] = head
    OBVIOUS
  <2>1. Len(head) \in Versions
    BY <1>0, EmptySeq DEF OneKeyInv, LogInv, AppendsInOrder, Versions
  <2>2. entries[Len(head)] \in Seq({k}) /\ Len(entries[Len(head)]) = Len(head)
    BY <1>0, <2>1 DEF OneKeyInv, LogInv, HeadHasEntries, EntryLengths, TypeOK
  <2> QED
    BY <1>0, <2>2, OneKeySeqs
<1>3. ASSUME NEW n \in Versions, InLog(n) PROVE entries[n][n] \in listed
  <2>1. entries[n] \in Seq({k}) /\ Len(entries[n]) = n /\ n \in 1 .. n /\ listed # {}
    BY <1>3 DEF OneKeyInv, LogInv, TypeOK, EntryLengths, SignedAreListed, Versions
  <2> QED
    BY <1>0, <2>1
<1> QED
  BY <1>1, <1>2, <1>3 DEF ChainHolds, SignersListed

\* Until a deployment rotates its key the log verifies: every entry chains to the stored one before
\* it, and head.json to a stored entry (log.ts 225-270).
THEOREM ChainHoldsWithOneKey == ASSUME NEW k, Keys = {k} PROVE Spec => []ChainHolds
<1>1. OneKeyInv => ChainHolds
  BY OneKeyChains
<1> QED
  BY <1>1, OneKeyInvHolds, PTL

\* Until then, too, collection.json lists the key of every stored entry.
THEOREM SignersListedWithOneKey == ASSUME NEW k, Keys = {k} PROVE Spec => []SignersListed
<1>1. OneKeyInv => SignersListed
  BY OneKeyChains
<1> QED
  BY <1>1, OneKeyInvHolds, PTL

-----------------------------------------------------------------------------
(* The reference log: what a collection is billed for, for any versions,   *)
(* events, key ranges, consumers and limits.                               *)

R == INSTANCE RefLog

-----------------------------------------------------------------------------
(* The inductive invariant.                                                *)

EventsOf(v) == {e \in AllEvents : VersionOf[e] = v}

IndexedOf(c) == {e \in AllEvents : Collection[VersionOf[e]] = c /\ version[VersionOf[e]] = "indexed"}

ForVersion(m) == m[1] \in {"refs.index", "refs.indexUnit"}

\* A message or job about a version names one of its key ranges.
Addressed(m) == ForVersion(m) => m[2] \in VersionIds /\ m[3] \in 1 .. Units[m[2]]

Fields == {"pc", "job", "out", "events", "segs"}

\* A job that is about to finish a version has counted all of its events, and no other's.
Counts(x) ==
    /\ DOMAIN x = Fields /\ Addressed(x.job)
    /\ x.pc = "idle" => x.events = 0
    /\ x.pc = "live" => /\ ForVersion(x.job) /\ x.job[2] \in VersionIds
                        /\ x.events = Cardinality(EventsOf(x.job[2]))

BillInv ==
    /\ version \in [VersionIds -> {"unindexed", "indexed", "gone"}]
    /\ billed \in [Range(Collection) -> Nat]
    /\ unitRows \subseteq UNION {{v} \X (1 .. Units[v]) : v \in VersionIds}
    /\ \A m \in queue : Addressed(m)
    /\ DOMAIN consumer = Consumers /\ \A w \in Consumers : Counts(consumer[w])
    /\ BilledOnce

-----------------------------------------------------------------------------
(* Events and key ranges.                                                  *)

\* What R shares with this module.
LEMMA Shared ==
    /\ R!VersionIds = VersionIds /\ R!AllEvents = AllEvents
    /\ \A S : R!Cardinality(S) = Cardinality(S)
    /\ \A f : R!Range(f) = Range(f)
<1>1. R!VersionIds = VersionIds /\ R!AllEvents = AllEvents /\ \A f : R!Range(f) = Range(f)
  BY DEF VersionIds, R!VersionIds, AllEvents, R!AllEvents, Range, R!Range
<1>2. \A S : R!Cardinality(S) = Cardinality(S)
  BY Zenon DEF Cardinality, R!Cardinality
<1> QED
  BY <1>1, <1>2

LEMMA Given ==
    /\ \A e \in AllEvents : VersionOf[e] \in VersionIds \ Forked /\ UnitOf[e] \in 1 .. Units[VersionOf[e]]
    /\ \A v \in VersionIds : Units[v] \in Nat \ {0} /\ 1 \in 1 .. Units[v]
    /\ Hash \in Seq(Nat)
  BY RefLogConstants

LEMMA EventsFinite == IsFiniteSet(AllEvents)
<1>1. AllEvents = 1 .. Len(Hash) /\ Len(Hash) \in Nat
  BY Given DEF AllEvents
<1> QED
  BY <1>1, FS_Interval

LEMMA EventsCounted ==
    ASSUME NEW v PROVE IsFiniteSet(EventsOf(v)) /\ Cardinality(EventsOf(v)) \in Nat
<1>1. EventsOf(v) \subseteq AllEvents
  BY DEF EventsOf
<1> QED
  BY <1>1, EventsFinite, FS_Subset, FS_CardinalityType

\* The first version of a fork has no events.
LEMMA ForkEmpty == ASSUME NEW v \in Forked PROVE Cardinality(EventsOf(v)) = 0
<1>1. EventsOf(v) = {}
  BY Given DEF EventsOf
<1> QED
  BY <1>1, FS_EmptySet

\* As many key ranges as the version has are all of them.
LEMMA AllUnits ==
    ASSUME NEW v \in VersionIds, NEW units \in SUBSET (1 .. Units[v]), Cardinality(units) = Units[v]
    PROVE  UNION {R!UnitEvents(v, u) : u \in units} = EventsOf(v)
<1>1. Units[v] \in Nat /\ Units[v] # 0
  BY Given
<1>2. IsFiniteSet(1 .. Units[v]) /\ Cardinality(1 .. Units[v]) = Units[v]
  BY <1>1, FS_Interval
<1>3. units = 1 .. Units[v]
  BY <1>2, FS_Subset
<1>4. \A e \in EventsOf(v) : e \in R!UnitEvents(v, UnitOf[e]) /\ UnitOf[e] \in 1 .. Units[v]
  BY Given, Shared DEF EventsOf, R!UnitEvents
<1> QED
  BY <1>3, <1>4, Shared DEF EventsOf, R!UnitEvents

-----------------------------------------------------------------------------
(* Jobs and messages.                                                      *)

\* Fields that are not changed stay.
LEMMA ChangedIs ==
    ASSUME NEW x, NEW changes, DOMAIN x = Fields
    PROVE  /\ DOMAIN R!Changed(x, changes) = Fields
           /\ \A f \in Fields : f \notin DOMAIN changes => R!Changed(x, changes)[f] = x[f]
           /\ \A f \in Fields : f \in DOMAIN changes => R!Changed(x, changes)[f] = changes[f]
  BY DEF R!Changed

LEMMA IdleCounts == Counts(R!Idle)
  BY DEF Counts, R!Idle, Fields, Addressed, ForVersion, R!PlanJob

LEMMA Sent ==
    /\ \A v \in VersionIds : Addressed(R!IndexJob(v))
    /\ \A v \in VersionIds : \A u \in 1 .. Units[v] : Addressed(R!UnitJob(v, u))
    /\ Addressed(R!PlanJob) /\ \A k, p : Addressed(R!PartJob(k, p)) /\ Addressed(R!FinishJob(k))
  BY Given DEF Addressed, ForVersion, R!IndexJob, R!UnitJob, R!PlanJob, R!PartJob, R!FinishJob

\* A job that changes neither its message nor its count, and is not about to finish a version.
LEMMA SetCounts ==
    ASSUME BillInv, NEW w \in Consumers, NEW changes, R!Set(w, changes),
           {"job", "events"} \cap DOMAIN changes = {}, "pc" \in DOMAIN changes => changes.pc \notin {"idle", "live"},
           "pc" \in DOMAIN changes \/ consumer[w].pc \notin {"idle", "live"}
    PROVE  DOMAIN consumer' = Consumers /\ \A a \in Consumers : Counts(consumer'[a])
<1> DEFINE x == R!Changed(consumer[w], changes)
<1>1. DOMAIN consumer = Consumers /\ \A a \in Consumers : Counts(consumer[a])
  BY DEF BillInv
<1>2. consumer' = [consumer EXCEPT ![w] = x]
  BY DEF R!Set
<1>3. DOMAIN x = Fields /\ x.job = consumer[w].job /\ x.pc \notin {"idle", "live"}
  <2>1. DOMAIN consumer[w] = Fields
    BY <1>1 DEF Counts
  <2>2. /\ DOMAIN x = Fields
        /\ \A f \in Fields : f \notin DOMAIN changes => x[f] = consumer[w][f]
        /\ \A f \in Fields : f \in DOMAIN changes => x[f] = changes[f]
    BY <2>1, ChangedIs
  <2> HIDE DEF x
  <2> QED
    BY <2>2 DEF Fields
<1> HIDE DEF x
<1>4. Counts(x)
  BY <1>1, <1>3 DEF Counts
<1> QED
  BY <1>1, <1>2, <1>4

LEMMA DoneCounts ==
    ASSUME BillInv, NEW w \in Consumers, R!Done(w)
    PROVE  DOMAIN consumer' = Consumers /\ \A a \in Consumers : Counts(consumer'[a])
  BY IdleCounts DEF BillInv, R!Done

\* A job taken up.
LEMMA TakenCounts ==
    ASSUME BillInv, NEW w \in Consumers, NEW changes, R!Set(w, changes), "events" \notin DOMAIN changes,
           {"pc", "job"} \subseteq DOMAIN changes, Addressed(changes.job), changes.pc \notin {"idle", "live"}
    PROVE  DOMAIN consumer' = Consumers /\ \A a \in Consumers : Counts(consumer'[a])
<1> DEFINE x == R!Changed(consumer[w], changes)
<1>1. DOMAIN consumer = Consumers /\ \A a \in Consumers : Counts(consumer[a])
  BY DEF BillInv
<1>2. consumer' = [consumer EXCEPT ![w] = x]
  BY DEF R!Set
<1>3. DOMAIN x = Fields /\ x.job = changes.job /\ x.pc = changes.pc
  BY <1>1, ChangedIs DEF Counts, Fields
<1> HIDE DEF x
<1>4. Counts(x)
  BY <1>3 DEF Counts
<1> QED
  BY <1>1, <1>2, <1>4

\* What a job, its messages and the key ranges stay while no version is finished.
Carries ==
    /\ UNCHANGED <<version, billed>>
    /\ unitRows' \subseteq UNION {{v} \X (1 .. Units[v]) : v \in VersionIds}
    /\ \A m \in queue' : Addressed(m)
    /\ DOMAIN consumer' = Consumers /\ \A w \in Consumers : Counts(consumer'[w])

LEMMA Has ==
    ASSUME BillInv, NEW w \in Consumers
    PROVE  /\ Counts(consumer[w]) /\ Addressed(consumer[w].job) /\ \A m \in queue : Addressed(m)
           /\ DOMAIN consumer = Consumers /\ \A a \in Consumers : Counts(consumer[a])
           /\ unitRows \subseteq UNION {{v} \X (1 .. Units[v]) : v \in VersionIds}
  BY DEF BillInv, Counts

-----------------------------------------------------------------------------
(* The steps that finish no version.                                       *)

LEMMA IndexCarries ==
    ASSUME BillInv, NEW w \in Consumers, NEW v \in VersionIds,
           R!Index(w, v) \/ \E u \in 1 .. Units[v] : R!IndexUnit(w, v, u)
    PROVE  Carries
<1>1. /\ UNCHANGED <<version, billed, unitRows>>
      /\ queue' \subseteq queue \cup {R!UnitJob(v, u) : u \in 1 .. Units[v]}
  BY DEF R!Index, R!IndexUnit
<1>2. \A m \in queue' : Addressed(m)
  BY <1>1, Has, Sent
<1>3. ASSUME NEW u \in 1 .. Units[v], R!IndexOne(w, v, u), Units[v] = 1 => u = 1
      PROVE  DOMAIN consumer' = Consumers /\ \A a \in Consumers : Counts(consumer'[a])
  <2> DEFINE job == IF Units[v] = 1 THEN R!IndexJob(v) ELSE R!UnitJob(v, u)
             out == R!Cut(R!Sorted(R!UnitEvents(v, u)))
             changes == [pc |-> "put", job |-> job, out |-> out]
  <2>1. Addressed(job) /\ R!Set(w, changes)
    BY <1>3, Sent DEF R!IndexOne
  <2> HIDE DEF job, out
  <2>2. DOMAIN changes = {"pc", "job", "out"} /\ changes.job = job /\ changes.pc = "put"
    OBVIOUS
  <2> HIDE DEF changes
  <2> QED
    BY <2>1, <2>2, TakenCounts
<1>4. ASSUME v \in Forked, R!Set(w, [pc |-> "live", job |-> R!IndexJob(v)]), consumer[w].pc = "idle"
      PROVE  DOMAIN consumer' = Consumers /\ \A a \in Consumers : Counts(consumer'[a])
  <2> DEFINE job == R!IndexJob(v)
             changes == [pc |-> "live", job |-> job]
             x == R!Changed(consumer[w], changes)
  <2>1. ForVersion(job) /\ job[2] = v /\ Addressed(job)
    BY Sent DEF ForVersion, R!IndexJob
  <2>2. Cardinality(EventsOf(v)) = 0
    BY <1>4, ForkEmpty
  <2> HIDE DEF job
  <2>3. DOMAIN changes = {"pc", "job"} /\ changes.job = job /\ changes.pc = "live"
    OBVIOUS
  <2> HIDE DEF changes
  <2>4. DOMAIN x = Fields /\ x.job = job /\ x.pc = "live" /\ x.events = consumer[w].events
    <3>1. DOMAIN consumer[w] = Fields
      BY Has DEF Counts
    <3>2. /\ DOMAIN x = Fields
          /\ \A f \in Fields : f \notin DOMAIN changes => x[f] = consumer[w][f]
          /\ \A f \in Fields : f \in DOMAIN changes => x[f] = changes[f]
      BY <3>1, ChangedIs
    <3> HIDE DEF x
    <3> QED
      BY <2>3, <3>2 DEF Fields
  <2>5. consumer' = [consumer EXCEPT ![w] = x]
    BY <1>4 DEF R!Set, changes, job
  <2> HIDE DEF x
  <2>6. consumer[w].events = 0
    BY <1>4, Has DEF Counts
  <2>7. Counts(x)
    BY <2>1, <2>2, <2>4, <2>6 DEF Counts
  <2> QED
    BY <2>5, <2>7, Has
<1>5. DOMAIN consumer' = Consumers /\ \A a \in Consumers : Counts(consumer'[a])
  BY <1>3, <1>4, Has, Given DEF R!Index, R!IndexUnit, R!Receive
<1> QED
  BY <1>1, <1>2, <1>5, Has DEF Carries

LEMMA UnitCarries ==
    ASSUME BillInv, NEW w \in Consumers, R!PutSegments(w) \/ R!InsertUnit(w) PROVE Carries
<1>1. CASE R!PutSegments(w)
  <2>1. R!Set(w, [pc |-> "rows"]) /\ consumer[w].pc = "put" /\ UNCHANGED <<version, billed, unitRows, queue>>
    BY <1>1 DEF R!PutSegments
  <2>2. DOMAIN consumer' = Consumers /\ \A a \in Consumers : Counts(consumer'[a])
    BY <2>1, SetCounts
  <2> QED
    BY <2>1, <2>2, Has DEF Carries
<1>2. CASE R!InsertUnit(w)
  <2>1. /\ R!Set(w, [pc |-> "count", out |-> <<>>]) /\ consumer[w].pc = "rows" /\ UNCHANGED <<version, billed, queue>>
        /\ unitRows' = unitRows \cup {<<consumer[w].job[2], consumer[w].job[3]>>} /\ ForVersion(consumer[w].job)
    BY <1>2 DEF R!InsertUnit, R!Indexing, R!Job, ForVersion
  <2>2. DOMAIN consumer' = Consumers /\ \A a \in Consumers : Counts(consumer'[a])
    BY <2>1, SetCounts
  <2>3. consumer[w].job[2] \in VersionIds /\ consumer[w].job[3] \in 1 .. Units[consumer[w].job[2]]
    BY <2>1, Has DEF Addressed
  <2> QED
    BY <2>1, <2>2, <2>3, Has DEF Carries
<1> QED
  BY <1>1, <1>2

\* All of a version's ranges counted, its events are counted.
LEMMA CountCarries == ASSUME BillInv, NEW w \in Consumers, R!CountUnits(w) PROVE Carries
<1> DEFINE v == consumer[w].job[2]
           units == {r[2] : r \in {x \in unitRows : x[1] = v}}
           events == Cardinality(UNION {R!UnitEvents(v, u) : u \in units})
           changes == [pc |-> "live", events |-> events]
<1>1. /\ UNCHANGED <<version, billed, unitRows, queue>> /\ ForVersion(consumer[w].job) /\ consumer[w].pc = "count"
      /\ IF Cardinality(units) = Units[v] THEN R!Set(w, changes) ELSE R!Done(w)
  BY Shared DEF R!CountUnits, R!Indexing, R!Job, ForVersion
<1>2. v \in VersionIds
  BY <1>1, Has DEF Addressed
<1>3. units \in SUBSET (1 .. Units[v])
  <2> SUFFICES ASSUME NEW r \in unitRows, r[1] = v PROVE r[2] \in 1 .. Units[v]
    OBVIOUS
  <2>1. PICK u \in VersionIds : r \in {u} \X (1 .. Units[u])
    BY Has
  <2> QED
    BY <2>1
<1>4. CASE Cardinality(units) = Units[v]
  <2> DEFINE x == R!Changed(consumer[w], changes)
  <2>1. events = Cardinality(EventsOf(v))
    BY <1>2, <1>3, <1>4, AllUnits
  <2>2. consumer' = [consumer EXCEPT ![w] = x]
    BY <1>1, <1>4 DEF R!Set
  <2> HIDE DEF events
  <2>3. DOMAIN changes = {"pc", "events"} /\ changes.pc = "live" /\ changes.events = events
    OBVIOUS
  <2> HIDE DEF changes, units
  <2>4. DOMAIN x = Fields /\ x.job = consumer[w].job /\ x.pc = "live" /\ x.events = events
    <3>1. DOMAIN consumer[w] = Fields
      BY Has DEF Counts
    <3>2. /\ DOMAIN x = Fields
          /\ \A f \in Fields : f \notin DOMAIN changes => x[f] = consumer[w][f]
          /\ \A f \in Fields : f \in DOMAIN changes => x[f] = changes[f]
      BY <3>1, ChangedIs
    <3> HIDE DEF x
    <3> QED
      BY <2>3, <3>2 DEF Fields
  <2> HIDE DEF x
  <2>5. Counts(x)
    BY <1>1, <1>2, <2>1, <2>4, Has DEF Counts
  <2> QED
    BY <1>1, <2>2, <2>5, Has DEF Carries
<1>5. CASE Cardinality(units) # Units[v]
  BY <1>1, <1>5, DoneCounts, Has DEF Carries
<1> QED
  BY <1>4, <1>5

LEMMA PlanCarries ==
    ASSUME BillInv, NEW w \in Consumers, R!Announce(w) \/ R!Plan(w) \/ R!InsertMerge(w) PROVE Carries
<1>1. CASE R!Announce(w)
  <2>1. R!Done(w) /\ queue' = queue \cup {R!PlanJob} /\ UNCHANGED <<version, billed, unitRows>>
    BY <1>1 DEF R!Announce
  <2> QED
    BY <2>1, DoneCounts, Sent, Has DEF Carries
<1>2. CASE R!Plan(w)
  <2>1. queue' = queue \ {R!PlanJob} /\ UNCHANGED <<version, billed, unitRows>>
        /\ (UNCHANGED consumer \/ R!Set(w, [pc |-> "pick", job |-> R!PlanJob]))
    BY <1>2 DEF R!Plan
  <2>2. ASSUME R!Set(w, [pc |-> "pick", job |-> R!PlanJob])
        PROVE  DOMAIN consumer' = Consumers /\ \A a \in Consumers : Counts(consumer'[a])
    BY <2>2, TakenCounts, Sent
  <2> QED
    BY <2>1, <2>2, Has DEF Carries
<1>3. CASE R!InsertMerge(w)
  <2>1. R!Done(w) /\ UNCHANGED <<version, billed, unitRows>>
        /\ \E n, k : queue' \subseteq queue \cup {R!PartJob(n, p) : p \in 1 .. k}
    <3>1. CASE queue' = queue
      BY <1>3, <3>1 DEF R!InsertMerge
    <3>2. CASE queue' # queue
      <4>1. \E runs : queue' = queue \cup
               {R!PartJob(Len(merge'), p) : p \in 1 .. IF R!MapThenSumSet(LAMBDA id : segment[id].count, R!RowsOf(runs)) > PartEvents
                                                       THEN 2 ELSE 1}
        BY <1>3, <3>2 DEF R!InsertMerge
      <4> QED
        BY <1>3, <4>1 DEF R!InsertMerge
    <3> QED
      BY <3>1, <3>2
  <2>2. \A m \in queue' : Addressed(m)
    BY <2>1, Sent, Has
  <2> QED
    BY <2>1, <2>2, DoneCounts, Has DEF Carries
<1> QED
  BY <1>1, <1>2, <1>3

LEMMA BeginCarries ==
    ASSUME BillInv, NEW w \in Consumers, NEW k, R!BeginFinish(w, k) \/ \E p \in R!Parts : R!BeginPart(w, k, p) PROVE Carries
<1>1. PICK m, pc, segs : /\ R!Begin(w, m, pc, segs) /\ Addressed(m) /\ pc \in {"merge", "swap"}
  BY Sent DEF R!BeginFinish, R!BeginPart
<1>2. queue' = queue \ {m} /\ UNCHANGED <<version, billed, unitRows>>
      /\ (UNCHANGED consumer \/ R!Set(w, [pc |-> pc, job |-> m, segs |-> segs]))
  BY <1>1 DEF R!Begin
<1>3. ASSUME R!Set(w, [pc |-> pc, job |-> m, segs |-> segs])
      PROVE  DOMAIN consumer' = Consumers /\ \A a \in Consumers : Counts(consumer'[a])
  BY <1>1, <1>3, TakenCounts
<1> QED
  BY <1>2, <1>3, Has DEF Carries

LEMMA MergeCarries == ASSUME BillInv, NEW w \in Consumers, R!MergePart(w) PROVE Carries
<1>1. /\ UNCHANGED <<version, billed, unitRows>> /\ consumer[w].pc = "merge"
      /\ \/ R!Done(w) /\ queue' = queue \cup {consumer[w].job}
         \/ queue' = queue /\ \E out : R!Set(w, [pc |-> "put", out |-> out, segs |-> {}])
  BY DEF R!MergePart
<1>2. ASSUME NEW out, R!Set(w, [pc |-> "put", out |-> out, segs |-> {}])
      PROVE  DOMAIN consumer' = Consumers /\ \A a \in Consumers : Counts(consumer'[a])
  BY <1>1, <1>2, SetCounts
<1> QED
  BY <1>1, <1>2, DoneCounts, Has DEF Carries

LEMMA SwapCarries ==
    ASSUME BillInv, NEW w \in Consumers, R!InsertPart(w) \/ R!CountParts(w) \/ R!Swap(w) \/ R!DeleteObjects(w) \/ R!DeleteRows(w)
    PROVE  Carries
<1>1. UNCHANGED <<version, billed, unitRows>> /\ \A m \in queue' : Addressed(m)
  BY Has, Sent DEF R!InsertPart, R!CountParts, R!Swap, R!DeleteObjects, R!DeleteRows
<1>2. \/ R!Set(w, [pc |-> "count", out |-> <<>>]) \/ R!Set(w, [pc |-> "delete"]) \/ R!Set(w, [pc |-> "announce"])
      \/ R!Done(w) \/ (consumer[w].pc = "delete" /\ R!Set(w, [segs |-> {}]))
  BY DEF R!InsertPart, R!CountParts, R!Swap, R!DeleteObjects, R!DeleteRows
<1>3. DOMAIN consumer' = Consumers /\ \A a \in Consumers : Counts(consumer'[a])
  <2>1. ASSUME R!Set(w, [pc |-> "count", out |-> <<>>])
        PROVE  DOMAIN consumer' = Consumers /\ \A a \in Consumers : Counts(consumer'[a])
    BY <2>1, SetCounts
  <2>2. ASSUME R!Set(w, [pc |-> "delete"]) \/ R!Set(w, [pc |-> "announce"])
        PROVE  DOMAIN consumer' = Consumers /\ \A a \in Consumers : Counts(consumer'[a])
    BY <2>2, SetCounts
  <2>3. ASSUME consumer[w].pc = "delete", R!Set(w, [segs |-> {}])
        PROVE  DOMAIN consumer' = Consumers /\ \A a \in Consumers : Counts(consumer'[a])
    BY <2>3, SetCounts
  <2> QED
    BY <1>2, <2>1, <2>2, <2>3, DoneCounts
<1> QED
  BY <1>1, <1>3, Has DEF Carries

LEMMA UpsetCarries == ASSUME BillInv, NEW w \in Consumers, R!Crash(w) \/ R!Redeliver(w) PROVE Carries
<1>1. /\ UNCHANGED <<version, billed, unitRows>> /\ queue' = queue \cup {consumer[w].job}
      /\ (R!Done(w) \/ UNCHANGED consumer)
  BY DEF R!Crash, R!Redeliver
<1> QED
  BY <1>1, DoneCounts, Has DEF Carries

LEMMA CarriesBilled == ASSUME BillInv, Carries PROVE BillInv'
  BY DEF BillInv, Carries, BilledOnce, Gone

-----------------------------------------------------------------------------
(* A version is finished, or gone with its collection.                     *)

LEMMA IndexedCounted ==
    ASSUME NEW c PROVE IsFiniteSet(IndexedOf(c)) /\ Cardinality(IndexedOf(c)) \in Nat
<1>1. IndexedOf(c) \subseteq AllEvents
  BY DEF IndexedOf
<1> QED
  BY <1>1, EventsFinite, FS_Subset, FS_CardinalityType

LEMMA FinishBilled == ASSUME BillInv, NEW w \in Consumers, R!FinishIndex(w) PROVE BillInv'
<1> DEFINE v == consumer[w].job[2]
           n == consumer[w].events
           c == Collection[v]
<1>1. v \in VersionIds /\ n = Cardinality(EventsOf(v)) /\ n \in Nat /\ c \in Range(Collection)
  BY Has, EventsCounted DEF R!FinishIndex, Counts, Range, VersionIds
<1>2. /\ version \in [VersionIds -> {"unindexed", "indexed", "gone"}] /\ billed \in [Range(Collection) -> Nat]
      /\ BilledOnce
  BY DEF BillInv
<1>3. /\ billed' = [billed EXCEPT ![c] = billed[c] + R!BilledFor(v, n)]
      /\ version' = [version EXCEPT ![v] = IF version[v] = "gone" THEN "gone" ELSE "indexed"]
      /\ unitRows' = {r \in unitRows : r[1] # v} /\ queue' = queue /\ R!Set(w, [pc |-> "announce"])
      /\ consumer[w].pc = "live"
  BY DEF R!FinishIndex
<1>4. DOMAIN consumer' = Consumers /\ \A a \in Consumers : Counts(consumer'[a])
  BY <1>3, SetCounts
<1>5. R!BilledFor(v, n) \in Nat
  BY <1>1 DEF R!BilledFor
<1>6. billed' \in [Range(Collection) -> Nat] /\ version' \in [VersionIds -> {"unindexed", "indexed", "gone"}]
  BY <1>1, <1>2, <1>3, <1>5
<1>7. unitRows' \subseteq UNION {{u} \X (1 .. Units[u]) : u \in VersionIds} /\ \A m \in queue' : Addressed(m)
  BY <1>3, Has
<1>8. Gone' = Gone
  <2>1. \A u \in VersionIds : version'[u] = "gone" <=> version[u] = "gone"
    BY <1>1, <1>2, <1>3
  <2> QED
    BY <2>1 DEF Gone
<1>9. ASSUME NEW d \in Range(Collection), d \notin Gone PROVE billed'[d] = Cardinality(IndexedOf(d)')
  <2>1. billed[d] = Cardinality(IndexedOf(d))
    BY <1>2, <1>9 DEF BilledOnce, IndexedOf
  <2>2. CASE d # c \/ version[v] # "unindexed"
    <3>1. billed'[d] = billed[d]
      <4>1. CASE d # c
        BY <1>2, <1>3, <4>1
      <4>2. CASE d = c /\ version[v] # "unindexed"
        <5>1. R!BilledFor(v, n) = 0 /\ billed[d] \in Nat
          BY <1>2, <4>2 DEF R!BilledFor
        <5> QED
          BY <1>2, <1>3, <4>2, <5>1
      <4> QED
        BY <2>2, <4>1, <4>2
    <3>2. IndexedOf(d)' = IndexedOf(d)
      <4>1. \A e \in AllEvents : Collection[VersionOf[e]] = d =>
               (version'[VersionOf[e]] = "indexed" <=> version[VersionOf[e]] = "indexed")
        BY <1>1, <1>2, <1>3, <2>2, Given
      <4> QED
        BY <4>1 DEF IndexedOf
    <3> QED
      BY <2>1, <3>1, <3>2
  <2>3. CASE d = c /\ version[v] = "unindexed"
    <3>1. billed'[d] = billed[d] + n
      BY <1>1, <1>2, <1>3, <2>3 DEF R!BilledFor
    <3>2. IndexedOf(d)' = IndexedOf(d) \cup EventsOf(v)
      <4>1. \A e \in AllEvents : version'[VersionOf[e]] = "indexed" <=>
                                    version[VersionOf[e]] = "indexed" \/ VersionOf[e] = v
        BY <1>1, <1>2, <1>3, <2>3, Given
      <4> QED
        BY <2>3, <4>1 DEF IndexedOf, EventsOf
    <3>3. IndexedOf(d) \cap EventsOf(v) = {}
      BY <2>3 DEF IndexedOf, EventsOf
    <3>4. Cardinality(IndexedOf(d) \cup EventsOf(v)) = Cardinality(IndexedOf(d)) + Cardinality(EventsOf(v))
      <4>1. IsFiniteSet(IndexedOf(d)) /\ IsFiniteSet(EventsOf(v)) /\ Cardinality(IndexedOf(d)) \in Nat
            /\ Cardinality(EventsOf(v)) \in Nat /\ Cardinality({}) = 0
        BY IndexedCounted, EventsCounted, FS_EmptySet
      <4>2. Cardinality(IndexedOf(d) \cup EventsOf(v))
              = Cardinality(IndexedOf(d)) + Cardinality(EventsOf(v)) - Cardinality(IndexedOf(d) \cap EventsOf(v))
        BY <4>1, FS_Union
      <4>3. Cardinality(IndexedOf(d) \cap EventsOf(v)) = 0
        BY <3>3, FS_EmptySet
      <4> HIDE DEF v
      <4> QED
        BY <4>1, <4>2, <4>3
    <3> QED
      BY <1>1, <2>1, <3>1, <3>2, <3>4
  <2> QED
    BY <2>2, <2>3
<1>10. BilledOnce'
  BY <1>8, <1>9 DEF BilledOnce, IndexedOf
<1> QED
  BY <1>4, <1>6, <1>7, <1>10 DEF BillInv

LEMMA DeleteBilled == ASSUME BillInv, NEW c, R!DeleteCollection(c) PROVE BillInv'
<1>1. /\ version \in [VersionIds -> {"unindexed", "indexed", "gone"}] /\ BilledOnce
      /\ version' = [v \in VersionIds |-> IF Collection[v] = c THEN "gone" ELSE version[v]]
      /\ UNCHANGED <<billed, unitRows, queue, consumer>>
  BY Shared DEF BillInv, R!DeleteCollection
<1>2. version' \in [VersionIds -> {"unindexed", "indexed", "gone"}]
  BY <1>1
<1>3. ASSUME NEW d \in Range(Collection), d \notin Gone' PROVE billed[d] = Cardinality(IndexedOf(d)')
  <2>1. d \notin Gone
    <3>1. \A v \in VersionIds : version[v] = "gone" => version'[v] = "gone"
      BY <1>1
    <3> QED
      BY <1>3, <3>1 DEF Gone
  <2>2. d # c
    <3>1. PICK v \in VersionIds : d = Collection[v]
      BY DEF Range, VersionIds
    <3> QED
      BY <1>1, <1>3, <3>1 DEF Gone
  <2>3. IndexedOf(d)' = IndexedOf(d)
    <3>1. \A e \in AllEvents : Collection[VersionOf[e]] = d => version'[VersionOf[e]] = version[VersionOf[e]]
      BY <1>1, <2>2, Given
    <3> QED
      BY <3>1 DEF IndexedOf
  <2> QED
    BY <1>1, <2>1, <2>3 DEF BilledOnce, IndexedOf
<1>4. BilledOnce'
  BY <1>1, <1>3 DEF BilledOnce, IndexedOf
<1> QED
  BY <1>1, <1>2, <1>4 DEF BillInv

-----------------------------------------------------------------------------
(* The invariant, and what follows from it.                                *)

LEMMA InitBill == ASSUME R!Init PROVE BillInv
<1>1. version \in [VersionIds -> {"unindexed", "indexed", "gone"}] /\ billed \in [Range(Collection) -> Nat]
      /\ unitRows = {}
  BY Shared DEF R!Init
<1>2. \A m \in queue : Addressed(m)
  BY Sent, Shared DEF R!Init
<1>3. DOMAIN consumer = Consumers /\ \A w \in Consumers : Counts(consumer[w])
  BY IdleCounts DEF R!Init
<1>4. ASSUME NEW c \in Range(Collection) PROVE billed[c] = Cardinality(IndexedOf(c))
  <2>1. IndexedOf(c) = {} /\ billed[c] = 0
    BY Given, Shared DEF R!Init, IndexedOf
  <2> QED
    BY <2>1, FS_EmptySet
<1>5. BilledOnce
  BY <1>4 DEF BilledOnce, IndexedOf
<1> QED
  BY <1>1, <1>2, <1>3, <1>5 DEF BillInv

LEMMA BillStep == ASSUME BillInv, [R!Next]_(R!vars) PROVE BillInv'
<1>1. CASE UNCHANGED R!vars
  BY <1>1, CarriesBilled DEF BillInv, Carries, R!vars
<1>2. ASSUME NEW c \in Deletable, R!DeleteCollection(c) PROVE BillInv'
  BY <1>2, DeleteBilled
<1>3. ASSUME NEW w \in Consumers, R!Take(w) PROVE BillInv'
  BY <1>3, IndexCarries, PlanCarries, BeginCarries, CarriesBilled, Shared DEF R!Take
<1>4. ASSUME NEW w \in Consumers, R!Step(w) PROVE BillInv'
  BY <1>4, UnitCarries, CountCarries, FinishBilled, PlanCarries, MergeCarries, SwapCarries, CarriesBilled DEF R!Step
<1>5. ASSUME NEW w \in Consumers, R!Crash(w) \/ R!Redeliver(w) PROVE BillInv'
  BY <1>5, UpsetCarries, CarriesBilled
<1> QED
  BY <1>1, <1>2, <1>3, <1>4, <1>5 DEF R!Next

LEMMA BillInvariant == R!Spec => []BillInv
<1>1. R!Init => BillInv
  BY InitBill
<1>2. BillInv /\ [R!Next]_(R!vars) => BillInv'
  BY BillStep
<1> QED
  BY <1>1, <1>2, PTL DEF R!Spec

\* However many jobs finish a version, in whatever order, and whoever dies between two
\* writes, a collection is billed for the events of its indexed versions, each once
\* (log.ts 311-315).
THEOREM BilledExactlyOnce == R!Spec => []BilledOnce
<1>1. BillInv => BilledOnce
  BY DEF BillInv
<1> QED
  BY <1>1, BillInvariant, PTL
=============================================================================
