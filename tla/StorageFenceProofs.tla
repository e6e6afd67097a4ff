------------------------- MODULE StorageFenceProofs -------------------------
(***************************************************************************)
(* Proofs about StorageFence, for any objects, writers and sweep jobs and  *)
(* any settings that satisfy FenceTiming.                                  *)
(***************************************************************************)
EXTENDS StorageFence, TLAPS

\* Every variable keeps its type: writers and jobs only ever hold epochs,
\* times and objects that exist.
LEMMA TypeStep == TypeOK /\ [Next]_vars => TypeOK'
<1> USE FenceConstants DEF TypeOK, Fence
<1> SUFFICES ASSUME TypeOK, [Next]_vars PROVE TypeOK'
  OBVIOUS
<1>1. CASE UNCHANGED vars
  BY <1>1 DEF vars
<1>2. CASE Tick
  BY <1>2 DEF Tick
<1>3. ASSUME NEW i \in Writers, WriterNext(i) PROVE TypeOK'
  <2>0. w[i] \in WriterState /\ now \in Nat /\ fence.epoch \in Nat
    OBVIOUS
  <2>1. ASSUME NEW c \in Collections, NEW O \in SUBSET Objects \ {{}}, Begin(i, c, O)
        PROVE TypeOK'
    <3>1. w'[i] \in WriterState
      BY <2>1 DEF Begin, WriterState, WriterPcs
    <3> QED
      BY <2>1, <3>1 DEF Begin
  <2>2. ASSUME NEW o \in Objects, Put(i, o) PROVE TypeOK'
    <3> DEFINE r == [w[i] EXCEPT !.done = w[i].done \cup {o}]
    <3>1. r \in WriterState
      BY <2>0 DEF WriterState
    <3>2. w' = [w EXCEPT ![i] = r]
      BY <2>2 DEF Put
    <3> HIDE DEF r
    <3>3. ASSUME NEW f \in StoredForms(i, o) PROVE f \in Objects \cup {NoObject}
      BY DEF StoredForms
    <3>4. w' \in [Writers -> WriterState]
      BY <3>1, <3>2
    <3>5. base' \in [Objects -> Objects \cup {NoObject}]
      BY <2>2, <3>3 DEF Put
    <3>6. born' \in [Objects -> Nat] /\ store' \subseteq Objects /\ live' = live
      BY <2>2 DEF Put, Write
    <3> QED
      BY <2>2, <3>4, <3>5, <3>6 DEF Put
  <2>3. CASE ReadFence(i)
    <3>1. [w[i] EXCEPT !.pc = "writing", !.epoch = fence.epoch, !.done = {},
                       !.since = 0, !.first = 0] \in WriterState
      BY <2>0 DEF WriterState, WriterPcs
    <3> QED
      BY <2>3, <3>1 DEF ReadFence
  <2>4. CASE GiveUp(i) \/ BaseMoved(i) \/ Fail(i) \/ WriterDies(i)
    <3>1. IdleWriter(w[i].by) \in WriterState
      BY <2>0 DEF WriterState, WriterPcs, IdleWriter
    <3> QED
      BY <2>4, <3>1 DEF GiveUp, BaseMoved, Fail, WriterDies
  <2>5. CASE Stamp(i)
    <3>1. [w[i] EXCEPT !.pc = "stamped", !.stamp = now] \in WriterState
      BY <2>0 DEF WriterState, WriterPcs
    <3> QED
      BY <2>5, <3>1 DEF Stamp
  <2>6. CASE Publish(i)
    <3>1. IdleWriter(w[i].by) \in WriterState /\ NewVersion(i) \in Version
      BY <2>0 DEF WriterState, WriterPcs, IdleWriter, NewVersion, Version
    <3>2. w[i].by \in Collections
      BY <2>0 DEF WriterState
    <3> QED
      BY <2>6, <3>1, <3>2 DEF Publish
  <2>7. CASE Refused(i)
    <3> DEFINE r == [w[i] EXCEPT !.pc = "refused",
                                 !.cause = IF HeadIsBase(i) THEN "fence" ELSE "head"]
    <3>1. r \in WriterState
      BY <2>0 DEF WriterState, WriterPcs
    <3>2. w' = [w EXCEPT ![i] = r]
      BY <2>7 DEF Refused
    <3> HIDE DEF r
    <3> QED
      BY <2>7, <3>1, <3>2 DEF Refused
  <2>8. CASE Redo(i)
    <3> DEFINE r == [w[i] EXCEPT !.pc = "fence", !.attempt = w[i].attempt + 1, !.since = now,
                                 !.first = fence.epoch, !.done = {}, !.epoch = 0,
                                 !.stamp = 0, !.cause = "none"]
    <3>0. w[i].attempt + 1 \in Nat
      BY <2>0 DEF WriterState
    <3>1. r \in WriterState
      BY <2>0, <3>0 DEF WriterState, WriterPcs
    <3>2. w' = [w EXCEPT ![i] = r]
      BY <2>8 DEF Redo
    <3> HIDE DEF r
    <3> QED
      BY <2>8, <3>1, <3>2 DEF Redo
  <2> QED
    BY <1>3, <2>1, <2>2, <2>3, <2>4, <2>5, <2>6, <2>7, <2>8 DEF WriterNext
<1>4. ASSUME NEW i \in Sweepers, SweeperNext(i) PROVE TypeOK'
  <2>0. /\ s[i] \in SweeperState
        /\ Recent(i) \subseteq Objects
        /\ Closure(Reached) \subseteq Objects
    BY DEF Closure, Recent, Reached, Version
  <2>1. ASSUME NEW r \in Runs, Mark(i, r) PROVE TypeOK'
    <3>1. [IdleSweeper EXCEPT !.pc = "marked", !.run = r, !.marks = Closure(Reached),
                              !.markAt = now] \in SweeperState
      BY <2>0 DEF IdleSweeper, SweeperState, SweeperPcs
    <3> QED
      BY <2>1, <3>1 DEF Mark
  <2>2. CASE List(i)
    <3> DEFINE r == [s[i] EXCEPT !.pc = "listed",
                       !.candidates = {o \in store \ s[i].marks : born[o] + MinAge <= now}]
    <3>1. r \in SweeperState
      BY <2>0 DEF SweeperState, SweeperPcs
    <3>2. s' = [s EXCEPT ![i] = r]
      BY <2>2 DEF List
    <3> HIDE DEF r
    <3> QED
      BY <2>2, <3>1, <3>2 DEF List
  <2>3. CASE HoldOff(i)
    <3>1. [s[i] EXCEPT !.pc = "marked", !.candidates = {}] \in SweeperState
      BY <2>0 DEF SweeperState, SweeperPcs
    <3> QED
      BY <2>3, <3>1 DEF HoldOff
  <2>4. CASE NoPushCommitting(i) \/ StopDeleting(i) \/ RemarkFails(i)
    <3>1. /\ [s[i] EXCEPT !.pc = "clear"] \in SweeperState
          /\ [s[i] EXCEPT !.pc = "closing"] \in SweeperState
      BY <2>0 DEF SweeperState, SweeperPcs
    <3> QED
      BY <2>4, <3>1 DEF NoPushCommitting, StopDeleting, RemarkFails
  <2>5. CASE RemarkOutside(i)
    <3> DEFINE r == [s[i] EXCEPT !.pc = "remarked", !.marks = s[i].marks \cup Recent(i)]
    <3>1. r \in SweeperState
      BY <2>0 DEF SweeperState, SweeperPcs
    <3>2. s' = [s EXCEPT ![i] = r]
      BY <2>5 DEF RemarkOutside
    <3> HIDE DEF r
    <3> QED
      BY <2>5, <3>1, <3>2 DEF RemarkOutside
  <2>6. CASE RemarkInside(i)
    <3> DEFINE r == [s[i] EXCEPT !.pc = "deleting", !.marks = s[i].marks \cup Recent(i),
                           !.group = s[i].group \ (s[i].marks \cup Recent(i))]
    <3>1. r \in SweeperState
      BY <2>0 DEF SweeperState, SweeperPcs
    <3>2. s' = [s EXCEPT ![i] = r]
      BY <2>6 DEF RemarkInside
    <3> HIDE DEF r
    <3> QED
      BY <2>6, <3>1, <3>2 DEF RemarkInside
  <2>7. ASSUME NEW g \in SUBSET Objects \ {{}}, OpenWindow(i, g) PROVE TypeOK'
    <3> DEFINE r == [s[i] EXCEPT !.pc = "window", !.group = g, !.candidates = s[i].candidates \ g,
                           !.epoch = fence.epoch + 1, !.until = now + Window]
    <3>0. fence.epoch + 1 \in Nat /\ now + Window \in Nat /\ s[i].candidates \ g \in SUBSET Objects
      BY <2>0 DEF SweeperState
    <3>1. r \in SweeperState
      BY <2>0, <3>0 DEF SweeperState, SweeperPcs
    <3>2. s' = [s EXCEPT ![i] = r]
      BY <2>7 DEF OpenWindow
    <3>3. s[i].run \in Runs \cup {NoRun}
      BY <2>0 DEF SweeperState
    <3> HIDE DEF r
    <3> QED
      BY <2>7, <3>1, <3>2, <3>3 DEF OpenWindow
  <2>8. ASSUME NEW g \in SUBSET Objects \ {{}}, IssueDeletes(i, g) PROVE TypeOK'
    <3> DEFINE r == [s[i] EXCEPT !.group = s[i].group \ g]
    <3>1. r \in SweeperState
      BY <2>0 DEF SweeperState
    <3>2. s' = [s EXCEPT ![i] = r]
      BY <2>8 DEF IssueDeletes
    <3>3. s[i].epoch \in Nat
      BY <2>0 DEF SweeperState
    <3> HIDE DEF r
    <3>4. inflight' \subseteq Request
      BY <2>8, <3>3 DEF IssueDeletes, Request
    <3> QED
      BY <2>8, <3>1, <3>2, <3>4 DEF IssueDeletes
  <2>9. CASE CloseWindow(i)
    <3> DEFINE r == [s[i] EXCEPT !.pc = IF s[i].candidates = {} THEN "marked" ELSE "remarked",
                                 !.group = {}, !.epoch = 0, !.until = NoTime]
    <3>1. r \in SweeperState
      BY <2>0 DEF SweeperState, SweeperPcs
    <3>2. s' = [s EXCEPT ![i] = r]
      BY <2>9 DEF CloseWindow
    <3> HIDE DEF r
    <3> QED
      BY <2>9, <3>1, <3>2 DEF CloseWindow
  <2>10. CASE SweeperEnds(i)
    <3>1. IdleSweeper \in SweeperState
      BY DEF SweeperState, SweeperPcs, IdleSweeper
    <3> QED
      BY <2>10, <3>1 DEF SweeperEnds
  <2> QED
    BY <1>4, <2>1, <2>2, <2>3, <2>4, <2>5, <2>6, <2>7, <2>8, <2>9, <2>10 DEF SweeperNext
<1>5. ASSUME NEW d \in inflight, Land(d) \/ LandFails(d) PROVE TypeOK'
  BY <1>5 DEF Land, LandFails, Request, SweeperState, SweeperPcs
<1>6. ASSUME NEW c \in Collections, DropCollection(c) PROVE TypeOK'
  BY <1>6 DEF DropCollection, Drop
<1> QED
  BY <1>1, <1>2, <1>3, <1>4, <1>5, <1>6 DEF Next

LEMMA TypeInit == Init => TypeOK
  BY FenceConstants DEF Init, TypeOK, Fence, WriterState, WriterPcs, SweeperState,
     SweeperPcs, IdleWriter, IdleSweeper, NoTime

\* Type correctness of the fence row, the repository, writers and jobs.
THEOREM TypeCorrect == Spec => []TypeOK
  BY TypeInit, TypeStep, PTL DEF Spec

-----------------------------------------------------------------------------
(* What the steps of jobs and writers do to the fields the invariant is    *)
(* about, kind by kind.                                                    *)

JobEnds(i) == s'[i].pc = "idle" /\ UNCHANGED <<fence, inflight>>

JobMarks(i) ==
    /\ s'[i].pc = "marked"
    /\ s'[i].marks = Closure(Reached) /\ s'[i].markAt = now
    /\ UNCHANGED <<fence, inflight>>

SameMark(i) == s'[i].marks = s[i].marks /\ s'[i].markAt = s[i].markAt

MoreMarks(i) == s[i].marks \subseteq s'[i].marks /\ s'[i].markAt = s[i].markAt

SameWindow(i) ==
    s'[i].epoch = s[i].epoch /\ s'[i].until = s[i].until /\ s'[i].run = s[i].run

JobPrepares(i) ==
    /\ s[i].pc \in {"marked", "listed", "remarked", "clear"}
    /\ s'[i].pc \in {"marked", "listed", "remarked", "clear"}
    /\ MoreMarks(i)
    /\ UNCHANGED <<fence, inflight>>

JobOpens(i) ==
    /\ s[i].pc = "clear" /\ ~WindowOpen
    /\ s'[i].pc = "window" /\ SameMark(i)
    /\ s'[i].epoch = fence.epoch + 1 /\ s'[i].until = now + Window
    /\ s'[i].run = s[i].run
    /\ fence'.epoch = fence.epoch + 1 /\ fence'.until = now + Window
    /\ fence'.run = s[i].run
    /\ inflight' = inflight

JobDecides(i) ==
    /\ s[i].pc = "window" /\ s'[i].pc \in {"deleting", "closing"}
    /\ MoreMarks(i) /\ SameWindow(i)
    /\ s'[i].pc = "deleting" => s'[i].group \cap (s[i].marks \cup Recent(i)) = {}
    /\ UNCHANGED <<fence, inflight>>

JobIssues(i) ==
    /\ s[i].pc = "deleting" /\ s'[i].pc = "deleting"
    /\ WindowStillOpen(i)
    /\ SameMark(i) /\ SameWindow(i) /\ s'[i].group \subseteq s[i].group
    /\ fence' = fence
    /\ \A d \in inflight' \ inflight :
          d.of \in s[i].group /\ d.epoch = s[i].epoch /\ d.at = now

JobStops(i) ==
    /\ s[i].pc = "deleting" /\ s'[i].pc = "closing"
    /\ Awaiting(i) = {}
    /\ SameMark(i) /\ SameWindow(i)
    /\ UNCHANGED <<fence, inflight>>

JobCloses(i) ==
    /\ s[i].pc = "closing" /\ s'[i].pc \in {"marked", "remarked"}
    /\ SameMark(i)
    /\ inflight' = inflight
    /\ \/ fence' = fence
       \/ OwnWindow(i) /\ fence'.epoch = fence.epoch + 1 /\ fence'.until = NoTime

LEMMA SweeperFields ==
  ASSUME TypeOK, NEW i \in Sweepers, SweeperNext(i)
  PROVE  /\ UNCHANGED <<now, store, live, born, base, rows, count, w>>
         /\ \A j \in Sweepers \ {i} : s'[j] = s[j]
         /\ \/ JobEnds(i) \/ JobMarks(i) \/ JobPrepares(i) \/ JobOpens(i)
            \/ JobDecides(i) \/ JobIssues(i) \/ JobStops(i) \/ JobCloses(i)
<1> DEFINE Frame == /\ UNCHANGED <<now, store, live, born, base, rows, count, w>>
                    /\ \A j \in Sweepers \ {i} : s'[j] = s[j]
<1> USE DEF SameMark, MoreMarks, SameWindow
<1>0. s[i] \in SweeperState /\ DOMAIN s = Sweepers
  BY DEF TypeOK
<1>1. ASSUME NEW r \in Runs, Mark(i, r) PROVE Frame /\ JobMarks(i)
  BY <1>0, <1>1 DEF Mark, IdleSweeper, JobMarks
<1>2. List(i) => Frame /\ JobPrepares(i)
  BY <1>0 DEF List, JobPrepares
<1>3. RemarkOutside(i) => Frame /\ JobPrepares(i)
  BY <1>0 DEF RemarkOutside, JobPrepares
<1>4. NoPushCommitting(i) => Frame /\ JobPrepares(i)
  BY <1>0 DEF NoPushCommitting, JobPrepares
<1>5. HoldOff(i) => Frame /\ JobPrepares(i)
  BY <1>0 DEF HoldOff, JobPrepares
<1>6. ASSUME NEW g \in SUBSET Objects \ {{}}, OpenWindow(i, g) PROVE Frame /\ JobOpens(i)
  BY <1>0, <1>6 DEF OpenWindow, JobOpens
<1>7. RemarkInside(i) => Frame /\ JobDecides(i)
  BY <1>0 DEF RemarkInside, JobDecides
<1>8. RemarkFails(i) => Frame /\ JobDecides(i)
  BY <1>0 DEF RemarkFails, JobDecides
<1>9. ASSUME NEW g \in SUBSET Objects \ {{}}, IssueDeletes(i, g) PROVE Frame /\ JobIssues(i)
  BY <1>0, <1>9 DEF IssueDeletes, JobIssues
<1>10. StopDeleting(i) => Frame /\ JobStops(i)
  BY <1>0 DEF StopDeleting, JobStops
<1>11. CloseWindow(i) => Frame /\ JobCloses(i)
  BY <1>0 DEF CloseWindow, JobCloses
<1>12. SweeperEnds(i) => Frame /\ JobEnds(i)
  BY <1>0 DEF SweeperEnds, IdleSweeper, JobEnds
<1> HIDE DEF Frame
<1>13. Frame
  BY <1>1, <1>2, <1>3, <1>4, <1>5, <1>6, <1>7, <1>8, <1>9, <1>10, <1>11, <1>12 DEF SweeperNext
<1>14. \/ JobEnds(i) \/ JobMarks(i) \/ JobPrepares(i) \/ JobOpens(i)
       \/ JobDecides(i) \/ JobIssues(i) \/ JobStops(i) \/ JobCloses(i)
  BY <1>1, <1>2, <1>3, <1>4, <1>5, <1>6, <1>7, <1>8, <1>9, <1>10, <1>11, <1>12 DEF SweeperNext
<1> QED
  BY <1>13, <1>14 DEF Frame

SameRepository == UNCHANGED <<store, live, born, base, count>>

WriterWaits(i) ==
    /\ w'[i].pc = "fence" /\ w'[i].since = now /\ w'[i].first = fence.epoch
    /\ SameRepository

WriterReads(i) ==
    /\ w'[i].pc = "writing" /\ ~WindowOpen
    /\ w'[i].epoch = fence.epoch /\ w'[i].done = {}
    /\ SameRepository

WriterPuts(i) ==
    /\ w[i].pc = "writing" /\ w'[i].pc = "writing"
    /\ w'[i].epoch = w[i].epoch
    /\ \E o \in Objects : w'[i].done = w[i].done \cup {o} /\ store' = store \cup {o}
    /\ ~Deltas /\ base = [o \in Objects |-> NoObject] => base' = base
    /\ UNCHANGED <<live, count>>

WriterStamps(i) ==
    /\ w[i].pc = "writing" /\ w'[i].pc = "stamped"
    /\ w'[i].epoch = w[i].epoch /\ w'[i].needs = w[i].needs
    /\ w'[i].done = w[i].done /\ w[i].done = w[i].needs /\ w'[i].stamp = now
    /\ SameRepository

WriterPublishes(i) ==
    /\ w[i].pc = "stamped" /\ w'[i].pc = "idle"
    /\ FenceHolds(w[i].epoch)
    /\ live' = live \cup {NewVersion(i)}
    /\ UNCHANGED <<store, born, base>>

WriterRefused(i) ==
    /\ w[i].pc = "stamped" /\ w'[i].pc = "refused"
    /\ w'[i].epoch = w[i].epoch
    /\ w'[i].cause = "fence" => ~FenceHolds(w[i].epoch)
    /\ SameRepository

WriterStops(i) == w'[i].pc = "idle" /\ SameRepository

LEMMA WriterFields ==
  ASSUME TypeOK, NEW i \in Writers, WriterNext(i)
  PROVE  /\ UNCHANGED <<now, fence, rows, inflight, s>>
         /\ \A j \in Writers \ {i} : w'[j] = w[j]
         /\ \/ WriterWaits(i) \/ WriterReads(i) \/ WriterPuts(i) \/ WriterStamps(i)
            \/ WriterPublishes(i) \/ WriterRefused(i) \/ WriterStops(i)
<1> DEFINE Frame == /\ UNCHANGED <<now, fence, rows, inflight, s>>
                    /\ \A j \in Writers \ {i} : w'[j] = w[j]
<1> USE DEF SameRepository
<1>0. w[i] \in WriterState /\ DOMAIN w = Writers
  BY DEF TypeOK
<1>1. ASSUME NEW c \in Collections, NEW O \in SUBSET Objects \ {{}}, Begin(i, c, O)
      PROVE Frame /\ WriterWaits(i)
  BY <1>0, <1>1 DEF Begin, WriterWaits
<1>2. ASSUME NEW o \in Objects, Put(i, o) PROVE Frame /\ WriterPuts(i)
  <2>1. /\ w[i].pc = "writing" /\ w'[i].pc = "writing" /\ w'[i].epoch = w[i].epoch
        /\ w'[i].done = w[i].done \cup {o} /\ Frame
    BY <1>0, <1>2 DEF Put
  <2>2. store' = store \cup {o} /\ UNCHANGED <<live, count>>
    BY <1>2 DEF Put, Write
  <2>3. ASSUME ~Deltas, base = [x \in Objects |-> NoObject] PROVE base' = base
    BY <1>2, <2>3 DEF Put, StoredForms
  <2> QED
    BY <2>1, <2>2, <2>3 DEF WriterPuts
<1>3. ReadFence(i) => Frame /\ WriterReads(i)
  BY <1>0 DEF ReadFence, WriterReads
<1>4. GiveUp(i) => Frame /\ WriterStops(i)
  BY <1>0 DEF GiveUp, WriterStops, IdleWriter
<1>5. BaseMoved(i) => Frame /\ WriterStops(i)
  BY <1>0 DEF BaseMoved, WriterStops, IdleWriter
<1>6. Stamp(i) => Frame /\ WriterStamps(i)
  BY <1>0 DEF Stamp, WriterStamps
<1>7. Publish(i) => Frame /\ WriterPublishes(i)
  BY <1>0 DEF Publish, WriterPublishes, IdleWriter
<1>8. Refused(i) => Frame /\ WriterRefused(i)
  BY <1>0 DEF Refused, WriterRefused
<1>9. Redo(i) => Frame /\ WriterWaits(i)
  BY <1>0 DEF Redo, WriterWaits
<1>10. Fail(i) => Frame /\ WriterStops(i)
  BY <1>0 DEF Fail, WriterStops, IdleWriter
<1>11. WriterDies(i) => Frame /\ WriterStops(i)
  BY <1>0 DEF WriterDies, WriterStops, IdleWriter
<1> HIDE DEF Frame
<1>12. Frame
  BY <1>1, <1>2, <1>3, <1>4, <1>5, <1>6, <1>7, <1>8, <1>9, <1>10, <1>11 DEF WriterNext
<1>13. \/ WriterWaits(i) \/ WriterReads(i) \/ WriterPuts(i) \/ WriterStamps(i)
       \/ WriterPublishes(i) \/ WriterRefused(i) \/ WriterStops(i)
  BY <1>1, <1>2, <1>3, <1>4, <1>5, <1>6, <1>7, <1>8, <1>9, <1>10, <1>11 DEF WriterNext
<1> QED
  BY <1>12, <1>13 DEF Frame

-----------------------------------------------------------------------------
(* Epochs and windows: what holds under any settings at all.               *)

\* A job's window is the fence's until its epoch has passed.
LEMMA WindowsApartStep ==
  ASSUME TypeOK, WindowsApart, [Next]_vars PROVE WindowsApart'
<1> USE FenceConstants DEF WindowsApart, InWindow
<1>0. now \in Nat /\ fence \in Fence /\ \A i \in Sweepers : s[i] \in SweeperState
  BY DEF TypeOK
<1>1. ASSUME NEW i \in Sweepers, SweeperNext(i) PROVE WindowsApart'
  <2>1. /\ \A j \in Sweepers \ {i} : s'[j] = s[j]
        /\ \/ JobEnds(i) \/ JobMarks(i) \/ JobPrepares(i) \/ JobOpens(i)
           \/ JobDecides(i) \/ JobIssues(i) \/ JobStops(i) \/ JobCloses(i)
    BY <1>1, SweeperFields
  <2>2. \A j \in Sweepers : InWindow(j) => s[j].epoch \in Nat /\ s[j].epoch <= fence.epoch
    BY <1>0 DEF SweeperState
  <2>3. CASE JobEnds(i) \/ JobMarks(i) \/ JobPrepares(i)
    BY <2>1, <2>3 DEF JobEnds, JobMarks, JobPrepares
  <2>4. CASE JobOpens(i)
    BY <1>0, <2>1, <2>2, <2>4 DEF JobOpens, Fence, NoTime
  <2>5. CASE JobDecides(i) \/ JobIssues(i) \/ JobStops(i)
    BY <2>1, <2>5 DEF JobDecides, JobIssues, JobStops, SameWindow
  <2>6. CASE JobCloses(i)
    BY <1>0, <2>1, <2>2, <2>6 DEF JobCloses, Fence
  <2> QED
    BY <2>1, <2>3, <2>4, <2>5, <2>6
<1>2. ASSUME NEW d \in inflight, LandFails(d) PROVE WindowsApart'
  <2>1. fence' = fence
    BY <1>2 DEF LandFails
  <2>2. ASSUME NEW j \in Sweepers
        PROVE /\ InWindow(j)' => InWindow(j)
              /\ s'[j].epoch = s[j].epoch /\ s'[j].until = s[j].until /\ s'[j].run = s[j].run
    BY <1>0, <1>2 DEF LandFails, SweeperState
  <2> QED
    BY <2>1, <2>2
<1>3. CASE UNCHANGED <<fence, s>>
  BY <1>3
<1>4. ASSUME NEW i \in Writers, WriterNext(i) PROVE UNCHANGED <<fence, s>>
  BY <1>4, WriterFields
<1> QED
  BY <1>1, <1>2, <1>3, <1>4 DEF Next, vars, Tick, Land, DropCollection

\* The epoch a writer read never gets an open window again.
LEMMA EpochOutdatedStep ==
  ASSUME TypeOK, EpochOutdated, RefusedOutdated, [Next]_vars
  PROVE  (EpochOutdated /\ RefusedOutdated)'
<1> USE FenceConstants DEF EpochOutdated, RefusedOutdated, WindowOpen
<1>0. /\ now \in Nat /\ fence.epoch \in Nat /\ fence.until \in Nat \cup {NoTime}
      /\ \A i \in Writers : w[i].epoch \in Nat
  BY DEF TypeOK, Fence, WriterState
<1>1. ASSUME NEW i \in Sweepers, SweeperNext(i) PROVE (EpochOutdated /\ RefusedOutdated)'
  <2>1. /\ UNCHANGED <<now, w>>
        /\ \/ fence' = fence
           \/ fence'.epoch = fence.epoch + 1
    BY <1>1, SweeperFields DEF JobEnds, JobMarks, JobPrepares, JobOpens,
         JobDecides, JobIssues, JobStops, JobCloses
  <2> QED
    BY <1>0, <2>1
<1>2. ASSUME NEW i \in Writers, WriterNext(i) PROVE (EpochOutdated /\ RefusedOutdated)'
  <2>1. /\ UNCHANGED <<now, fence>>
        /\ \A j \in Writers \ {i} : w'[j] = w[j]
        /\ \/ WriterWaits(i) \/ WriterReads(i) \/ WriterPuts(i) \/ WriterStamps(i)
           \/ WriterPublishes(i) \/ WriterRefused(i) \/ WriterStops(i)
    BY <1>2, WriterFields
  <2>2. CASE WriterWaits(i) \/ WriterPublishes(i) \/ WriterStops(i)
    BY <2>1, <2>2 DEF WriterWaits, WriterPublishes, WriterStops
  <2>3. CASE WriterReads(i)
    BY <1>0, <2>1, <2>3 DEF WriterReads
  <2>4. CASE WriterPuts(i) \/ WriterStamps(i)
    BY <2>1, <2>4 DEF WriterPuts, WriterStamps
  <2>5. CASE WriterRefused(i)
    BY <1>0, <2>1, <2>5 DEF WriterRefused, FenceHolds
  <2> QED
    BY <2>1, <2>2, <2>3, <2>4, <2>5
<1>3. CASE Tick
  BY <1>0, <1>3 DEF Tick, NoTime
<1>4. CASE UNCHANGED <<now, fence, w>>
  BY <1>4
<1> QED
  BY <1>1, <1>2, <1>3, <1>4 DEF Next, vars, Land, LandFails, DropCollection

\* A window ends within Window of when anybody began to wait for it.
LEMMA WindowsEndInTimeStep ==
  ASSUME TypeOK, WindowsEndInTime, [Next]_vars PROVE WindowsEndInTime'
<1> USE FenceConstants DEF WindowsEndInTime
<1>0. /\ now \in Nat /\ fence.epoch \in Nat /\ fence.until \in Nat \cup {NoTime}
      /\ \A i \in Writers : w[i].first \in Nat /\ w[i].since \in Nat
  BY DEF TypeOK, Fence, WriterState
<1>1. ASSUME NEW i \in Sweepers, SweeperNext(i) PROVE WindowsEndInTime'
  <2>1. /\ UNCHANGED <<now, w>>
        /\ \/ fence' = fence
           \/ /\ fence'.epoch = fence.epoch + 1
              /\ fence'.until \in {now + Window, NoTime}
    BY <1>1, SweeperFields DEF JobEnds, JobMarks, JobPrepares, JobOpens,
         JobDecides, JobIssues, JobStops, JobCloses
  <2> QED
    BY <1>0, <2>1 DEF NoTime
<1>2. ASSUME NEW i \in Writers, WriterNext(i) PROVE WindowsEndInTime'
  <2>1. /\ UNCHANGED <<now, fence>>
        /\ \A j \in Writers \ {i} : w'[j] = w[j]
        /\ \/ w'[i].pc = "fence" /\ w'[i].since = now /\ w'[i].first = fence.epoch
           \/ w'[i].pc # "fence"
    BY <1>2, WriterFields DEF WriterWaits, WriterReads, WriterPuts, WriterStamps,
         WriterPublishes, WriterRefused, WriterStops
  <2> QED
    BY <1>0, <2>1
<1>3. CASE Tick
  BY <1>0, <1>3 DEF Tick, NoTime
<1>4. CASE UNCHANGED <<now, fence, w>>
  BY <1>4
<1> QED
  BY <1>1, <1>2, <1>3, <1>4 DEF Next, vars, Land, LandFails, DropCollection

LEMMA EpochsInit ==
  Init => WindowsApart /\ EpochOutdated /\ RefusedOutdated /\ WindowsEndInTime
  BY FenceConstants DEF Init, WindowsApart, EpochOutdated, RefusedOutdated, WindowsEndInTime,
     InWindow, IdleWriter, IdleSweeper

\* No epoch a writer holds ever has an open window.
THEOREM EpochsOutdated == Spec => []EpochOutdated
<1>1. TypeOK /\ EpochOutdated /\ RefusedOutdated /\ [Next]_vars
        => (EpochOutdated /\ RefusedOutdated)'
  BY EpochOutdatedStep
<1> QED
  BY <1>1, TypeCorrect, EpochsInit, PTL DEF Spec

\* A writer refused because of the fence always learns that it was the fence.
THEOREM RefusalsSeen == Spec => []RefusalSeen
<1>1. TypeOK /\ EpochOutdated /\ RefusedOutdated /\ [Next]_vars
        => (EpochOutdated /\ RefusedOutdated)'
  BY EpochOutdatedStep
<1>2. TypeOK /\ RefusedOutdated => RefusalSeen
  BY DEF TypeOK, RefusedOutdated, RefusalSeen, FenceMoved, FenceHolds, WriterState, Fence
<1> QED
  BY <1>1, <1>2, TypeCorrect, EpochsInit, PTL DEF Spec

\* Jobs that share a run are never both in a position to delete.
THEOREM OnlyOneDeletes == Spec => []OneDeleter
<1>1. TypeOK /\ WindowsApart /\ [Next]_vars => WindowsApart'
  BY WindowsApartStep
<1>2. WindowsApart => OneDeleter
  BY DEF WindowsApart, OneDeleter, InWindow, WindowStillOpen
<1> QED
  BY <1>1, <1>2, TypeCorrect, EpochsInit, PTL DEF Spec

\* Nobody gives up before having waited for two windows.
THEOREM PatientWriters == Spec => GiveUpAfterTwoWindows
<1>1. TypeOK /\ WindowsEndInTime /\ [Next]_vars => WindowsEndInTime'
  BY WindowsEndInTimeStep
<1>2. ASSUME TypeOK, WindowsEndInTime, NEW i \in Writers, GiveUp(i)
      PROVE fence.epoch # w[i].first
  <2>1. /\ now \in Nat /\ fence.until \in Nat \cup {NoTime}
        /\ w[i].since \in Nat
    BY <1>2 DEF TypeOK, Fence, WriterState
  <2> QED
    BY <1>2, <2>1, FenceConstants, FenceWait
       DEF WindowsEndInTime, GiveUp, WindowOpen, NoTime
<1>3. TypeOK /\ WindowsEndInTime /\ [Next]_vars
        => [\A i \in Writers : GiveUp(i) => fence.epoch # w[i].first]_vars
  BY <1>2
<1> QED
  BY <1>1, <1>3, TypeCorrect, EpochsInit, PTL DEF Spec, GiveUpAfterTwoWindows

-----------------------------------------------------------------------------
(* Delete requests stay inside their window as long as a failed one does   *)
(* not make its job close the window over the others.                      *)

LEMMA InflightOpen ==
  ASSUME TypeOK, RequestsInTime PROVE DeletesInsideWindow
<1> USE FenceConstants, FenceTiming
<1> SUFFICES ASSUME NEW d \in inflight PROVE WindowOpen /\ fence.epoch = d.epoch
  BY DEF DeletesInsideWindow
<1>1. /\ now \in Nat /\ d.at \in Nat /\ fence.until \in Nat \cup {NoTime}
      /\ fence.until # NoTime
      /\ d.at + Margin <= fence.until /\ now <= d.at + Hang /\ d.epoch = fence.epoch
  BY DEF TypeOK, Fence, Request, RequestsInTime
<1> QED
  BY <1>1 DEF WindowOpen

\* A job's requests are of its own window, issued Margin before the deadline.
LEMMA RequestsInTimeStep ==
  ASSUME ~DeleteFails, TypeOK, WindowsApart, RequestsInTime, [Next]_vars
  PROVE  RequestsInTime'
<1> USE FenceConstants
<1>0. /\ now \in Nat /\ fence.epoch \in Nat /\ fence.until \in Nat \cup {NoTime}
      /\ inflight \subseteq Request
      /\ \A i \in Sweepers : s[i].epoch \in Nat /\ s[i].until \in Nat \cup {NoTime}
  BY DEF TypeOK, Fence, SweeperState
<1>1. ASSUME NEW i \in Sweepers, SweeperNext(i) PROVE RequestsInTime'
  <2>1. /\ now' = now /\ \A j \in Sweepers \ {i} : s'[j] = s[j]
        /\ \/ JobEnds(i) \/ JobMarks(i) \/ JobPrepares(i) \/ JobOpens(i)
           \/ JobDecides(i) \/ JobIssues(i) \/ JobStops(i) \/ JobCloses(i)
    BY <1>1, SweeperFields
  <2>2. CASE JobEnds(i) \/ JobMarks(i) \/ JobPrepares(i)
    BY <2>1, <2>2 DEF JobEnds, JobMarks, JobPrepares, RequestsInTime, Awaiting
  <2>3. CASE JobOpens(i)
    <3>1. inflight = {}
      BY <2>3, InflightOpen DEF JobOpens, DeletesInsideWindow
    <3> QED
      BY <2>3, <3>1 DEF JobOpens, RequestsInTime, Awaiting
  <2>4. CASE JobDecides(i) \/ JobStops(i)
    BY <2>1, <2>4 DEF JobDecides, JobStops, SameWindow, RequestsInTime, Awaiting
  <2>5. CASE JobIssues(i)
    <3>1. /\ s[i].epoch = fence.epoch /\ fence.until # NoTime /\ fence.until = s[i].until
          /\ now + Margin <= s[i].until /\ fence' = fence
      BY <2>5 DEF JobIssues, WindowStillOpen, WindowsApart, InWindow
    <3>2. ASSUME NEW d \in inflight'
          PROVE /\ d.epoch = fence'.epoch /\ fence'.until # NoTime
                /\ d.at + Margin <= fence'.until /\ now' <= d.at + Hang
      BY <1>0, <2>1, <2>5, <3>1 DEF JobIssues, RequestsInTime
    <3>3. ASSUME NEW j \in Sweepers, s'[j].pc \in {"window", "closing"}
          PROVE  Awaiting(j)' = {}
      <4>1. j # i /\ s'[j] = s[j] /\ Awaiting(j) = {}
        BY <2>1, <2>5, <3>3 DEF JobIssues, RequestsInTime
      <4>2. s[j].epoch # s[i].epoch
        BY <2>5, <3>3, <4>1 DEF JobIssues, WindowsApart, InWindow
      <4> QED
        BY <2>5, <4>1, <4>2 DEF JobIssues, Awaiting
    <3> QED
      BY <3>2, <3>3 DEF RequestsInTime
  <2>6. CASE JobCloses(i)
    <3>1. CASE fence' = fence
      BY <2>1, <2>6, <3>1 DEF JobCloses, RequestsInTime, Awaiting
    <3>2. CASE OwnWindow(i)
      <4>1. inflight = {}
        BY <2>6, <3>2 DEF JobCloses, OwnWindow, RequestsInTime, Awaiting
      <4> QED
        BY <2>6, <4>1 DEF JobCloses, RequestsInTime, Awaiting
    <3> QED
      BY <2>6, <3>1, <3>2 DEF JobCloses
  <2> QED
    BY <2>1, <2>2, <2>3, <2>4, <2>5, <2>6
<1>2. CASE Tick
  BY <1>0, <1>2 DEF Tick, RequestsInTime, Awaiting, Request
<1>3. ASSUME NEW d \in inflight, Land(d) PROVE RequestsInTime'
  BY <1>3 DEF Land, RequestsInTime, Awaiting
<1>4. ASSUME NEW i \in Writers, WriterNext(i) PROVE UNCHANGED <<now, fence, inflight, s>>
  BY <1>4, WriterFields
<1>5. CASE UNCHANGED <<now, fence, inflight, s>>
  BY <1>5 DEF RequestsInTime, Awaiting
<1> QED
  BY <1>1, <1>2, <1>3, <1>4, <1>5 DEF Next, vars, LandFails, DropCollection

LEMMA RequestsInit == Init => RequestsInTime
  BY FenceConstants DEF Init, RequestsInTime, Awaiting, IdleSweeper

\* While no delete request fails, none is on its way once its window is over
\* for writers, whatever the jobs do: die, lag, or run twice.
THEOREM DeletesStayInside ==
  ASSUME ~DeleteFails PROVE Spec => []DeletesInsideWindow
<1>1. /\ TypeOK /\ WindowsApart /\ RequestsInTime /\ [Next]_vars
           => WindowsApart' /\ RequestsInTime'
  BY WindowsApartStep, RequestsInTimeStep
<1>2. TypeOK /\ RequestsInTime => DeletesInsideWindow
  BY InflightOpen
<1> QED
  BY <1>1, <1>2, TypeCorrect, EpochsInit, RequestsInit, PTL DEF Spec

-----------------------------------------------------------------------------
(* No hole, in a repository whose objects are stored whole.                *)

LEMMA WholeClosure ==
  ASSUME Whole, NEW O \in SUBSET Objects PROVE Closure(O) = O
  BY DEF Whole, Closure

LEMMA WholeStep == ASSUME TypeOK, Whole, [Next]_vars PROVE Whole'
<1>1. ASSUME NEW i \in Writers, WriterNext(i) PROVE base' = base
  BY <1>1, WriterFields DEF Whole, WriterWaits, WriterReads, WriterPuts, WriterStamps,
     WriterPublishes, WriterRefused, WriterStops, SameRepository
<1>2. ASSUME NEW i \in Sweepers, SweeperNext(i) PROVE base' = base
  BY <1>2, SweeperFields
<1>3. ASSUME NEW d \in inflight, Land(d) PROVE base' = base
  BY <1>3 DEF Land, Whole, TypeOK
<1> QED
  BY <1>1, <1>2, <1>3 DEF Next, vars, Tick, LandFails, DropCollection, Whole

\* Under an epoch that stands, what a phase wrote or skipped is there.
LEMMA WritesKeptStep ==
  ASSUME TypeOK, EpochOutdated, DeletesInsideWindow, WritesKept, [Next]_vars
  PROVE  WritesKept'
<1>0. /\ now \in Nat /\ fence.epoch \in Nat /\ RequestMax \in Nat
      /\ \A i \in Writers : w[i].epoch \in Nat /\ w[i].stamp \in Nat
  BY FenceConstants DEF TypeOK, Fence, WriterState
<1>1. ASSUME NEW i \in Writers, WriterNext(i) PROVE WritesKept'
  <2>1. /\ UNCHANGED <<now, fence>>
        /\ \A j \in Writers \ {i} : w'[j] = w[j]
        /\ \/ WriterWaits(i) \/ WriterReads(i) \/ WriterPuts(i) \/ WriterStamps(i)
           \/ WriterPublishes(i) \/ WriterRefused(i) \/ WriterStops(i)
    BY <1>1, WriterFields
  <2>2. CASE WriterWaits(i) \/ WriterReads(i) \/ WriterPublishes(i)
               \/ WriterRefused(i) \/ WriterStops(i)
    BY <2>1, <2>2 DEF WritesKept, WriterWaits, WriterReads, WriterPublishes,
       WriterRefused, WriterStops, SameRepository
  <2>3. CASE WriterPuts(i)
    BY <2>1, <2>3 DEF WritesKept, WriterPuts
  <2>4. CASE WriterStamps(i)
    BY <1>0, <2>1, <2>4 DEF WritesKept, WriterStamps, SameRepository
  <2> QED
    BY <2>1, <2>2, <2>3, <2>4
<1>2. ASSUME NEW i \in Sweepers, SweeperNext(i) PROVE WritesKept'
  <2>1. /\ UNCHANGED <<now, store, w>>
        /\ \/ fence'.epoch = fence.epoch
           \/ fence'.epoch = fence.epoch + 1
    BY <1>2, SweeperFields DEF JobEnds, JobMarks, JobPrepares, JobOpens,
         JobDecides, JobIssues, JobStops, JobCloses
  <2> QED
    BY <1>0, <2>1 DEF WritesKept, EpochOutdated
<1>3. CASE Tick
  BY <1>0, <1>3 DEF Tick, WritesKept
<1>4. ASSUME NEW d \in inflight, Land(d) PROVE WritesKept'
  <2>1. \A i \in Writers :
           ~(w[i].pc \in {"writing", "stamped"} /\ w[i].epoch = fence.epoch)
    BY <1>4 DEF DeletesInsideWindow, EpochOutdated
  <2> QED
    BY <1>4, <2>1 DEF Land, WritesKept
<1>5. CASE UNCHANGED <<now, fence, store, w>>
  BY <1>5 DEF WritesKept
<1> QED
  BY <1>1, <1>2, <1>3, <1>4, <1>5 DEF Next, vars, LandFails, DropCollection, Drop

\* Every version is marked, or stamped recently enough for the next re-mark.
LEMMA MarkedOrRecentStep ==
  ASSUME TypeOK, Whole, WritesKept, MarkedOrRecent, [Next]_vars
  PROVE  MarkedOrRecent'
<1> USE FenceConstants, FenceTiming
<1>0. /\ now \in Nat
      /\ \A v \in live : v.needs \in SUBSET Objects /\ v.at \in Nat
      /\ \A i \in Writers : w[i].stamp \in Nat
      /\ \A i \in Sweepers : s[i].markAt \in Nat
  BY DEF TypeOK, WriterState, SweeperState, Version
<1>1. ASSUME NEW i \in Sweepers, SweeperNext(i) PROVE MarkedOrRecent'
  <2>1. /\ UNCHANGED <<now, live>>
        /\ \A j \in Sweepers \ {i} : s'[j] = s[j]
        /\ \/ JobEnds(i) \/ JobMarks(i) \/ JobPrepares(i) \/ JobOpens(i)
           \/ JobDecides(i) \/ JobIssues(i) \/ JobStops(i) \/ JobCloses(i)
    BY <1>1, SweeperFields
  <2>2. CASE JobEnds(i)
    BY <2>1, <2>2 DEF JobEnds, MarkedOrRecent
  <2>3. CASE JobMarks(i)
    <3>1. Closure(Reached) = Reached
      BY <1>0, WholeClosure DEF Reached
    <3> QED
      BY <1>0, <2>1, <2>3, <3>1 DEF JobMarks, MarkedOrRecent, Reached
  <2>4. ASSUME s[i].pc # "idle", MoreMarks(i) PROVE MarkedOrRecent'
    BY <2>1, <2>4 DEF MoreMarks, MarkedOrRecent
  <2> QED
    BY <2>1, <2>2, <2>3, <2>4 DEF JobPrepares, JobOpens, JobDecides, JobIssues, JobStops,
       JobCloses, SameMark, MoreMarks
<1>2. ASSUME NEW i \in Writers, WriterNext(i) PROVE MarkedOrRecent'
  <2>1. /\ UNCHANGED <<now, s>>
        /\ \/ live' = live
           \/ w[i].pc = "stamped" /\ live' = live \cup {NewVersion(i)}
    BY <1>2, WriterFields DEF WriterWaits, WriterReads, WriterPuts, WriterStamps,
       WriterPublishes, WriterRefused, WriterStops, SameRepository
  <2>2. ASSUME w[i].pc = "stamped", NEW j \in Sweepers, s[j].pc # "idle"
        PROVE NewVersion(i).at + RemarkSlack >= s[j].markAt
    BY <1>0, <2>2 DEF WritesKept, MarkedOrRecent, NewVersion
  <2> QED
    BY <2>1, <2>2 DEF MarkedOrRecent
<1>3. CASE Tick
  BY <1>0, <1>3 DEF Tick, MarkedOrRecent
<1>4. ASSUME NEW d \in inflight, Land(d) \/ LandFails(d) PROVE MarkedOrRecent'
  <2>1. /\ UNCHANGED <<now, live>>
        /\ \A i \in Sweepers :
             /\ s'[i].pc = "idle" <=> s[i].pc = "idle"
             /\ s'[i].marks = s[i].marks /\ s'[i].markAt = s[i].markAt
    BY <1>4 DEF Land, LandFails, TypeOK, SweeperState
  <2> QED
    BY <2>1 DEF MarkedOrRecent
<1>5. ASSUME NEW c \in Collections, DropCollection(c) PROVE MarkedOrRecent'
  BY <1>5 DEF DropCollection, Drop, MarkedOrRecent
<1>6. CASE UNCHANGED <<now, live, s>>
  BY <1>6 DEF MarkedOrRecent
<1> QED
  BY <1>1, <1>2, <1>3, <1>4, <1>5, <1>6 DEF Next, vars

\* What a job is about to delete stays unreached while its window is open.
LEMMA DoomedUnreachedStep ==
  ASSUME TypeOK, Whole, WindowsApart, MarkedOrRecent, DoomedUnreached, [Next]_vars
  PROVE  DoomedUnreached'
<1> USE FenceConstants
<1>0. /\ now \in Nat /\ fence.epoch \in Nat /\ fence.until \in Nat \cup {NoTime}
      /\ \A v \in live : v.needs \in SUBSET Objects
      /\ \A i \in Sweepers : s[i].epoch \in Nat
  BY DEF TypeOK, Fence, SweeperState, Version
<1>1. ASSUME NEW i \in Sweepers, SweeperNext(i) PROVE DoomedUnreached'
  <2>1. /\ UNCHANGED <<now, live, base>>
        /\ \A j \in Sweepers \ {i} : s'[j] = s[j]
        /\ \/ JobEnds(i) \/ JobMarks(i) \/ JobPrepares(i) \/ JobOpens(i)
           \/ JobDecides(i) \/ JobIssues(i) \/ JobStops(i) \/ JobCloses(i)
    BY <1>1, SweeperFields
  <2>2. CASE JobEnds(i) \/ JobMarks(i) \/ JobPrepares(i) \/ JobStops(i)
    BY <2>1, <2>2 DEF JobEnds, JobMarks, JobPrepares, JobStops, DoomedUnreached, WindowOpen
  <2>3. CASE JobOpens(i)
    BY <1>0, <2>1, <2>3 DEF JobOpens, DoomedUnreached, WindowsApart, InWindow
  <2>4. CASE JobDecides(i)
    <3>1. Recent(i) = UNION {v.needs : v \in {x \in live : x.at + RemarkSlack >= s[i].markAt}}
      BY <1>0, WholeClosure DEF Recent
    <3>2. ASSUME s'[i].pc = "deleting", NEW v \in live PROVE s'[i].group \cap v.needs = {}
      BY <2>4, <3>1, <3>2 DEF JobDecides, MarkedOrRecent
    <3> QED
      BY <2>1, <2>4, <3>2 DEF JobDecides, DoomedUnreached, WindowOpen
  <2>5. CASE JobIssues(i)
    BY <2>1, <2>5 DEF JobIssues, SameWindow, DoomedUnreached, WindowOpen
  <2>6. CASE JobCloses(i)
    BY <1>0, <2>1, <2>6 DEF JobCloses, DoomedUnreached, WindowOpen
  <2> QED
    BY <2>1, <2>2, <2>3, <2>4, <2>5, <2>6
<1>2. ASSUME NEW i \in Writers, WriterNext(i) PROVE DoomedUnreached'
  <2>1. /\ UNCHANGED <<now, fence, s>>
        /\ \/ live' = live
           \/ ~WindowOpen
    BY <1>2, WriterFields DEF WriterWaits, WriterReads, WriterPuts, WriterStamps,
       WriterPublishes, WriterRefused, WriterStops, SameRepository, FenceHolds
  <2> QED
    BY <2>1 DEF DoomedUnreached, WindowOpen
<1>3. CASE Tick
  BY <1>0, <1>3 DEF Tick, DoomedUnreached, WindowOpen, NoTime
<1>4. ASSUME NEW d \in inflight, Land(d) \/ LandFails(d) PROVE DoomedUnreached'
  <2>1. /\ UNCHANGED <<now, fence, live>>
        /\ \A i \in Sweepers :
             s'[i].pc = "deleting" => s'[i] = s[i]
    BY <1>4 DEF Land, LandFails, TypeOK, SweeperState
  <2> QED
    BY <2>1 DEF DoomedUnreached, WindowOpen
<1>5. ASSUME NEW c \in Collections, DropCollection(c) PROVE DoomedUnreached'
  BY <1>5 DEF DropCollection, Drop, DoomedUnreached, WindowOpen
<1>6. CASE UNCHANGED <<now, fence, live, s>>
  BY <1>6 DEF DoomedUnreached, WindowOpen
<1> QED
  BY <1>1, <1>2, <1>3, <1>4, <1>5, <1>6 DEF Next, vars

\* No request on its way is for an object that a version reaches.
LEMMA RequestsUnreachedStep ==
  ASSUME TypeOK, WindowsApart, DeletesInsideWindow, DoomedUnreached,
         RequestsUnreached, [Next]_vars
  PROVE  RequestsUnreached'
<1> USE FenceConstants
<1>1. ASSUME NEW i \in Sweepers, SweeperNext(i) PROVE RequestsUnreached'
  <2>1. /\ live' = live
        /\ \/ inflight' = inflight
           \/ JobIssues(i)
    BY <1>1, SweeperFields DEF JobEnds, JobMarks, JobPrepares, JobOpens,
         JobDecides, JobStops, JobCloses
  <2>2. CASE JobIssues(i)
    <3>1. /\ s[i].pc = "deleting" /\ s[i].epoch = fence.epoch
          /\ fence.until # NoTime /\ fence.until = s[i].until /\ now + Margin <= s[i].until
      BY <2>2 DEF JobIssues, WindowStillOpen, WindowsApart, InWindow
    <3>2. now \in Nat /\ fence.until \in Nat \cup {NoTime}
      BY DEF TypeOK, Fence
    <3>3. WindowOpen
      BY <3>1, <3>2 DEF WindowOpen
    <3> QED
      BY <2>1, <2>2, <3>1, <3>3 DEF JobIssues, DoomedUnreached, RequestsUnreached
  <2> QED
    BY <2>1, <2>2 DEF RequestsUnreached
<1>2. ASSUME NEW i \in Writers, WriterNext(i) PROVE RequestsUnreached'
  <2>1. /\ inflight' = inflight
        /\ \/ live' = live
           \/ ~WindowOpen
    BY <1>2, WriterFields DEF WriterWaits, WriterReads, WriterPuts, WriterStamps,
       WriterPublishes, WriterRefused, WriterStops, SameRepository, FenceHolds
  <2> QED
    BY <2>1 DEF RequestsUnreached, DeletesInsideWindow
<1>3. ASSUME NEW d \in inflight, Land(d) \/ LandFails(d) PROVE RequestsUnreached'
  BY <1>3 DEF Land, LandFails, RequestsUnreached
<1>4. ASSUME NEW c \in Collections, DropCollection(c) PROVE RequestsUnreached'
  BY <1>4 DEF DropCollection, Drop, RequestsUnreached
<1>5. CASE UNCHANGED <<live, inflight>>
  BY <1>5 DEF RequestsUnreached
<1> QED
  BY <1>1, <1>2, <1>3, <1>4, <1>5 DEF Next, vars, Tick

LEMMA PublishesWhole ==
  ASSUME TypeOK, WritesKept, NEW i \in Writers, WriterPublishes(i)
  PROVE  NewVersion(i) \in Version /\ NewVersion(i).needs \subseteq store
<1>1. w[i] \in WriterState
  BY DEF TypeOK
<1>2. NewVersion(i) \in Version
  BY <1>1 DEF NewVersion, Version, WriterState
<1>3. w[i].needs \subseteq store
  BY DEF WriterPublishes, FenceHolds, WritesKept
<1> QED
  BY <1>2, <1>3 DEF NewVersion

\* No step takes anything away from a published version.
LEMMA NoHoleStep ==
  ASSUME TypeOK, Whole, Whole', WritesKept, RequestsUnreached, NoHole, [Next]_vars
  PROVE  NoHole'
<1>0. \A v \in live : v.needs \in SUBSET Objects /\ v.needs \subseteq store
  BY WholeClosure DEF TypeOK, Version, NoHole
<1> SUFFICES ASSUME NEW v \in live' PROVE v.needs \in SUBSET Objects /\ v.needs \subseteq store'
  BY DEF NoHole, Whole, Closure
<1>1. ASSUME NEW i \in Writers, WriterNext(i)
      PROVE v.needs \in SUBSET Objects /\ v.needs \subseteq store'
  <2>1. CASE WriterPublishes(i)
    <3>1. v \in live \/ v = NewVersion(i)
      BY <2>1 DEF WriterPublishes
    <3>2. NewVersion(i).needs \in SUBSET Objects
      BY <1>1, <2>1, PublishesWhole DEF Version
    <3> QED
      BY <1>0, <1>1, <2>1, <3>1, <3>2, PublishesWhole DEF WriterPublishes
  <2>2. CASE live' = live /\ store \subseteq store'
    BY <1>0, <2>2
  <2> QED
    BY <1>1, <2>1, <2>2, WriterFields DEF WriterWaits, WriterReads, WriterPuts,
       WriterStamps, WriterRefused, WriterStops, SameRepository
<1>2. ASSUME NEW i \in Sweepers, SweeperNext(i) PROVE UNCHANGED <<store, live>>
  BY <1>2, SweeperFields
<1>3. ASSUME NEW d \in inflight, Land(d)
      PROVE v.needs \in SUBSET Objects /\ v.needs \subseteq store'
  BY <1>0, <1>3 DEF Land, RequestsUnreached
<1>4. ASSUME NEW c \in Collections, DropCollection(c)
      PROVE v.needs \in SUBSET Objects /\ v.needs \subseteq store'
  BY <1>0, <1>4 DEF DropCollection, Drop
<1>5. CASE UNCHANGED <<store, live>>
  BY <1>0, <1>5
<1> QED
  BY <1>1, <1>2, <1>3, <1>4, <1>5 DEF Next, vars, Tick, LandFails

\* Every step is a step of Repository, or changes nothing readers can see.
LEMMA RepositoryStep ==
  ASSUME TypeOK, TypeOK', Whole, WritesKept, RequestsUnreached, [Next]_vars
  PROVE  [RepositoryNext]_repository
<1> USE DEF repository
<1>1. ASSUME NEW i \in Writers, WriterNext(i) PROVE [RepositoryNext]_repository
  <2>1. CASE WriterPublishes(i)
    <3>1. PublishVersion(NewVersion(i)) /\ NewVersion(i) \in live'
      BY <1>1, <2>1, PublishesWhole DEF PublishVersion, WriterPublishes
    <3> QED
      BY <3>1 DEF RepositoryNext
  <2>2. CASE WriterPuts(i)
    <3>1. PICK o \in Objects : store' = store \cup {o}
      BY <2>2 DEF WriterPuts
    <3>2. live' = live
      BY <2>2 DEF WriterPuts
    <3>3. CASE o \in store
      BY <3>1, <3>2, <3>3
    <3>4. CASE o \notin store
      BY <3>1, <3>2, <3>4 DEF RepositoryNext, Write
    <3> QED
      BY <3>3, <3>4
  <2>3. CASE UNCHANGED <<store, live>>
    BY <2>3
  <2> QED
    BY <1>1, <2>1, <2>2, <2>3, WriterFields DEF WriterWaits, WriterReads,
       WriterStamps, WriterRefused, WriterStops, SameRepository
<1>2. ASSUME NEW i \in Sweepers, SweeperNext(i) PROVE UNCHANGED <<store, live>>
  BY <1>2, SweeperFields
<1>3. ASSUME NEW d \in inflight, Land(d) PROVE [RepositoryNext]_repository
  <2>1. /\ d.of \in Objects /\ d.of \notin Reached
        /\ store' = store \ {d.of} /\ live' = live
    BY <1>3 DEF Land, RequestsUnreached, Reached, TypeOK, Request
  <2>2. CASE d.of \in store
    BY <2>1, <2>2 DEF RepositoryNext, Delete
  <2>3. CASE d.of \notin store
    BY <2>1, <2>3
  <2> QED
    BY <2>2, <2>3
<1>4. ASSUME NEW c \in Collections, DropCollection(c) PROVE [RepositoryNext]_repository
  BY <1>4 DEF DropCollection, RepositoryNext
<1>5. CASE UNCHANGED <<store, live>>
  BY <1>5
<1> QED
  BY <1>1, <1>2, <1>3, <1>4, <1>5 DEF Next, vars, Tick, LandFails

\* The parts of the inductive invariant need each other, so they are proved as
\* one.
LEMMA FenceInvInit == ASSUME ~Deltas, Init PROVE FenceInv
<1>1. TypeOK /\ WindowsApart /\ RequestsInTime /\ EpochOutdated /\ RefusedOutdated
  BY TypeInit, EpochsInit, RequestsInit
<1>2. Whole
  BY DEF Init, Whole
<1>3. live = {} /\ inflight = {}
  BY DEF Init
<1>4. WritesKept /\ MarkedOrRecent /\ DoomedUnreached
  BY DEF Init, WritesKept, MarkedOrRecent, DoomedUnreached, IdleWriter, IdleSweeper
<1> QED
  BY <1>1, <1>2, <1>3, <1>4 DEF FenceInv, RequestsUnreached, NoHole

LEMMA FenceInvStep == ASSUME ~DeleteFails, FenceInv, [Next]_vars PROVE FenceInv'
<1> USE DEF FenceInv
<1>1. TypeOK' /\ Whole'
  BY TypeStep, WholeStep
<1>2. DeletesInsideWindow
  BY InflightOpen
<1>3. WindowsApart' /\ RequestsInTime' /\ (EpochOutdated /\ RefusedOutdated)'
  BY WindowsApartStep, RequestsInTimeStep, EpochOutdatedStep
<1>4. WritesKept' /\ MarkedOrRecent'
  BY <1>2, WritesKeptStep, MarkedOrRecentStep
<1>5. DoomedUnreached' /\ RequestsUnreached'
  BY <1>2, DoomedUnreachedStep, RequestsUnreachedStep
<1>6. NoHole'
  BY <1>1, NoHoleStep
<1> QED
  BY <1>1, <1>3, <1>4, <1>5, <1>6

\* Where objects are stored whole and no delete request fails, every version
\* that was published stays whole: whatever jobs and writers die, lag, overlap.
THEOREM NothingMissing ==
  ASSUME ~Deltas, ~DeleteFails PROVE Spec => []NoHole
<1>1. Init => FenceInv
  BY FenceInvInit
<1>2. FenceInv /\ [Next]_vars => FenceInv'
  BY FenceInvStep
<1>3. FenceInv => NoHole
  BY DEF FenceInv
<1> QED
  BY <1>1, <1>2, <1>3, PTL DEF Spec

\* The fence protocol implements Repository: a version only appears over
\* objects that are there, and only unreached objects disappear.
THEOREM ImplementsRepository ==
  ASSUME ~Deltas, ~DeleteFails PROVE Spec => KeepsRepositoryPromise
<1>1. Init => FenceInv /\ RepositoryInit
  BY FenceInvInit DEF Init, RepositoryInit, Reached
<1>2. FenceInv /\ [Next]_vars => FenceInv' /\ [RepositoryNext]_repository
  BY FenceInvStep, RepositoryStep DEF FenceInv
<1> QED
  BY <1>1, <1>2, PTL DEF Spec, KeepsRepositoryPromise, RepositorySpec
=============================================================================
