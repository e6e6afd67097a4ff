---------------------------- MODULE StorageFence ----------------------------
(***************************************************************************)
(* The write fence between the write phases of commits and the storage     *)
(* sweep (server/src/cleanup/fence.ts, sweep.ts; versions/publish.ts).     *)
(*                                                                         *)
(* Writers skip keys that exist, so a commit may reuse an object a deleted *)
(* collection left behind; the sweep deletes unreached objects in short    *)
(* deletion windows.  One row of the database, the fence, orders the two.  *)
(* Every round trip to the database or to the bucket is an action of its   *)
(* own, so writers, sweep jobs and delete requests in flight interleave    *)
(* anywhere the code awaits.                                               *)
(***************************************************************************)
EXTENDS Integers, FiniteSets, Repository

CONSTANTS
    Writers,        \* write phases: pushes, and commits that aren't
    Pushes,         \* those whose session row says "committing" while they run
    Sweepers,       \* sweep jobs; several may work for one run
    Runs,           \* cleanup run ids
    NoRun, NoObject,
    Attempts,       \* times `fenced` runs a phase
    Window, Slack, Margin, Wait,         \* fenceConfig, cleanupConfig.windowMs
    MinAge, RemarkSlack, Hold,           \* sweep.ts, cleanupConfig.committingHoldMs
    Hang,           \* longest a delete request takes to land, from its check
    RequestMax,     \* longest from stamping publishedAt to the publish batch
    Deltas,         \* rewritten leaves are stored as deltas (layout F)
    DeleteFails,    \* a delete request may come back with an error
    Start,          \* the clock as the behaviour begins
    MaxTime, MaxEpoch, MaxVersions       \* bounds of the model

NoTime == -1        \* windowUntil IS NULL

ASSUME FenceConstants ==
    /\ Pushes \subseteq Writers
    /\ NoRun \notin Runs
    /\ NoObject \notin Objects
    /\ Window \in Nat /\ Slack \in Nat /\ Margin \in Nat /\ Wait \in Nat
    /\ MinAge \in Nat /\ RemarkSlack \in Nat /\ Hold \in Nat /\ Hang \in Nat
    /\ RequestMax \in Nat /\ Attempts \in Nat /\ Start \in Nat
    /\ MaxTime \in Nat /\ MaxEpoch \in Nat /\ MaxVersions \in Nat
    /\ Deltas \in BOOLEAN /\ DeleteFails \in BOOLEAN

\* A delete is issued Margin before the deadline and writers resume Slack
\* after it; a publish lands well within the re-mark's reach back.
ASSUME FenceTiming ==
    /\ Hang <= Margin + Slack
    /\ RequestMax <= RemarkSlack

\* A writer waits longer than one window can last.
ASSUME FenceWait == Wait >= Window + Slack

VARIABLES
    now,            \* the database's clock
    fence,          \* the row of storage_fence
    born,           \* when the present copy of an object was written
    base,           \* the full node a stored delta is diffed against
    rows,           \* collections that have a row
    count,          \* a collection's versionCount: moves exactly as its head does
    inflight,       \* delete requests not yet landed
    w,              \* the writers
    s               \* the sweep jobs

vars == <<now, fence, store, live, born, base, rows, count, inflight, w, s>>

WriterPcs == {"idle", "fence", "writing", "stamped", "refused"}
SweeperPcs == {"idle", "marked", "listed", "remarked", "clear", "window", "deleting", "closing"}

Fence == [epoch : Nat, until : Nat \cup {NoTime}, run : Runs \cup {NoRun}]

WriterState ==
    [pc : WriterPcs, by : Collections, basis : Nat, needs : SUBSET Objects,
     done : SUBSET Objects, epoch : Nat, attempt : Nat, began : Nat,
     since : Nat, first : Nat, stamp : Nat, cause : {"none", "fence", "head"}]

SweeperState ==
    [pc : SweeperPcs, run : Runs \cup {NoRun}, marks : SUBSET Objects,
     markAt : Nat, candidates : SUBSET Objects, group : SUBSET Objects,
     epoch : Nat, until : Nat \cup {NoTime}]

Request == [of : Objects, epoch : Nat, at : Nat]

-----------------------------------------------------------------------------
(* The fence row, as the statements that carry it read it.                 *)

\* Slip: a window's deadline is never looked at.
WindowNeverLapses == fence.until # NoTime

\* A window counts as open until Slack past its deadline.
WindowOpen == fence.until # NoTime /\ fence.until + Slack >= now

FenceHolds(e) == fence.epoch = e /\ ~WindowOpen

\* Slip: any window of the run will do.
WindowOfTheRun(i) == fence.run = s[i].run

\* Whether job i may still issue a delete: the window is its own and not near
\* its deadline.
WindowStillOpen(i) ==
    /\ now + Margin <= s[i].until
    /\ fence.epoch = s[i].epoch
    /\ fence.run = s[i].run

\* Slip: an object that is no delta adds the empty base.
ClosureWithNull(O) == O \cup {base[o] : o \in O}

\* What reading these objects needs in the store: a leaf stored as a delta
\* expands against its frame.
Closure(O) == O \cup {base[o] : o \in {x \in O : base[x] # NoObject}}

\* publish.ts headIsBase: the collection's row is there and its head is the
\* version the commit began from.
HeadIsBase(i) == w[i].by \in rows /\ count[w[i].by] = w[i].basis

Committing(i) == w[i].pc # "idle" /\ w[i].began + Hold > now

-----------------------------------------------------------------------------
IdleWriter(c) ==
    [pc |-> "idle", by |-> c, basis |-> 0, needs |-> {}, done |-> {},
     epoch |-> 0, attempt |-> 0, began |-> 0, since |-> 0, first |-> 0,
     stamp |-> 0, cause |-> "none"]

IdleSweeper ==
    [pc |-> "idle", run |-> NoRun, marks |-> {}, markAt |-> 0,
     candidates |-> {}, group |-> {}, epoch |-> 0, until |-> NoTime]

\* The bucket may hold objects, written at time 0 for collections long deleted:
\* no version reaches them until a commit comes to reuse them.
Init ==
    /\ now = Start
    /\ fence = [epoch |-> 0, until |-> NoTime, run |-> NoRun]
    /\ store \in SUBSET Objects
    /\ born = [o \in Objects |-> 0]
    /\ rows = Collections
    /\ count = [c \in Collections |-> 0]
    /\ live = {}
    /\ \E b \in [Objects -> Objects \cup {NoObject}] :
          /\ ~Deltas => \A o \in Objects : b[o] = NoObject
          /\ \A o \in Objects : b[o] # NoObject =>
                o \in store /\ b[o] \in store \ {o} /\ b[b[o]] = NoObject
          /\ base = b
    /\ inflight = {}
    /\ \E c \in Collections : w = [i \in Writers |-> IdleWriter(c)]
    /\ s = [i \in Sweepers |-> IdleSweeper]

-----------------------------------------------------------------------------
(* A writer: `fenced` around commitVersion and publishVersion.             *)

\* A push is finalized, or a commit begins, from the collection's head.
Begin(i, c, O) ==
    /\ w[i].pc = "idle"
    /\ c \in rows
    /\ count[c] < MaxVersions
    /\ w' = [w EXCEPT ![i] =
               [pc |-> "fence", by |-> c, basis |-> count[c], needs |-> O,
                done |-> {}, epoch |-> 0, attempt |-> 1,
                began |-> IF i \in Pushes THEN now ELSE 0,
                since |-> now, first |-> fence.epoch, stamp |-> 0,
                cause |-> "none"]]
    /\ UNCHANGED <<now, fence, store, live, born, base, rows, count, inflight, s>>

\* writeFence polls until no window is open, then returns the epoch.
ReadFence(i) ==
    /\ w[i].pc = "fence"
    /\ ~WindowOpen
    /\ w' = [w EXCEPT ![i] = [w[i] EXCEPT !.pc = "writing", !.epoch = fence.epoch, !.done = {},
              !.since = 0, !.first = 0]]
    /\ UNCHANGED <<now, fence, store, live, born, base, rows, count, inflight, s>>

\* StorageBusyError: a window is open past the writer's own deadline.
GiveUp(i) ==
    /\ w[i].pc = "fence"
    /\ WindowOpen
    /\ now > w[i].since + Wait
    /\ w' = [w EXCEPT ![i] = IdleWriter(w[i].by)]
    /\ UNCHANGED <<now, fence, store, live, born, base, rows, count, inflight, s>>

\* The phase reads the head first, and stops if it is no longer the base.
BaseMoved(i) ==
    /\ w[i].pc = "writing"
    /\ w[i].done = {}
    /\ ~HeadIsBase(i)
    /\ w' = [w EXCEPT ![i] = IdleWriter(w[i].by)]
    /\ UNCHANGED <<now, fence, store, live, born, base, rows, count, inflight, s>>

\* How a new object may be stored: whole, or as a delta of a leaf of the base
\* version; a delta of a delta is taken against the latter's own frame.
StoredForms(i, o) ==
    {NoObject} \cup
    {IF base[x] = NoObject THEN x ELSE base[x] :
        x \in {y \in Objects \ {o} :
                 /\ Deltas
                 /\ base[y] # o
                 /\ \E v \in live : /\ v.by = w[i].by
                                   /\ v.seq = w[i].basis
                                   /\ y \in v.needs}}

\* put with ifAbsent: a key that exists is left as it is.
Put(i, o) ==
    /\ w[i].pc = "writing"
    /\ o \in w[i].needs \ w[i].done
    /\ w' = [w EXCEPT ![i] = [w[i] EXCEPT !.done = w[i].done \cup {o}]]
    /\ \/ /\ o \in store
          /\ UNCHANGED <<store, live, born, base>>
       \/ /\ Write(o)
          /\ born' = [born EXCEPT ![o] = now]
          /\ \E f \in StoredForms(i, o) : base' = [base EXCEPT ![o] = f]
    /\ UNCHANGED <<now, fence, rows, count, inflight, s>>

\* publishVersion takes the row's published_at from the server's clock before
\* it sends the batch.
Stamp(i) ==
    /\ w[i].pc = "writing"
    /\ w[i].done = w[i].needs
    /\ w' = [w EXCEPT ![i] = [w[i] EXCEPT !.pc = "stamped", !.stamp = now]]
    /\ UNCHANGED <<now, fence, store, live, born, base, rows, count, inflight, s>>

NewVersion(i) ==
    [by |-> w[i].by, seq |-> w[i].basis + 1, needs |-> w[i].needs, at |-> w[i].stamp]

\* The batch: version row and head move together, under both conditions.
Publish(i) ==
    /\ w[i].pc = "stamped"
    /\ HeadIsBase(i)
    /\ FenceHolds(w[i].epoch)
    /\ live' = live \cup {NewVersion(i)}
    /\ count' = [count EXCEPT ![w[i].by] = @ + 1]
    /\ w' = [w EXCEPT ![i] = IdleWriter(w[i].by)]
    /\ UNCHANGED <<now, fence, store, born, base, rows, inflight, s>>

\* The batch matched nothing.  `cause` remembers which condition failed; the
\* code does not know, and asks fenceMoved next.
Refused(i) ==
    /\ w[i].pc = "stamped"
    /\ ~(HeadIsBase(i) /\ FenceHolds(w[i].epoch))
    /\ w' = [w EXCEPT ![i] = [w[i] EXCEPT !.pc = "refused",
              !.cause = IF HeadIsBase(i) THEN "fence" ELSE "head"]]
    /\ UNCHANGED <<now, fence, store, live, born, base, rows, count, inflight, s>>

\* Slip: only looks for a window that is open now.
FenceMovedNow(i) == WindowOpen

FenceMoved(i) == ~FenceHolds(w[i].epoch)

\* FenceError with attempts left: the whole phase again, under a new epoch.
Redo(i) ==
    /\ w[i].pc = "refused"
    /\ FenceMoved(i)
    /\ w[i].attempt < Attempts
    /\ w' = [w EXCEPT ![i] = [w[i] EXCEPT !.pc = "fence", !.attempt = w[i].attempt + 1,
              !.since = now, !.first = fence.epoch,
              !.done = {}, !.epoch = 0, !.stamp = 0, !.cause = "none"]]
    /\ UNCHANGED <<now, fence, store, live, born, base, rows, count, inflight, s>>

\* The last attempt failed (503), or the head moved (409).
Fail(i) ==
    /\ w[i].pc = "refused"
    /\ FenceMoved(i) => w[i].attempt >= Attempts
    /\ w' = [w EXCEPT ![i] = IdleWriter(w[i].by)]
    /\ UNCHANGED <<now, fence, store, live, born, base, rows, count, inflight, s>>

\* The process dies, or a store request fails, at any await.
WriterDies(i) ==
    /\ w[i].pc # "idle"
    /\ w' = [w EXCEPT ![i] = IdleWriter(w[i].by)]
    /\ UNCHANGED <<now, fence, store, live, born, base, rows, count, inflight, s>>

\* A collection is deleted and its grace period ends.
DropCollection(c) ==
    /\ c \in rows
    /\ rows' = rows \ {c}
    /\ Drop(c)
    /\ UNCHANGED <<now, fence, born, base, count, inflight, w, s>>

-----------------------------------------------------------------------------
(* A sweep job: the mark it works from, then deleteCandidates.             *)

\* The mark: everything the live versions reach now.  It runs for hours; a
\* version published after it began is at worst not in it.
Mark(i, r) ==
    /\ s[i].pc = "idle"
    /\ s' = [s EXCEPT ![i] = [IdleSweeper EXCEPT
               !.pc = "marked", !.run = r, !.marks = Closure(Reached), !.markAt = now]]
    /\ UNCHANGED <<now, fence, store, live, born, base, rows, count, inflight, w>>

\* classify: listed objects neither marked nor young.
List(i) ==
    LET found == {o \in store \ s[i].marks : born[o] + MinAge <= now} IN
    /\ s[i].pc = "marked"
    /\ found # {}
    /\ s' = [s EXCEPT ![i] = [s[i] EXCEPT !.pc = "listed", !.candidates = found]]
    /\ UNCHANGED <<now, fence, store, live, born, base, rows, count, inflight, w>>

\* Slip: only versions stamped after the mark began.
RecentNoSlack(i) ==
    Closure(UNION {v.needs : v \in {x \in live : x.at >= s[i].markAt}})

\* remark: what versions stamped since RemarkSlack before the mark reach.
Recent(i) ==
    Closure(UNION {v.needs : v \in {x \in live : x.at + RemarkSlack >= s[i].markAt}})

RemarkOutside(i) ==
    /\ s[i].pc = "listed"
    /\ s' = [s EXCEPT ![i] = [s[i] EXCEPT !.pc = "remarked", !.marks = s[i].marks \cup Recent(i)]]
    /\ UNCHANGED <<now, fence, store, live, born, base, rows, count, inflight, w>>

NoPushCommitting(i) ==
    /\ s[i].pc = "remarked"
    /\ \A p \in Pushes : ~Committing(p)
    /\ s' = [s EXCEPT ![i] = [s[i] EXCEPT !.pc = "clear"]]
    /\ UNCHANGED <<now, fence, store, live, born, base, rows, count, inflight, w>>

\* 'wait': a push is committing, or an operator paused cleanup; or another
\* window is open.  The page is listed again.
HoldOff(i) ==
    /\ \/ s[i].pc = "remarked"
       \/ s[i].pc = "clear" /\ WindowOpen
    /\ s' = [s EXCEPT ![i] = [s[i] EXCEPT !.pc = "marked", !.candidates = {}]]
    /\ UNCHANGED <<now, fence, store, live, born, base, rows, count, inflight, w>>

\* Slip: opening leaves the epoch alone.
OpenWindowSameEpoch(i, g) ==
    /\ s[i].pc = "clear"
    /\ ~WindowOpen
    /\ fence.epoch < MaxEpoch
    /\ g \subseteq s[i].candidates
    /\ fence' = [fence EXCEPT !.until = now + Window, !.run = s[i].run]
    /\ s' = [s EXCEPT ![i] = [s[i] EXCEPT !.pc = "window", !.group = g,
              !.candidates = s[i].candidates \ g,
              !.epoch = fence.epoch, !.until = now + Window]]
    /\ UNCHANGED <<now, store, live, born, base, rows, count, inflight, w>>

\* One window deletes one group of the candidates.
OpenWindow(i, g) ==
    /\ s[i].pc = "clear"
    /\ ~WindowOpen
    /\ fence.epoch < MaxEpoch
    /\ g \subseteq s[i].candidates
    /\ fence' = [epoch |-> fence.epoch + 1, until |-> now + Window, run |-> s[i].run]
    /\ s' = [s EXCEPT ![i] = [s[i] EXCEPT !.pc = "window", !.group = g,
              !.candidates = s[i].candidates \ g,
              !.epoch = fence.epoch + 1, !.until = now + Window]]
    /\ UNCHANGED <<now, store, live, born, base, rows, count, inflight, w>>

\* Slip: trusts the re-mark made outside the window.
RemarkInsideSkipped(i) ==
    /\ s[i].pc = "window"
    /\ s' = [s EXCEPT ![i] = [s[i] EXCEPT !.pc = "deleting", !.group = s[i].group \ s[i].marks]]
    /\ UNCHANGED <<now, fence, store, live, born, base, rows, count, inflight, w>>

\* From here on `group` is what the code calls doomed.
RemarkInside(i) ==
    /\ s[i].pc = "window"
    /\ s' = [s EXCEPT ![i] = [s[i] EXCEPT !.pc = "deleting",
              !.marks = s[i].marks \cup Recent(i),
              !.group = s[i].group \ (s[i].marks \cup Recent(i))]]
    /\ UNCHANGED <<now, fence, store, live, born, base, rows, count, inflight, w>>

Awaiting(i) == {d \in inflight : d.epoch = s[i].epoch}

\* windowStillOpen, then a slice of deletes sent together.
IssueDeletes(i, slice) ==
    /\ s[i].pc = "deleting"
    /\ Awaiting(i) = {}
    /\ slice \subseteq s[i].group
    /\ WindowStillOpen(i)
    /\ inflight' = inflight \cup
          {[of |-> o, epoch |-> s[i].epoch, at |-> now] : o \in slice}
    /\ s' = [s EXCEPT ![i] = [s[i] EXCEPT !.group = s[i].group \ slice]]
    /\ UNCHANGED <<now, fence, store, live, born, base, rows, count, w>>

\* All deleted, or past the deadline: the rest waits for the next sweep.
StopDeleting(i) ==
    /\ s[i].pc = "deleting"
    /\ Awaiting(i) = {}
    /\ s[i].group = {} \/ ~WindowStillOpen(i)
    /\ s' = [s EXCEPT ![i] = [s[i] EXCEPT !.pc = "closing"]]
    /\ UNCHANGED <<now, fence, store, live, born, base, rows, count, inflight, w>>

\* The re-mark fails inside the window: `finally` closes it.
RemarkFails(i) ==
    /\ s[i].pc = "window"
    /\ s' = [s EXCEPT ![i] = [s[i] EXCEPT !.pc = "closing"]]
    /\ UNCHANGED <<now, fence, store, live, born, base, rows, count, inflight, w>>

\* Slip: a later window of the same run passes for this one.
OwnRunsWindow(i) == fence.run = s[i].run

OwnWindow(i) == fence.run = s[i].run /\ fence.epoch = s[i].epoch

\* closeWindow matches this window only.
CloseWindow(i) ==
    /\ s[i].pc = "closing"
    /\ fence' = IF OwnWindow(i)
                THEN [epoch |-> fence.epoch + 1, until |-> NoTime, run |-> NoRun]
                ELSE fence
    /\ s' = [s EXCEPT ![i] = [s[i] EXCEPT !.pc = IF s[i].candidates = {} THEN "marked" ELSE "remarked",
              !.group = {}, !.epoch = 0, !.until = NoTime]]
    /\ UNCHANGED <<now, store, live, born, base, rows, count, inflight, w>>

\* A job dies, or is done; its requests stay on their way.
SweeperEnds(i) ==
    /\ s[i].pc # "idle"
    /\ s' = [s EXCEPT ![i] = IdleSweeper]
    /\ UNCHANGED <<now, fence, store, live, born, base, rows, count, inflight, w>>

\* A delete request takes effect in the bucket.
Land(d) ==
    /\ inflight' = inflight \ {d}
    /\ store' = store \ {d.of}
    /\ base' = [base EXCEPT ![d.of] = NoObject]
    /\ UNCHANGED <<now, fence, live, born, rows, count, w, s>>

\* A request fails: Promise.all rejects at once, whatever else it waits for,
\* and `finally` closes the window.
LandFails(d) ==
    /\ DeleteFails
    /\ inflight' = inflight \ {d}
    /\ s' = [i \in Sweepers |->
               IF s[i].pc = "deleting" /\ s[i].epoch = d.epoch
               THEN [s[i] EXCEPT !.pc = "closing"] ELSE s[i]]
    /\ UNCHANGED <<now, fence, store, live, born, base, rows, count, w>>

-----------------------------------------------------------------------------
Tick ==
    /\ now < MaxTime
    /\ \A d \in inflight : now < d.at + Hang
    /\ \A i \in Writers : w[i].pc = "stamped" => now < w[i].stamp + RequestMax
    /\ now' = now + 1
    /\ UNCHANGED <<fence, store, live, born, base, rows, count, inflight, w, s>>

WriterNext(i) ==
    \/ \E c \in Collections, O \in SUBSET Objects \ {{}} : Begin(i, c, O)
    \/ \E o \in Objects : Put(i, o)
    \/ ReadFence(i) \/ GiveUp(i) \/ BaseMoved(i) \/ Stamp(i)
    \/ Publish(i) \/ Refused(i) \/ Redo(i) \/ Fail(i) \/ WriterDies(i)

SweeperNext(i) ==
    \/ \E r \in Runs : Mark(i, r)
    \/ List(i) \/ RemarkOutside(i) \/ NoPushCommitting(i) \/ HoldOff(i)
    \/ \E g \in SUBSET Objects \ {{}} : OpenWindow(i, g) \/ IssueDeletes(i, g)
    \/ RemarkInside(i) \/ RemarkFails(i) \/ StopDeleting(i) \/ CloseWindow(i)
    \/ SweeperEnds(i)

Next ==
    \/ Tick
    \/ \E i \in Writers : WriterNext(i)
    \/ \E i \in Sweepers : SweeperNext(i)
    \/ \E d \in inflight : Land(d) \/ LandFails(d)
    \/ \E c \in Collections : DropCollection(c)

Spec == Init /\ [][Next]_vars

-----------------------------------------------------------------------------
(* Properties.                                                             *)

TypeOK ==
    /\ now \in Nat
    /\ fence \in Fence
    /\ store \subseteq Objects
    /\ live \subseteq Version
    /\ born \in [Objects -> Nat]
    /\ base \in [Objects -> Objects \cup {NoObject}]
    /\ rows \subseteq Collections
    /\ count \in [Collections -> Nat]
    /\ inflight \subseteq Request
    /\ w \in [Writers -> WriterState]
    /\ s \in [Sweepers -> SweeperState]

\* Every published version is whole: what it reaches, and the frames its delta
\* leaves expand against, are in the store (fence.ts 5-7, publish.ts 12-13).
NoHole == \A v \in live : Closure(v.needs) \subseteq store

\* A delete request is on its way only while the window it was issued in is
\* open to nobody else: crashed job, late request or not (fence.ts 18-20).
DeletesInsideWindow ==
    \A d \in inflight : WindowOpen /\ fence.epoch = d.epoch

\* A writer that read an epoch never finds that epoch's window open: windows
\* that open or close after it change the epoch it holds (fence.ts 14-17).
EpochOutdated ==
    \A i \in Writers :
        w[i].pc \in {"writing", "stamped"} =>
            /\ w[i].epoch <= fence.epoch
            /\ w[i].epoch = fence.epoch => ~WindowOpen

\* A publish refused for the fence alone is never mistaken for a lost race:
\* fenceMoved, a later read, still sees it (publish.ts 226-236).
RefusalSeen ==
    \A i \in Writers :
        w[i].pc = "refused" /\ w[i].cause = "fence" => FenceMoved(i)

\* At most one sweep job believes that it may delete, also when a redelivered
\* job works for the same run (fence.ts 154-159).
OneDeleter ==
    \A i, j \in Sweepers :
        /\ s[i].pc = "deleting" /\ WindowStillOpen(i)
        /\ s[j].pc = "deleting" /\ WindowStillOpen(j)
        => i = j

\* One window, even of a sweep that crashed in it, never fails a writer: who
\* gives up (503) has waited for at least two (fence.ts 29-37, waitMs).
GiveUpAfterTwoWindows ==
    [][\A i \in Writers : GiveUp(i) => fence.epoch # w[i].first]_vars

\* What the repository promises its readers, whatever the sweep does.
KeepsRepositoryPromise == RepositorySpec

-----------------------------------------------------------------------------
(* The inductive invariant that the proofs strengthen these with.          *)

InWindow(i) == s[i].pc \in {"window", "deleting", "closing"}

\* A job's window is the fence's until its epoch has passed, and no two jobs
\* have the same one.
WindowsApart ==
    /\ \A i \in Sweepers : InWindow(i) =>
          /\ s[i].epoch <= fence.epoch
          /\ s[i].epoch = fence.epoch =>
                fence.until # NoTime /\ fence.until = s[i].until /\ fence.run = s[i].run
    /\ \A i, j \in Sweepers :
          InWindow(i) /\ InWindow(j) /\ s[i].epoch = s[j].epoch => i = j

\* Requests on their way were issued in the fence's window, Margin before its
\* deadline, and only a job that is still deleting waits for any.
RequestsInTime ==
    /\ \A d \in inflight : /\ d.epoch = fence.epoch
                          /\ fence.until # NoTime
                          /\ d.at + Margin <= fence.until
                          /\ now <= d.at + Hang
    /\ \A i \in Sweepers : s[i].pc \in {"window", "closing"} => Awaiting(i) = {}

RefusedOutdated ==
    \A i \in Writers :
        w[i].pc = "refused" /\ w[i].cause = "fence" => w[i].epoch < fence.epoch

\* Under an epoch that still stands, nothing a phase wrote or skipped is gone.
WritesKept ==
    \A i \in Writers :
        /\ w[i].pc \in {"writing", "stamped"} /\ w[i].epoch = fence.epoch =>
              w[i].done \subseteq store
        /\ w[i].pc = "stamped" =>
              w[i].done = w[i].needs /\ now <= w[i].stamp + RequestMax

\* A version is in a job's marks, or recent enough for its next re-mark.
MarkedOrRecent ==
    \A i \in Sweepers : s[i].pc # "idle" =>
        /\ s[i].markAt <= now
        /\ \A v \in live :
              v.needs \subseteq s[i].marks \/ v.at + RemarkSlack >= s[i].markAt

\* While its window is open, what a job is about to delete stays unreached.
DoomedUnreached ==
    \A i \in Sweepers :
        s[i].pc = "deleting" /\ s[i].epoch = fence.epoch /\ WindowOpen =>
            \A v \in live : s[i].group \cap v.needs = {}

RequestsUnreached == \A d \in inflight : \A v \in live : d.of \notin v.needs

\* A window ends Window after a writer began to wait for it.
WindowsEndInTime ==
    /\ fence.until # NoTime => fence.until <= now + Window
    /\ \A i \in Writers : w[i].pc = "fence" =>
          /\ w[i].first <= fence.epoch
          /\ fence.epoch = w[i].first /\ fence.until # NoTime =>
                fence.until <= w[i].since + Window

\* Objects are stored whole: what reading one needs is the object.
Whole == ~Deltas /\ base = [o \in Objects |-> NoObject]

\* Without deltas and failing deletes the parts are inductive together.
FenceInv ==
    /\ TypeOK /\ Whole
    /\ WindowsApart /\ RequestsInTime /\ EpochOutdated /\ RefusedOutdated
    /\ WritesKept /\ MarkedOrRecent /\ DoomedUnreached /\ RequestsUnreached
    /\ NoHole
=============================================================================
