-------------------------- MODULE PushSessionProofs --------------------------
(***************************************************************************)
(* Proofs about PushSession, for any sessions, uploads, runners and ids.   *)
(***************************************************************************)
EXTENDS PushSession, TLAPS

\* From the first read of a commit to its outcome.
Working == {"begin", "list", "build", "publish", "published", "moved", "settle"}

Begun(i) == session[i].status \notin {"none", "counted"}

\* No upload is under way, and none can start.
Closed(i) == session[i].status \in {"committing", "committed", "failed"}

WorkOnOpened ==
    /\ \A r \in Runners : runner[r].pc # "idle" => runner[r].of \in Sessions /\ Begun(runner[r].of)
    /\ \A i \in jobs : Begun(i)
    /\ \A v \in versions : v.by # None => Begun(v.by)

BaseKept ==
    \A i \in Sessions : ~session[i].rebased =>
        /\ \A v \in Published(i) : v.base = session[i].base
        /\ \A r \in Runners :
              runner[r].of = i /\ runner[r].pc \in Working => runner[r].base = session[i].base

ClosedToUploads ==
    /\ \A i \in Sessions : Closed(i) => session[i].claimed = {}
    /\ \A r \in Runners :
          runner[r].pc = "request" =>
              session[runner[r].of].claimed = {} /\ runner[r].from \in {"open", "failed"}

UploadsKept ==
    \A i \in Sessions : ~session[i].reopened =>
        /\ \A v \in Published(i) : Closed(i) /\ session[i].runs \subseteq v.content
        /\ \A r \in Runners :
              /\ runner[r].of = i /\ runner[r].pc \in Working => Closed(i)
              /\ runner[r].of = i /\ runner[r].pc \in {"build", "publish"} =>
                     session[i].runs \subseteq runner[r].list

OutcomesTrue ==
    \A r \in Runners :
        runner[r].pc = "published" \/ (runner[r].pc = "settle" /\ runner[r].outcome = "none") =>
            Published(runner[r].of) # {}

PushInv ==
    /\ TypeOK /\ LinearHistory /\ CommitsOnce /\ CommittedIsPublished /\ CommittedHasUploads
    /\ WorkOnOpened /\ BaseKept /\ ClosedToUploads /\ UploadsKept /\ OutcomesTrue

-----------------------------------------------------------------------------
(* Types, and the history.                                                 *)

\* Every row of the history is found by its id.
LEMMA RowFound ==
    ASSUME TypeOK, LinearHistory, NEW v \in versions
    PROVE  Row(v.id) = v
  BY DEF TypeOK, LinearHistory, Row, VersionRow

LEMMA HeadRow ==
    ASSUME TypeOK, LinearHistory, head # None
    PROVE  Row(head) \in versions /\ Row(head).id = head /\ \A u \in versions : u.seq <= Row(head).seq
  BY RowFound DEF LinearHistory

\* What a new version takes from the head it is made from.
LEMMA OnHead ==
    ASSUME TypeOK, LinearHistory
    PROVE  /\ NextSeq(head) \in Nat /\ Content(head) \subseteq Batches
           /\ head = None => NextSeq(head) = 1
           /\ head # None => NextSeq(head) = Row(head).seq + 1
           /\ \A u \in versions : u.seq < NextSeq(head)
<1>1. CASE head = None
  BY <1>1 DEF NextSeq, Content, LinearHistory
<1>2. CASE head # None
  BY <1>2, HeadRow DEF NextSeq, Content, TypeOK, VersionRow
<1> QED
  BY <1>1, <1>2

\* A version with a fresh id, made from the head, is the new head of a linear history.
LEMMA HistoryGrows ==
    ASSUME TypeOK, LinearHistory, NEW id \in NewIds, NEW v \in VersionRow,
           v.id = id, v.base = head, v.seq = NextSeq(head),
           versions' = versions \cup {v}, head' = id
    PROVE  LinearHistory'
<1>0. id \in VersionIds /\ id # None /\ \A u \in versions : u.id # id
  BY PushConstants DEF NewIds, FreshIds
<1>1. \A u \in versions : u.base # head
  <2> SUFFICES ASSUME NEW u \in versions, u.base = head PROVE FALSE
    OBVIOUS
  <2>1. head # None
    BY DEF LinearHistory
  <2>2. PICK t \in versions : t.id = u.base /\ u.seq = t.seq + 1
    BY <2>1 DEF LinearHistory
  <2>3. t = Row(head)
    BY <2>2, RowFound
  <2> QED
    BY <2>1, <2>2, <2>3, HeadRow DEF TypeOK, VersionRow
<1>2. (head = None <=> versions = {})'
  BY <1>0
<1>3. (\A x, y \in versions : x.id = y.id \/ x.base = y.base => x = y)'
  BY <1>0, <1>1 DEF LinearHistory
<1>4. (\A x \in versions : x.base # None => \E u \in versions : u.id = x.base /\ x.seq = u.seq + 1)'
  BY HeadRow, OnHead DEF LinearHistory
<1>5. (\A x \in versions : x.base = None => x.seq = 1)'
  BY OnHead DEF LinearHistory
<1>6. (\E x \in versions : x.id = head /\ \A u \in versions : u.seq <= x.seq)'
  <2>1. \A u \in versions' : u.seq <= v.seq
    BY OnHead DEF TypeOK, VersionRow
  <2> QED
    BY <2>1
<1> QED
  BY <1>2, <1>3, <1>4, <1>5, <1>6 DEF LinearHistory

-----------------------------------------------------------------------------
(* What the steps do to a runner, kind by kind.                            *)

Others(r) == \A q \in Runners \ {r} : runner'[q] = runner[q]

Ends(r) == runner' = [runner EXCEPT ![r] = Idle]

Waits(r, i) ==
    /\ Others(r) /\ runner'[r].pc \in {"request", "enqueue", "load"} /\ runner'[r].of = i
    /\ runner'[r].pc = "request" =>
          session[i].claimed = {} /\ runner'[r].from \in {"open", "failed"}
    /\ Begun(i) \/ i \in jobs \/ (runner[r].pc # "idle" /\ runner[r].of = i)

Reads(r) ==
    /\ Others(r) /\ runner[r].of \in Sessions /\ session[runner[r].of].status = "committing"
    /\ runner'[r].pc = "begin" /\ runner'[r].of = runner[r].of
    /\ runner'[r].base = session[runner[r].of].base

GoesOn(r) ==
    /\ Others(r) /\ runner[r].pc \in Working /\ runner'[r].pc \in Working
    /\ runner'[r].of = runner[r].of /\ runner'[r].base = runner[r].base
    /\ runner'[r].pc = "build" => runner'[r].list = session[runner[r].of].runs
    /\ runner'[r].pc = "publish" => runner[r].pc = "build" /\ runner'[r].list = runner[r].list
    /\ runner'[r].pc = "settle" /\ runner'[r].outcome = "none" =>
          runner[r].pc = "published" \/ Published(runner[r].of) # {}
    /\ runner'[r].pc = "published" => \E v \in versions' : v.by = runner[r].of

LEMMA RunnerSet ==
    ASSUME TypeOK, NEW r \in Runners, NEW x \in RunnerState, runner' = [runner EXCEPT ![r] = x]
    PROVE  runner' \in [Runners -> RunnerState] /\ runner'[r] = x /\ Others(r)
  BY DEF TypeOK, Others

LEMMA IdleTyped == Idle \in RunnerState
  BY PushConstants DEF Idle, RunnerState, Pcs, Errors

LEMMA EndsTyped ==
    ASSUME TypeOK, NEW r \in Runners, Ends(r)
    PROVE  runner' \in [Runners -> RunnerState] /\ runner'[r].pc = "idle" /\ Others(r)
  BY IdleTyped, RunnerSet DEF Ends, Idle

LEMMA WaitsStep ==
    ASSUME TypeOK, NEW r \in Runners, NEW i \in Sessions,
           (\E rebase \in BOOLEAN : CommitRequest(r, i, rebase)) \/ StartCommit(r, i) \/ Deliver(r, i)
    PROVE  runner' \in [Runners -> RunnerState] /\ Waits(r, i)
<1>1. ASSUME NEW rebase \in BOOLEAN, CommitRequest(r, i, rebase)
      PROVE  runner' \in [Runners -> RunnerState] /\ Waits(r, i)
  <2> DEFINE x == [Idle EXCEPT !.pc = "request", !.of = i, !.rebase = rebase, !.base = head,
                               !.from = IF Retryable(i) THEN "failed" ELSE "open"]
  <2>1. x \in RunnerState
    BY IdleTyped DEF Idle, RunnerState, Pcs, TypeOK
  <2>2. /\ runner' = [runner EXCEPT ![r] = x]
        /\ x.pc = "request" /\ x.of = i /\ x.from \in {"open", "failed"}
    BY <1>1 DEF CommitRequest, Idle
  <2>3. session[i].claimed = {} /\ Begun(i)
    BY <1>1 DEF CommitRequest, Begun
  <2> HIDE DEF x
  <2> QED
    BY <2>1, <2>2, <2>3, RunnerSet DEF Waits
<1>2. ASSUME NEW pc \in {"load", "enqueue"}, i \in jobs \/ (runner[r].pc # "idle" /\ runner[r].of = i),
             runner' = [runner EXCEPT ![r] = [Idle EXCEPT !.pc = pc, !.of = i]]
      PROVE  runner' \in [Runners -> RunnerState] /\ Waits(r, i)
  <2> DEFINE x == [Idle EXCEPT !.pc = pc, !.of = i]
  <2>1. x \in RunnerState
    BY IdleTyped DEF Idle, RunnerState, Pcs
  <2>2. x.pc = pc /\ x.of = i /\ runner' = [runner EXCEPT ![r] = x]
    BY <1>2 DEF Idle
  <2> HIDE DEF x
  <2> QED
    BY <1>2, <2>1, <2>2, RunnerSet DEF Waits
<1> QED
  BY <1>1, <1>2 DEF StartCommit, Deliver

LEMMA ReadsStep ==
    ASSUME TypeOK, NEW r \in Runners, NEW i \in Sessions, Load(r, i)
    PROVE  runner' \in [Runners -> RunnerState] /\ (Reads(r) \/ Ends(r))
<1>1. CASE session[i].status = "committing"
  <2> DEFINE x == [runner[r] EXCEPT !.pc = "begin", !.base = session[i].base]
  <2>0. runner[r] \in RunnerState /\ session[i].base \in VersionIds \cup {None} /\ runner[r].of = i
    BY DEF TypeOK, SessionRow, Load
  <2>1. x \in RunnerState /\ x.pc = "begin" /\ x.of = i /\ x.base = session[i].base
    BY <2>0 DEF RunnerState, Pcs
  <2>2. runner' = [runner EXCEPT ![r] = x] /\ runner[r].of = i
    BY <1>1 DEF Load, TypeOK, RunnerState
  <2> HIDE DEF x
  <2> QED
    BY <1>1, <2>1, <2>2, RunnerSet DEF Reads
<1>2. CASE session[i].status # "committing"
  BY <1>2, EndsTyped DEF Load, Done, Ends
<1> QED
  BY <1>1, <1>2

LEMMA UnusedId == ASSUME NEW id \in NewIds PROVE id \in VersionIds /\ \A u \in versions : u.id # id
  BY DEF NewIds, FreshIds

LEMMA GoesOnStep ==
    ASSUME TypeOK, NEW r \in Runners
    PROVE  /\ CheckHead(r) \/ PublishLost(r) \/ ReadBack(r) \/ Fenced(r) =>
                  runner' \in [Runners -> RunnerState] /\ GoesOn(r)
           /\ \A i \in Sessions : ListRuns(r, i) \/ Build(r, i) \/ FindOwn(r, i) =>
                  runner' \in [Runners -> RunnerState] /\ GoesOn(r)
           /\ \A i \in Sessions : \A id \in NewIds : Publish(r, i, id) =>
                  runner' \in [Runners -> RunnerState] /\ GoesOn(r) /\ runner[r].of = i
                  /\ runner[r].pc = "publish" /\ runner'[r].pc = "published"
<1>1. ASSUME CheckHead(r)
      PROVE  runner' \in [Runners -> RunnerState] /\ GoesOn(r)
  <2> DEFINE x == [runner[r] EXCEPT !.pc = IF head = runner[r].base THEN "list" ELSE "moved"]
  <2>1. x \in RunnerState
    BY <1>1 DEF TypeOK, RunnerState, SessionRow, Pcs, Errors, Verdict, CheckHead
  <2>2. runner' = [runner EXCEPT ![r] = x]
    BY <1>1 DEF TypeOK, RunnerState, CheckHead
  <2>3. x.of = runner[r].of /\ x.base = runner[r].base /\ runner[r].pc \in Working /\ x.pc \in Working
    BY <1>1 DEF TypeOK, RunnerState, Working, CheckHead
  <2>4. /\ x.pc = "build" => x.list = session[runner[r].of].runs
        /\ x.pc = "publish" => runner[r].pc = "build" /\ x.list = runner[r].list
        /\ x.pc = "settle" /\ x.outcome = "none" => runner[r].pc = "published" \/ Published(runner[r].of) # {}
        /\ x.pc # "published"
    BY <1>1 DEF TypeOK, RunnerState, Verdict, Own, Published, CheckHead
  <2> HIDE DEF x
  <2> QED
    BY <2>1, <2>2, <2>3, <2>4, RunnerSet DEF GoesOn
<1>2. ASSUME PublishLost(r)
      PROVE  runner' \in [Runners -> RunnerState] /\ GoesOn(r)
  <2> DEFINE x == [runner[r] EXCEPT !.pc = "moved"]
  <2>1. x \in RunnerState
    BY <1>2 DEF TypeOK, RunnerState, SessionRow, Pcs, Errors, Verdict, PublishLost
  <2>2. runner' = [runner EXCEPT ![r] = x]
    BY <1>2 DEF TypeOK, RunnerState, PublishLost
  <2>3. x.of = runner[r].of /\ x.base = runner[r].base /\ runner[r].pc \in Working /\ x.pc \in Working
    BY <1>2 DEF TypeOK, RunnerState, Working, PublishLost
  <2>4. /\ x.pc = "build" => x.list = session[runner[r].of].runs
        /\ x.pc = "publish" => runner[r].pc = "build" /\ x.list = runner[r].list
        /\ x.pc = "settle" /\ x.outcome = "none" => runner[r].pc = "published" \/ Published(runner[r].of) # {}
        /\ x.pc # "published"
    BY <1>2 DEF TypeOK, RunnerState, Verdict, Own, Published, PublishLost
  <2> HIDE DEF x
  <2> QED
    BY <2>1, <2>2, <2>3, <2>4, RunnerSet DEF GoesOn
<1>3. ASSUME ReadBack(r)
      PROVE  runner' \in [Runners -> RunnerState] /\ GoesOn(r)
  <2> DEFINE x == [runner[r] EXCEPT !.pc = IF head = runner[r].made THEN "settle" ELSE "moved"]
  <2>1. x \in RunnerState
    BY <1>3 DEF TypeOK, RunnerState, SessionRow, Pcs, Errors, Verdict, ReadBack
  <2>2. runner' = [runner EXCEPT ![r] = x]
    BY <1>3 DEF TypeOK, RunnerState, ReadBack
  <2>3. x.of = runner[r].of /\ x.base = runner[r].base /\ runner[r].pc \in Working /\ x.pc \in Working
    BY <1>3 DEF TypeOK, RunnerState, Working, ReadBack
  <2>4. /\ x.pc = "build" => x.list = session[runner[r].of].runs
        /\ x.pc = "publish" => runner[r].pc = "build" /\ x.list = runner[r].list
        /\ x.pc = "settle" /\ x.outcome = "none" => runner[r].pc = "published" \/ Published(runner[r].of) # {}
        /\ x.pc # "published"
    BY <1>3 DEF TypeOK, RunnerState, Verdict, Own, Published, ReadBack
  <2> HIDE DEF x
  <2> QED
    BY <2>1, <2>2, <2>3, <2>4, RunnerSet DEF GoesOn
<1>4. ASSUME NEW busy \in BOOLEAN, Fenced(r),
             runner' = [runner EXCEPT ![r] = [runner[r] EXCEPT
                          !.pc = IF busy THEN "settle" ELSE "begin", !.list = {}, !.made = None,
                          !.outcome = IF busy THEN "busy" ELSE "none"]]
      PROVE  runner' \in [Runners -> RunnerState] /\ GoesOn(r)
  <2> DEFINE x == [runner[r] EXCEPT
                    !.pc = IF busy THEN "settle" ELSE "begin", !.list = {}, !.made = None,
                    !.outcome = IF busy THEN "busy" ELSE "none"]
  <2>0. /\ runner[r] \in RunnerState
        /\ (IF busy THEN "settle" ELSE "begin") \in Pcs /\ (IF busy THEN "busy" ELSE "none") \in Errors
    BY DEF TypeOK, Pcs, Errors, Verdict
  <2>1. x \in RunnerState
    BY <2>0 DEF RunnerState
  <2>2. runner' = [runner EXCEPT ![r] = x]
    BY <1>4 DEF TypeOK, RunnerState, Fenced
  <2>3. x.of = runner[r].of /\ x.base = runner[r].base /\ runner[r].pc \in Working /\ x.pc \in Working
    BY <1>4 DEF TypeOK, RunnerState, Working, Fenced
  <2>4. /\ x.pc = "build" => x.list = session[runner[r].of].runs
        /\ x.pc = "publish" => runner[r].pc = "build" /\ x.list = runner[r].list
        /\ x.pc = "settle" /\ x.outcome = "none" => runner[r].pc = "published" \/ Published(runner[r].of) # {}
        /\ x.pc # "published"
    BY <1>4 DEF TypeOK, RunnerState, Verdict, Own, Published, Fenced
  <2> HIDE DEF x
  <2> QED
    BY <2>1, <2>2, <2>3, <2>4, RunnerSet DEF GoesOn
<1>5. ASSUME NEW i \in Sessions, ListRuns(r, i)
      PROVE  runner' \in [Runners -> RunnerState] /\ GoesOn(r)
  <2> DEFINE x == [runner[r] EXCEPT !.pc = "build", !.list = session[i].runs]
  <2>1. x \in RunnerState
    BY <1>5 DEF TypeOK, RunnerState, SessionRow, Pcs, Errors, Verdict, ListRuns
  <2>2. runner' = [runner EXCEPT ![r] = x]
    BY <1>5 DEF TypeOK, RunnerState, ListRuns
  <2>3. x.of = runner[r].of /\ x.base = runner[r].base /\ runner[r].pc \in Working /\ x.pc \in Working
    BY <1>5 DEF TypeOK, RunnerState, Working, ListRuns
  <2>4. /\ x.pc = "build" => x.list = session[runner[r].of].runs
        /\ x.pc = "publish" => runner[r].pc = "build" /\ x.list = runner[r].list
        /\ x.pc = "settle" /\ x.outcome = "none" => runner[r].pc = "published" \/ Published(runner[r].of) # {}
        /\ x.pc # "published"
    BY <1>5 DEF TypeOK, RunnerState, Verdict, Own, Published, ListRuns
  <2> HIDE DEF x
  <2> QED
    BY <2>1, <2>2, <2>3, <2>4, RunnerSet DEF GoesOn
<1>6. ASSUME NEW i \in Sessions, Build(r, i)
      PROVE  runner' \in [Runners -> RunnerState] /\ GoesOn(r)
  <2> DEFINE x == [runner[r] EXCEPT !.pc = IF Verdict(r, i) = "none" THEN "publish" ELSE "settle",
                                   !.outcome = Verdict(r, i)]
  <2>0. /\ runner[r] \in RunnerState
        /\ (IF Verdict(r, i) = "none" THEN "publish" ELSE "settle") \in Pcs /\ Verdict(r, i) \in Errors
    BY DEF TypeOK, Pcs, Errors, Verdict
  <2>1. x \in RunnerState
    BY <2>0 DEF RunnerState
  <2>2. runner' = [runner EXCEPT ![r] = x]
    BY <1>6 DEF TypeOK, RunnerState, Build
  <2>3. x.of = runner[r].of /\ x.base = runner[r].base /\ runner[r].pc \in Working /\ x.pc \in Working
    BY <1>6 DEF TypeOK, RunnerState, Working, Build
  <2>4. /\ x.pc = "build" => x.list = session[runner[r].of].runs
        /\ x.pc = "publish" => runner[r].pc = "build" /\ x.list = runner[r].list
        /\ x.pc = "settle" /\ x.outcome = "none" => runner[r].pc = "published" \/ Published(runner[r].of) # {}
        /\ x.pc # "published"
    BY <1>6 DEF TypeOK, RunnerState, Verdict, Own, Published, Build
  <2> HIDE DEF x
  <2> QED
    BY <2>1, <2>2, <2>3, <2>4, RunnerSet DEF GoesOn
<1>7. ASSUME NEW i \in Sessions, FindOwn(r, i)
      PROVE  runner' \in [Runners -> RunnerState] /\ GoesOn(r)
  <2> DEFINE x == [runner[r] EXCEPT !.pc = "settle", !.outcome = IF Own(i) # {} THEN "none" ELSE "refused"]
  <2>0. /\ runner[r] \in RunnerState
        /\ (IF Own(i) # {} THEN "none" ELSE "refused") \in Errors
    BY DEF TypeOK, Pcs, Errors, Verdict
  <2>1. x \in RunnerState
    BY <2>0 DEF RunnerState, Pcs
  <2>2. runner' = [runner EXCEPT ![r] = x]
    BY <1>7 DEF TypeOK, RunnerState, FindOwn
  <2>3. x.of = runner[r].of /\ x.base = runner[r].base /\ runner[r].pc \in Working /\ x.pc \in Working
    BY <1>7 DEF TypeOK, RunnerState, Working, FindOwn
  <2>4. /\ x.pc = "build" => x.list = session[runner[r].of].runs
        /\ x.pc = "publish" => runner[r].pc = "build" /\ x.list = runner[r].list
        /\ x.pc = "settle" /\ x.outcome = "none" => runner[r].pc = "published" \/ Published(runner[r].of) # {}
        /\ x.pc # "published"
    BY <1>7 DEF TypeOK, RunnerState, Verdict, Own, Published, FindOwn
  <2> HIDE DEF x
  <2> QED
    BY <2>1, <2>2, <2>3, <2>4, RunnerSet DEF GoesOn
<1>8. ASSUME NEW i \in Sessions, NEW id \in NewIds, Publish(r, i, id)
      PROVE  runner' \in [Runners -> RunnerState] /\ GoesOn(r) /\ runner[r].of = i
             /\ runner[r].pc = "publish" /\ runner'[r].pc = "published"
  <2> DEFINE x == [runner[r] EXCEPT !.pc = "published", !.made = id]
  <2>1. x \in RunnerState
    BY <1>8, UnusedId DEF TypeOK, RunnerState, SessionRow, Pcs, Errors, Verdict, Publish
  <2>2. runner' = [runner EXCEPT ![r] = x]
    BY <1>8 DEF TypeOK, RunnerState, Publish
  <2>3. x.of = runner[r].of /\ x.base = runner[r].base /\ runner[r].pc \in Working /\ x.pc \in Working
    BY <1>8 DEF TypeOK, RunnerState, Working, Publish
  <2>4. /\ x.pc = "build" => x.list = session[runner[r].of].runs
        /\ x.pc = "publish" => runner[r].pc = "build" /\ x.list = runner[r].list
        /\ x.pc = "settle" /\ x.outcome = "none" => runner[r].pc = "published" \/ Published(runner[r].of) # {}
    BY <1>8 DEF TypeOK, RunnerState, Verdict, Own, Published, Publish
  <2>5. x.pc = "published" /\ runner[r].pc = "publish" /\ runner[r].of = i
    BY <1>8 DEF TypeOK, RunnerState, Publish
  <2>6. \E v \in versions' : v.by = runner[r].of
    <3>1. NewVersion(r, i, id) \in versions' /\ NewVersion(r, i, id).by = i
      BY <1>8 DEF Publish, NewVersion
    <3> QED
      BY <2>5, <3>1
  <2> HIDE DEF x
  <2> QED
    BY <2>1, <2>2, <2>3, <2>4, <2>5, <2>6, RunnerSet DEF GoesOn
<1>9. Fenced(r) => runner' \in [Runners -> RunnerState] /\ GoesOn(r)
  BY <1>4 DEF Fenced
<1> QED
  BY <1>1, <1>2, <1>3, <1>5, <1>6, <1>7, <1>8, <1>9

\* The steps of runners that change nothing else but the queue.
RunnerOnly(r, i) ==
    \/ \E rebase \in BOOLEAN : CommitRequest(r, i, rebase)
    \/ StartRefused(r, i) \/ Enqueue(r, i) \/ Deliver(r, i)
    \/ Load(r, i) \/ ListRuns(r, i) \/ Build(r, i) \/ FindOwn(r, i)

\* The steps of clients, the queue and the sweep.
SessionOnly(i) ==
    \/ CountOpen(i) \/ InsertSession(i) \/ UploadFiles(i) \/ Expire(i) \/ JobLost(i) \/ Recover(i)
    \/ \E b \in Batches : ClaimRun(i, b) \/ RecordRun(i, b)

RunnerAlone(r) == CheckHead(r) \/ PublishLost(r) \/ ReadBack(r) \/ Fenced(r) \/ Die(r)

\* What a runner does that publishes nothing and settles nothing.
LEMMA RunnerOnlyStep ==
    ASSUME TypeOK, NEW r \in Runners,
           RunnerAlone(r) \/ \E i \in Sessions : RunnerOnly(r, i)
    PROVE  /\ runner' \in [Runners -> RunnerState]
           /\ UNCHANGED <<versions, head, session>>
           /\ Ends(r) \/ Reads(r) \/ GoesOn(r) \/ \E i \in Sessions : Waits(r, i)
           /\ \/ jobs' \subseteq jobs
              \/ runner[r].pc = "enqueue" /\ jobs' \subseteq jobs \cup {runner[r].of}
           /\ jobs' \subseteq Sessions
<1>1. CASE RunnerAlone(r)
  <2>1. UNCHANGED <<versions, head, session, jobs>>
    BY <1>1 DEF RunnerAlone, CheckHead, PublishLost, ReadBack, Fenced, Die
  <2>2. CASE Die(r)
    BY <2>1, <2>2, EndsTyped DEF Die, Ends, TypeOK
  <2>3. CASE ~Die(r)
    BY <1>1, <2>1, <2>3, GoesOnStep DEF RunnerAlone, TypeOK
  <2> QED
    BY <2>2, <2>3
<1>2. ASSUME NEW i \in Sessions, RunnerOnly(r, i)
      PROVE  /\ runner' \in [Runners -> RunnerState]
             /\ UNCHANGED <<versions, head, session>>
             /\ Ends(r) \/ Reads(r) \/ GoesOn(r) \/ Waits(r, i)
             /\ \/ jobs' \subseteq jobs
                \/ runner[r].pc = "enqueue" /\ jobs' \subseteq jobs \cup {runner[r].of}
             /\ jobs' \subseteq Sessions
  <2>1. UNCHANGED <<versions, head, session>>
    BY <1>2 DEF RunnerOnly, CommitRequest, StartRefused, Enqueue, Deliver, Load, Done, ListRuns, Build, FindOwn
  <2>2. /\ jobs' \subseteq Sessions
        /\ \/ jobs' \subseteq jobs
           \/ runner[r].pc = "enqueue" /\ jobs' \subseteq jobs \cup {runner[r].of}
    BY <1>2 DEF RunnerOnly, CommitRequest, StartRefused, Enqueue, Deliver, Load, Done, ListRuns, Build,
       FindOwn, TypeOK
  <2>3. CASE StartRefused(r, i) \/ Enqueue(r, i)
    BY <2>1, <2>2, <2>3, EndsTyped DEF StartRefused, Enqueue, Ends
  <2>4. CASE Load(r, i)
    BY <2>1, <2>2, <2>4, ReadsStep
  <2>5. CASE Deliver(r, i) \/ \E rebase \in BOOLEAN : CommitRequest(r, i, rebase)
    BY <2>1, <2>2, <2>5, WaitsStep
  <2>6. CASE ListRuns(r, i) \/ Build(r, i) \/ FindOwn(r, i)
    BY <2>1, <2>2, <2>6, GoesOnStep
  <2> QED
    BY <1>2, <2>3, <2>4, <2>5, <2>6 DEF RunnerOnly
<1> QED
  BY <1>1, <1>2

\* A step is of one of six kinds.
LEMMA StepKinds ==
    ASSUME [Next]_vars
    PROVE  \/ UNCHANGED vars
           \/ \E i \in Sessions : SessionOnly(i)
           \/ \E r \in Runners : RunnerAlone(r) \/ \E i \in Sessions : RunnerOnly(r, i)
           \/ \E r \in Runners, i \in Sessions : StartCommit(r, i) \/ Settle(r, i)
           \/ \E r \in Runners, i \in Sessions, id \in NewIds : Publish(r, i, id)
           \/ \E id \in NewIds : RivalPublishes(id)
  BY DEF Next, SessionOnly, RunnerAlone, RunnerOnly

-----------------------------------------------------------------------------
(* Types, and a linear history: together, since the types of a new version *)
(* are those of the row it is made from.                                   *)

LEMMA HistoryInit == Init => TypeOK /\ LinearHistory
<1> USE PushConstants DEF Init, Idle, NoSession
<1>1. Init => TypeOK
  BY DEF TypeOK, SessionRow, RunnerState, VersionRow, Statuses, Errors, Pcs
<1>2. Init => LinearHistory
  BY DEF LinearHistory
<1> QED
  BY <1>1, <1>2

LEMMA SessionOnlyTyped ==
    ASSUME TypeOK, NEW i \in Sessions, SessionOnly(i)
    PROVE  /\ session' \in [Sessions -> SessionRow] /\ jobs' \subseteq Sessions
           /\ UNCHANGED <<versions, head, runner>>
<1>1. UNCHANGED <<versions, head, runner>> /\ jobs' \subseteq Sessions
  BY DEF SessionOnly, CountOpen, InsertSession, UploadFiles, Expire, ClaimRun, RecordRun, JobLost,
     Recover, Nudge, FailStalled, TypeOK
<1>0. session[i] \in SessionRow
  BY DEF TypeOK
<1>2. CASE CountOpen(i) \/ UploadFiles(i) \/ Expire(i)
  <2>1. /\ [session[i] EXCEPT !.status = "counted", !.base = head] \in SessionRow
        /\ [session[i] EXCEPT !.held = TRUE] \in SessionRow
        /\ [session[i] EXCEPT !.status = "expired"] \in SessionRow
    BY <1>0 DEF SessionRow, Statuses, TypeOK
  <2> QED
    BY <1>1, <1>2, <2>1 DEF CountOpen, UploadFiles, Expire, TypeOK
<1>3. CASE InsertSession(i)
  <2>1. \A held \in BOOLEAN : [session[i] EXCEPT !.status = "open", !.held = held] \in SessionRow
    BY <1>0 DEF SessionRow, Statuses
  <2> QED
    BY <1>1, <1>3, <2>1 DEF InsertSession, TypeOK
<1>4. CASE \E b \in Batches : ClaimRun(i, b) \/ RecordRun(i, b)
  <2>1. PICK b \in Batches : ClaimRun(i, b) \/ RecordRun(i, b)
    BY <1>4
  <2>2. CASE ClaimRun(i, b)
    <3>1. [session[i] EXCEPT !.claimed = session[i].claimed \cup {b}] \in SessionRow
      BY <1>0 DEF SessionRow
    <3> QED
      BY <1>1, <2>2, <3>1 DEF ClaimRun, TypeOK
  <2>3. CASE RecordRun(i, b)
    <3>1. [session[i] EXCEPT !.claimed = session[i].claimed \ {b},
                             !.runs = session[i].runs \cup {b}] \in SessionRow
      BY <1>0 DEF SessionRow
    <3> QED
      BY <1>1, <2>3, <3>1 DEF RecordRun, TypeOK
  <2> QED
    BY <2>1, <2>2, <2>3
<1>5. CASE JobLost(i)
  BY <1>1, <1>5 DEF JobLost, TypeOK
<1>6. CASE Recover(i)
  BY <1>1, <1>6 DEF Recover, Nudge, FailStalled, TypeOK, SessionRow, Statuses, Errors
<1> QED
  BY <1>2, <1>3, <1>4, <1>5, <1>6 DEF SessionOnly

LEMMA StartTyped ==
    ASSUME TypeOK, NEW r \in Runners, NEW i \in Sessions, StartCommit(r, i)
    PROVE  /\ session' \in [Sessions -> SessionRow] /\ UNCHANGED <<versions, head, jobs>>
           /\ runner' \in [Runners -> RunnerState] /\ Waits(r, i)
<1> DEFINE base == BaseOf(r)
           rebased == session[i].rebased \/ runner[r].rebase
           stalls == IF runner[r].from = "failed" THEN 0 ELSE session[i].stalls
           row == [session[i] EXCEPT !.status = "committing", !.error = "none", !.base = base,
                                     !.rebased = rebased, !.stalls = stalls]
<1>0. session[i] \in SessionRow /\ runner[r] \in RunnerState /\ runner[r].of = i
  BY DEF TypeOK, StartCommit
<1>1. row \in SessionRow
  <2>1. stalls \in Nat /\ rebased \in BOOLEAN
    BY <1>0 DEF SessionRow, RunnerState
  <2>2. base \in VersionIds \cup {None}
    BY <1>0 DEF BaseOf, SessionRow, RunnerState
  <2> HIDE DEF stalls, rebased, base
  <2> QED
    BY <1>0, <2>1, <2>2 DEF SessionRow, Statuses, Errors
<1>2. session' = [session EXCEPT ![i] = row]
  BY DEF StartCommit
<1> HIDE DEF row
<1>3. session' \in [Sessions -> SessionRow]
  BY <1>1, <1>2 DEF TypeOK
<1> QED
  BY <1>3, WaitsStep DEF StartCommit

LEMMA SettleTyped ==
    ASSUME TypeOK, NEW r \in Runners, NEW i \in Sessions, Settle(r, i)
    PROVE  /\ session' \in [Sessions -> SessionRow] /\ UNCHANGED <<versions, head>>
           /\ jobs' \subseteq jobs
           /\ runner' \in [Runners -> RunnerState] /\ Ends(r)
<1>0. session[i] \in SessionRow /\ runner[r].outcome \in Errors
  BY DEF TypeOK, RunnerState
<1>1. Settled(i, runner[r].outcome) \in SessionRow
  <2>1. CASE runner[r].outcome = "none"
    BY <1>0, <2>1 DEF Settled, SessionRow, Statuses
  <2>2. CASE runner[r].outcome = "missing"
    BY <1>0, <2>2 DEF Settled, SessionRow, Statuses, Errors
  <2>3. CASE runner[r].outcome \notin {"none", "missing"}
    <3>1. Settled(i, runner[r].outcome) = [session[i] EXCEPT !.status = "failed", !.error = runner[r].outcome]
      BY <2>3 DEF Settled
    <3> QED
      BY <1>0, <3>1 DEF SessionRow, Statuses
  <2> QED
    BY <2>1, <2>2, <2>3
<1>2. session' \in [Sessions -> SessionRow]
  BY <1>1 DEF Settle, TypeOK
<1> QED
  BY <1>2, EndsTyped DEF Settle, Done, Ends, TypeOK

LEMMA HistoryStep == TypeOK /\ LinearHistory /\ [Next]_vars => TypeOK' /\ LinearHistory'
<1> SUFFICES ASSUME TypeOK, LinearHistory, [Next]_vars PROVE TypeOK' /\ LinearHistory'
  OBVIOUS
<1>1. ASSUME UNCHANGED <<versions, head>> PROVE LinearHistory'
  BY <1>1 DEF LinearHistory
<1>2. CASE UNCHANGED vars
  BY <1>1, <1>2 DEF vars, TypeOK
<1>3. ASSUME NEW i \in Sessions, SessionOnly(i) PROVE TypeOK' /\ LinearHistory'
  BY <1>1, <1>3, SessionOnlyTyped DEF TypeOK
<1>4. ASSUME NEW r \in Runners, RunnerAlone(r) \/ \E i \in Sessions : RunnerOnly(r, i)
      PROVE TypeOK' /\ LinearHistory'
  BY <1>1, <1>4, RunnerOnlyStep DEF TypeOK
<1>5. ASSUME NEW r \in Runners, NEW i \in Sessions, StartCommit(r, i) \/ Settle(r, i)
      PROVE TypeOK' /\ LinearHistory'
  BY <1>1, <1>5, StartTyped, SettleTyped DEF TypeOK
<1>6. ASSUME NEW r \in Runners, NEW i \in Sessions, NEW id \in NewIds, Publish(r, i, id)
      PROVE  TypeOK' /\ LinearHistory'
  <2>1. NewVersion(r, i, id) \in VersionRow
    BY <1>6, UnusedId, OnHead DEF Publish, NewVersion, VersionRow, TypeOK, RunnerState
  <2>2. LinearHistory'
    BY <1>6, <2>1, HistoryGrows DEF Publish, NewVersion
  <2> QED
    BY <1>6, <2>1, <2>2, UnusedId, GoesOnStep DEF Publish, TypeOK
<1>7. ASSUME NEW id \in NewIds, RivalPublishes(id) PROVE TypeOK' /\ LinearHistory'
  <2> DEFINE v == [id |-> id, base |-> head, seq |-> NextSeq(head), by |-> None, content |-> Content(head)]
  <2>1. v \in VersionRow
    BY UnusedId, OnHead DEF VersionRow, TypeOK
  <2>2. LinearHistory'
    BY <1>7, <2>1, HistoryGrows DEF RivalPublishes
  <2> QED
    BY <1>7, <2>1, <2>2, UnusedId DEF RivalPublishes, TypeOK
<1> QED
  BY <1>2, <1>3, <1>4, <1>5, <1>6, <1>7, StepKinds

\* Rows, sessions and runners keep their types, through every retry and reopening.
THEOREM TypeCorrect == Spec => []TypeOK
  BY HistoryInit, HistoryStep, PTL DEF Spec

\* publish.ts 1-13: the versions of a collection are one line, whoever publishes.
THEOREM HistoryIsLinear == Spec => []LinearHistory
  BY HistoryInit, HistoryStep, PTL DEF Spec

-----------------------------------------------------------------------------
(* What the steps do to a session.                                         *)

OtherSessions(i) == \A j \in Sessions \ {i} : session'[j] = session[j]

SameBase(i) == session'[i].base = session[i].base /\ session'[i].rebased = session[i].rebased

SameUploads(i) == session'[i].runs = session[i].runs /\ session'[i].claimed = session[i].claimed

\* Of the calls of clients and the sweep, none commits a session or closes it to uploads,
\* and an upload is claimed only while no commit of it is asked for or made.
ClientFields(i) ==
    /\ OtherSessions(i)
    /\ session'[i].reopened = session[i].reopened
    /\ Begun(i) => SameBase(i) /\ Begun(i)'
    /\ jobs' \subseteq jobs \/ (Begun(i) /\ jobs' = jobs \cup {i})
    /\ session'[i].status = "committed" => session[i].status = "committed"
    /\ session[i].status \in {"committed", "expired"} => session'[i].status = session[i].status
    /\ Closed(i)' <=> Closed(i)
    /\ \/ session'[i].claimed \subseteq session[i].claimed
       \/ /\ ~Closed(i)
          /\ \A r \in Runners : runner[r].of = i => runner[r].pc # "request"
    /\ session'[i].runs = session[i].runs \/ session[i].claimed # {}

LEMMA SessionOnlyFields ==
    ASSUME TypeOK, NEW i \in Sessions, SessionOnly(i)
    PROVE  ClientFields(i)
<1>0. session \in [Sessions -> SessionRow] /\ session[i] \in SessionRow
  BY DEF TypeOK
<1> USE <1>0 DEF SessionRow, ClientFields, OtherSessions, SameBase, Begun, Closed
<1>1. CASE CountOpen(i)
  BY <1>1 DEF CountOpen
<1>2. CASE InsertSession(i)
  BY <1>2 DEF InsertSession
<1>3. CASE UploadFiles(i) \/ Expire(i)
  BY <1>3 DEF UploadFiles, Expire
<1>4. ASSUME NEW b \in Batches, ClaimRun(i, b) PROVE ClientFields(i)
  BY <1>4 DEF ClaimRun, Committing
<1>5. ASSUME NEW b \in Batches, RecordRun(i, b) PROVE ClientFields(i)
  BY <1>5 DEF RecordRun
<1>6. CASE JobLost(i)
  BY <1>6 DEF JobLost
<1>7. CASE Nudge(i)
  BY <1>7 DEF Nudge
<1>8. CASE FailStalled(i)
  BY <1>8 DEF FailStalled
<1> QED
  BY <1>1, <1>2, <1>3, <1>4, <1>5, <1>6, <1>7, <1>8 DEF SessionOnly, Recover

LEMMA StartFields ==
    ASSUME TypeOK, WorkOnOpened, ClosedToUploads, NEW r \in Runners, NEW i \in Sessions, StartCommit(r, i)
    PROVE  /\ OtherSessions(i) /\ SameUploads(i) /\ session[i].claimed = {}
           /\ session'[i].status = "committing" /\ session[i].status # "committed" /\ Begun(i)
           /\ session'[i].reopened = session[i].reopened
           /\ session'[i].rebased \/ SameBase(i)
<1> DEFINE row == [session[i] EXCEPT !.status = "committing", !.error = "none", !.base = BaseOf(r),
                     !.rebased = session[i].rebased \/ runner[r].rebase,
                     !.stalls = IF runner[r].from = "failed" THEN 0 ELSE session[i].stalls]
<1>1. /\ session[i] \in SessionRow /\ runner[r].of = i /\ runner[r].pc = "request"
      /\ session[i].status \in {"open", "failed"} /\ session[i].claimed = {}
      /\ runner[r].rebase \in BOOLEAN
  BY DEF StartCommit, TypeOK, ClosedToUploads, RunnerState
<1>2. /\ row.status = "committing" /\ row.runs = session[i].runs /\ row.claimed = session[i].claimed
      /\ row.reopened = session[i].reopened /\ row.base = BaseOf(r)
      /\ row.rebased = (session[i].rebased \/ runner[r].rebase)
  BY <1>1 DEF SessionRow
<1>3. ~runner[r].rebase => row.base = session[i].base /\ row.rebased = session[i].rebased
  BY <1>1, <1>2 DEF BaseOf, SessionRow
<1>4. session' = [session EXCEPT ![i] = row]
  BY DEF StartCommit
<1> HIDE DEF row
<1>5. session'[i] = row /\ OtherSessions(i)
  BY <1>4 DEF TypeOK, OtherSessions
<1> QED
  BY <1>1, <1>2, <1>3, <1>5 DEF SameUploads, SameBase, Begun

LEMMA SettleFields ==
    ASSUME TypeOK, NEW r \in Runners, NEW i \in Sessions, Settle(r, i)
    PROVE  /\ OtherSessions(i) /\ SameUploads(i) /\ SameBase(i)
           /\ Begun(i) => Begun(i)'
           /\ session'[i].status = "committed" =>
                 session[i].status = "committed" \/ runner[r].outcome = "none"
           /\ session[i].status \in {"committed", "expired"} => session'[i].status = session[i].status
           /\ session[i].reopened => session'[i].reopened
           /\ ~session'[i].reopened => (Closed(i) <=> Closed(i)')
           /\ Closed(i)' => Closed(i)
           /\ runner[r].pc = "settle" /\ runner[r].of = i
<1>0. session[i] \in SessionRow /\ runner[r].pc = "settle" /\ runner[r].of = i
  BY DEF TypeOK, Settle
<1> USE DEF OtherSessions, SameUploads, SameBase, Begun, Closed
<1>1. CASE session[i].status # "committing"
  BY <1>0, <1>1 DEF Settle
<1>2. CASE session[i].status = "committing"
  <2>1. session' = [session EXCEPT ![i] = Settled(i, runner[r].outcome)]
    BY <1>2 DEF Settle
  <2>2. session'[i] = Settled(i, runner[r].outcome) /\ OtherSessions(i)
    BY <2>1 DEF TypeOK
  <2>3. CASE runner[r].outcome = "none"
    BY <1>0, <1>2, <2>2, <2>3 DEF Settled, SessionRow
  <2>4. CASE runner[r].outcome = "missing"
    BY <1>0, <1>2, <2>2, <2>4 DEF Settled, SessionRow
  <2>5. CASE runner[r].outcome \notin {"none", "missing"}
    <3>1. session'[i] = [session[i] EXCEPT !.status = "failed", !.error = runner[r].outcome]
      BY <2>2, <2>5 DEF Settled
    <3> QED
      BY <1>0, <1>2, <2>2, <2>5, <3>1 DEF SessionRow
  <2> QED
    BY <2>3, <2>4, <2>5
<1> QED
  BY <1>1, <1>2

-----------------------------------------------------------------------------
(* The inductive invariant, a conjunct at a time.                          *)

LEMMA WorkStep ==
    ASSUME TypeOK, WorkOnOpened, ClosedToUploads, [Next]_vars
    PROVE  WorkOnOpened'
<1> USE PushConstants DEF WorkOnOpened, Begun
<1>1. CASE UNCHANGED vars
  BY <1>1 DEF vars
<1>2. ASSUME NEW i \in Sessions, SessionOnly(i) PROVE WorkOnOpened'
  <2>1. UNCHANGED <<versions, runner>>
    BY <1>2, SessionOnlyTyped
  <2>2. \A j \in Sessions : Begun(j) => Begun(j)'
    BY <1>2, SessionOnlyFields DEF ClientFields, OtherSessions
  <2>3. \A j \in jobs' : Begun(j)'
    BY <1>2, <2>2, SessionOnlyFields DEF ClientFields, TypeOK
  <2> QED
    BY <2>1, <2>2, <2>3 DEF TypeOK, VersionRow
<1>3. ASSUME NEW r \in Runners, RunnerAlone(r) \/ \E i \in Sessions : RunnerOnly(r, i)
      PROVE  WorkOnOpened'
  <2>1. UNCHANGED <<versions, session>> /\ \A j \in jobs' : Begun(j)'
    BY <1>3, RunnerOnlyStep
  <2>2. Ends(r) \/ Reads(r) \/ GoesOn(r) \/ \E i \in Sessions : Waits(r, i)
    BY <1>3, RunnerOnlyStep
  <2>3. CASE Ends(r)
    BY <2>1, <2>3, EndsTyped DEF Others
  <2>4. CASE Reads(r)
    BY <2>1, <2>4 DEF Reads, Others
  <2>5. CASE GoesOn(r)
    BY <2>1, <2>5 DEF GoesOn, Others, Working
  <2>6. ASSUME NEW i \in Sessions, Waits(r, i) PROVE WorkOnOpened'
    <3>1. Begun(i)
      BY <2>6 DEF Waits
    <3> QED
      BY <2>1, <2>6, <3>1 DEF Waits, Others
  <2> QED
    BY <2>2, <2>3, <2>4, <2>5, <2>6
<1>4. ASSUME NEW r \in Runners, NEW i \in Sessions, StartCommit(r, i) PROVE WorkOnOpened'
  <2>1. UNCHANGED <<versions, jobs>> /\ Waits(r, i)
    BY <1>4, StartTyped
  <2>2. \A j \in Sessions : Begun(j) => Begun(j)'
    BY <1>4, StartFields DEF OtherSessions
  <2>3. Begun(i)'
    BY <1>4, StartFields
  <2> QED
    BY <2>1, <2>2, <2>3 DEF Waits, Others, TypeOK, VersionRow
<1>5. ASSUME NEW r \in Runners, NEW i \in Sessions, Settle(r, i) PROVE WorkOnOpened'
  <2>1. versions' = versions /\ jobs' \subseteq jobs /\ Ends(r)
    BY <1>5, SettleTyped
  <2>2. \A j \in Sessions : Begun(j) => Begun(j)'
    BY <1>5, SettleFields DEF OtherSessions
  <2> QED
    BY <2>1, <2>2, EndsTyped DEF Others, TypeOK, VersionRow
<1>6. ASSUME NEW r \in Runners, NEW i \in Sessions, NEW id \in NewIds, Publish(r, i, id)
      PROVE  WorkOnOpened'
  <2>1. UNCHANGED <<session, jobs>> /\ versions' = versions \cup {NewVersion(r, i, id)}
    BY <1>6 DEF Publish
  <2>2. GoesOn(r) /\ runner[r].of = i
    BY <1>6, GoesOnStep
  <2> QED
    BY <2>1, <2>2 DEF GoesOn, Others, Working, NewVersion
<1>7. ASSUME NEW id \in NewIds, RivalPublishes(id) PROVE WorkOnOpened'
  BY <1>7 DEF RivalPublishes
<1> QED
  BY <1>1, <1>2, <1>3, <1>4, <1>5, <1>6, <1>7, StepKinds

\* A runner that works has the base of its session, and so do its session's versions.
LEMMA BaseStep ==
    ASSUME TypeOK, WorkOnOpened, ClosedToUploads, BaseKept, [Next]_vars
    PROVE  BaseKept'
<1> USE PushConstants DEF BaseKept, Published
<1>1. CASE UNCHANGED vars
  BY <1>1 DEF vars
<1>2. ASSUME NEW i \in Sessions, SessionOnly(i) PROVE BaseKept'
  <2>1. UNCHANGED <<versions, runner>>
    BY <1>2, SessionOnlyTyped
  <2>2. OtherSessions(i) /\ (Begun(i) => SameBase(i))
    BY <1>2, SessionOnlyFields DEF ClientFields
  <2>3. CASE Begun(i)
    BY <2>1, <2>2, <2>3 DEF OtherSessions, SameBase
  <2>4. CASE ~Begun(i)
    <3>1. Published(i) = {} /\ \A r \in Runners : runner[r].of = i => runner[r].pc = "idle"
      BY <2>4 DEF WorkOnOpened
    <3> QED
      BY <2>1, <2>2, <3>1 DEF OtherSessions, Working
  <2> QED
    BY <2>3, <2>4
<1>3. ASSUME NEW r \in Runners, RunnerAlone(r) \/ \E i \in Sessions : RunnerOnly(r, i)
      PROVE  BaseKept'
  <2>1. UNCHANGED <<versions, session>>
    BY <1>3, RunnerOnlyStep
  <2>2. Ends(r) \/ Reads(r) \/ GoesOn(r) \/ \E i \in Sessions : Waits(r, i)
    BY <1>3, RunnerOnlyStep
  <2>3. CASE Ends(r)
    BY <2>1, <2>3, EndsTyped DEF Others, Working
  <2>4. CASE Reads(r)
    BY <2>1, <2>4 DEF Reads, Others
  <2>5. CASE GoesOn(r)
    BY <2>1, <2>5 DEF GoesOn, Others
  <2>6. ASSUME NEW i \in Sessions, Waits(r, i) PROVE BaseKept'
    BY <2>1, <2>6 DEF Waits, Others, Working
  <2> QED
    BY <2>2, <2>3, <2>4, <2>5, <2>6
<1>4. ASSUME NEW r \in Runners, NEW i \in Sessions, StartCommit(r, i) PROVE BaseKept'
  <2>1. versions' = versions /\ Waits(r, i)
    BY <1>4, StartTyped
  <2>2. OtherSessions(i) /\ (session'[i].rebased \/ SameBase(i))
    BY <1>4, StartFields
  <2> QED
    BY <2>1, <2>2 DEF Waits, Others, Working, OtherSessions, SameBase
<1>5. ASSUME NEW r \in Runners, NEW i \in Sessions, Settle(r, i) PROVE BaseKept'
  <2>1. versions' = versions /\ Ends(r)
    BY <1>5, SettleTyped
  <2>2. OtherSessions(i) /\ SameBase(i)
    BY <1>5, SettleFields
  <2> QED
    BY <2>1, <2>2, EndsTyped DEF Others, Working, OtherSessions, SameBase
<1>6. ASSUME NEW r \in Runners, NEW i \in Sessions, NEW id \in NewIds, Publish(r, i, id)
      PROVE  BaseKept'
  <2>1. session' = session /\ versions' = versions \cup {NewVersion(r, i, id)}
    BY <1>6 DEF Publish
  <2>2. GoesOn(r) /\ runner[r].of = i
    BY <1>6, GoesOnStep
  <2> QED
    BY <2>1, <2>2 DEF GoesOn, Others, NewVersion
<1>7. ASSUME NEW id \in NewIds, RivalPublishes(id) PROVE BaseKept'
  BY <1>7 DEF RivalPublishes
<1> QED
  BY <1>1, <1>2, <1>3, <1>4, <1>5, <1>6, <1>7, StepKinds

\* A session is in the history once as long as its base stays: its versions would
\* have the same base, and no two versions have.
LEMMA OnceByBase ==
    ASSUME LinearHistory, BaseKept PROVE CommitsOnce
  BY DEF LinearHistory, BaseKept, CommitsOnce, Published

LEMMA ClosedStep ==
    ASSUME TypeOK, WorkOnOpened, ClosedToUploads, [Next]_vars
    PROVE  ClosedToUploads'
<1> USE PushConstants DEF ClosedToUploads, Closed
<1>1. CASE UNCHANGED vars
  BY <1>1 DEF vars
<1>2. ASSUME NEW i \in Sessions, SessionOnly(i) PROVE ClosedToUploads'
  <2>1. runner' = runner
    BY <1>2, SessionOnlyTyped
  <2>2. /\ OtherSessions(i) /\ (Closed(i)' <=> Closed(i))
        /\ \/ session'[i].claimed \subseteq session[i].claimed
           \/ ~Closed(i) /\ \A r \in Runners : runner[r].of = i => runner[r].pc # "request"
    BY <1>2, SessionOnlyFields DEF ClientFields
  <2> QED
    BY <2>1, <2>2 DEF OtherSessions, WorkOnOpened
<1>3. ASSUME NEW r \in Runners, RunnerAlone(r) \/ \E i \in Sessions : RunnerOnly(r, i)
      PROVE  ClosedToUploads'
  <2>1. session' = session
    BY <1>3, RunnerOnlyStep
  <2>2. Others(r) /\ (runner'[r].pc = "request" =>
                         session[runner'[r].of].claimed = {} /\ runner'[r].from \in {"open", "failed"})
    <3>1. Ends(r) \/ Reads(r) \/ GoesOn(r) \/ \E i \in Sessions : Waits(r, i)
      BY <1>3, RunnerOnlyStep
    <3> QED
      BY <3>1, EndsTyped DEF Reads, GoesOn, Waits, Working
  <2> QED
    BY <2>1, <2>2 DEF Others
<1>4. ASSUME NEW r \in Runners, NEW i \in Sessions, StartCommit(r, i) PROVE ClosedToUploads'
  <2>1. Waits(r, i)
    BY <1>4, StartTyped
  <2>2. OtherSessions(i) /\ session'[i].claimed = {}
    BY <1>4, StartFields DEF SameUploads
  <2> QED
    BY <2>1, <2>2 DEF Waits, Others, OtherSessions, WorkOnOpened
<1>5. ASSUME NEW r \in Runners, NEW i \in Sessions, Settle(r, i) PROVE ClosedToUploads'
  <2>1. Ends(r)
    BY <1>5, SettleTyped
  <2>2. OtherSessions(i) /\ SameUploads(i) /\ (Closed(i)' => Closed(i))
    BY <1>5, SettleFields
  <2> QED
    BY <2>1, <2>2, EndsTyped DEF Others, OtherSessions, SameUploads, WorkOnOpened
<1>6. ASSUME NEW r \in Runners, NEW i \in Sessions, NEW id \in NewIds, Publish(r, i, id)
      PROVE  ClosedToUploads'
  BY <1>6, GoesOnStep DEF Publish, Others, GoesOn
<1>7. ASSUME NEW id \in NewIds, RivalPublishes(id) PROVE ClosedToUploads'
  BY <1>7 DEF RivalPublishes
<1> QED
  BY <1>1, <1>2, <1>3, <1>4, <1>5, <1>6, <1>7, StepKinds

\* No upload is added to a session that was never reopened once a runner has listed
\* its uploads, or a version of it is there.
LEMMA UploadsStep ==
    ASSUME TypeOK, LinearHistory, WorkOnOpened, ClosedToUploads, UploadsKept, [Next]_vars
    PROVE  UploadsKept'
<1> USE PushConstants DEF UploadsKept, Published
<1>1. CASE UNCHANGED vars
  BY <1>1 DEF vars, Closed
<1>2. ASSUME NEW i \in Sessions, SessionOnly(i) PROVE UploadsKept'
  <2>1. UNCHANGED <<versions, runner>>
    BY <1>2, SessionOnlyTyped
  <2>2. OtherSessions(i) /\ session'[i].reopened = session[i].reopened /\ (Closed(i)' <=> Closed(i))
    BY <1>2, SessionOnlyFields DEF ClientFields
  <2>3. Closed(i) => session'[i].runs = session[i].runs
    BY <1>2, SessionOnlyFields DEF ClientFields, ClosedToUploads
  <2>4. \A j \in Sessions \ {i} : Closed(j)' <=> Closed(j)
    BY <2>2 DEF OtherSessions, Closed
  <2>5. {"build", "publish"} \subseteq Working
    BY DEF Working
  <2> QED
    BY <2>1, <2>2, <2>3, <2>4, <2>5 DEF OtherSessions
<1>3. ASSUME NEW r \in Runners, RunnerAlone(r) \/ \E i \in Sessions : RunnerOnly(r, i)
      PROVE  UploadsKept'
  <2>1. UNCHANGED <<versions, session>> /\ \A i \in Sessions : Closed(i)' <=> Closed(i)
    BY <1>3, RunnerOnlyStep DEF Closed
  <2>2. Ends(r) \/ Reads(r) \/ GoesOn(r) \/ \E i \in Sessions : Waits(r, i)
    BY <1>3, RunnerOnlyStep
  <2>3. CASE Ends(r)
    BY <2>1, <2>3, EndsTyped DEF Others, Working
  <2>4. CASE Reads(r)
    BY <2>1, <2>4 DEF Reads, Others, Closed
  <2>5. CASE GoesOn(r)
    BY <2>1, <2>5 DEF GoesOn, Others
  <2>6. ASSUME NEW i \in Sessions, Waits(r, i) PROVE UploadsKept'
    BY <2>1, <2>6 DEF Waits, Others, Working
  <2> QED
    BY <2>2, <2>3, <2>4, <2>5, <2>6
<1>4. ASSUME NEW r \in Runners, NEW i \in Sessions, StartCommit(r, i) PROVE UploadsKept'
  <2>1. versions' = versions /\ Waits(r, i)
    BY <1>4, StartTyped
  <2>2. /\ OtherSessions(i) /\ SameUploads(i) /\ Closed(i)'
        /\ session'[i].reopened = session[i].reopened
    BY <1>4, StartFields DEF Closed
  <2>3. \A j \in Sessions \ {i} : Closed(j)' <=> Closed(j)
    BY <2>2 DEF OtherSessions, Closed
  <2> QED
    BY <2>1, <2>2, <2>3 DEF Waits, Others, Working, OtherSessions, SameUploads
<1>5. ASSUME NEW r \in Runners, NEW i \in Sessions, Settle(r, i) PROVE UploadsKept'
  <2>1. versions' = versions /\ Ends(r)
    BY <1>5, SettleTyped
  <2>2. /\ OtherSessions(i) /\ SameUploads(i) /\ (session[i].reopened => session'[i].reopened)
        /\ ~session'[i].reopened => (Closed(i) <=> Closed(i)')
    BY <1>5, SettleFields
  <2>3. \A j \in Sessions \ {i} : Closed(j)' <=> Closed(j)
    BY <2>2 DEF OtherSessions, Closed
  <2> QED
    BY <2>1, <2>2, <2>3, EndsTyped DEF Others, Working, OtherSessions, SameUploads
<1>6. ASSUME NEW r \in Runners, NEW i \in Sessions, NEW id \in NewIds, Publish(r, i, id)
      PROVE  UploadsKept'
  <2>1. session' = session /\ versions' = versions \cup {NewVersion(r, i, id)}
    BY <1>6 DEF Publish
  <2>2. GoesOn(r) /\ runner[r].of = i /\ runner[r].pc = "publish" /\ runner'[r].pc = "published"
    BY <1>6, GoesOnStep
  <2>3. NewVersion(r, i, id).by = i /\ runner[r].list \subseteq NewVersion(r, i, id).content
    BY DEF NewVersion
  <2>4. \A j \in Sessions : Closed(j)' <=> Closed(j)
    BY <2>1 DEF Closed
  <2> QED
    BY <2>1, <2>2, <2>3, <2>4 DEF GoesOn, Others
<1>7. ASSUME NEW id \in NewIds, RivalPublishes(id) PROVE UploadsKept'
  BY <1>7 DEF RivalPublishes, Closed
<1> QED
  BY <1>1, <1>2, <1>3, <1>4, <1>5, <1>6, <1>7, StepKinds

\* A runner that reports a version, and a session that is committed, have one.
LEMMA OutcomesStep ==
    ASSUME TypeOK, WorkOnOpened, ClosedToUploads, OutcomesTrue, CommittedIsPublished, [Next]_vars
    PROVE  OutcomesTrue' /\ CommittedIsPublished'
<1> USE PushConstants DEF OutcomesTrue, CommittedIsPublished
<1>0. versions \subseteq versions' => \A i \in Sessions : Published(i) # {} => Published(i)' # {}
  BY DEF Published
<1>1. CASE UNCHANGED vars
  BY <1>1 DEF vars, Published
<1>2. ASSUME NEW i \in Sessions, SessionOnly(i) PROVE OutcomesTrue' /\ CommittedIsPublished'
  <2>1. UNCHANGED <<versions, runner>>
    BY <1>2, SessionOnlyTyped
  <2>2. OtherSessions(i) /\ (session'[i].status = "committed" => session[i].status = "committed")
    BY <1>2, SessionOnlyFields DEF ClientFields
  <2> QED
    BY <2>1, <2>2 DEF OtherSessions, Published
<1>3. ASSUME NEW r \in Runners, RunnerAlone(r) \/ \E i \in Sessions : RunnerOnly(r, i)
      PROVE  OutcomesTrue' /\ CommittedIsPublished'
  <2>1. UNCHANGED <<versions, session>>
    BY <1>3, RunnerOnlyStep
  <2>2. Ends(r) \/ Reads(r) \/ GoesOn(r) \/ \E i \in Sessions : Waits(r, i)
    BY <1>3, RunnerOnlyStep
  <2>3. CASE GoesOn(r)
    BY <1>0, <2>1, <2>3 DEF GoesOn, Others, Published
  <2>4. CASE ~GoesOn(r)
    <3>1. Others(r) /\ runner'[r].pc \notin {"published", "settle"}
      BY <2>2, <2>4, EndsTyped DEF Reads, Waits
    <3> QED
      BY <2>1, <3>1 DEF Others, Published
  <2> QED
    BY <2>3, <2>4
<1>4. ASSUME NEW r \in Runners, NEW i \in Sessions, StartCommit(r, i)
      PROVE  OutcomesTrue' /\ CommittedIsPublished'
  <2>1. versions' = versions /\ Waits(r, i)
    BY <1>4, StartTyped
  <2>2. OtherSessions(i) /\ session'[i].status = "committing"
    BY <1>4, StartFields
  <2> QED
    BY <2>1, <2>2 DEF Waits, Others, OtherSessions, Published
<1>5. ASSUME NEW r \in Runners, NEW i \in Sessions, Settle(r, i)
      PROVE  OutcomesTrue' /\ CommittedIsPublished'
  <2>1. versions' = versions /\ Ends(r)
    BY <1>5, SettleTyped
  <2>2. /\ OtherSessions(i) /\ runner[r].pc = "settle" /\ runner[r].of = i
        /\ session'[i].status = "committed" => session[i].status = "committed" \/ runner[r].outcome = "none"
    BY <1>5, SettleFields
  <2> QED
    BY <2>1, <2>2, EndsTyped DEF Others, OtherSessions, Published
<1>6. ASSUME NEW r \in Runners, NEW i \in Sessions, NEW id \in NewIds, Publish(r, i, id)
      PROVE  OutcomesTrue' /\ CommittedIsPublished'
  <2>1. session' = session /\ versions \subseteq versions'
    BY <1>6 DEF Publish
  <2>2. GoesOn(r) /\ runner'[r].pc = "published"
    BY <1>6, GoesOnStep
  <2>3. \A j \in Sessions : Published(j) # {} => Published(j)' # {}
    BY <1>0, <2>1
  <2>4. ASSUME NEW q \in Runners,
               (runner[q].pc = "published" \/ (runner[q].pc = "settle" /\ runner[q].outcome = "none"))'
        PROVE  (Published(runner[q].of) # {})'
    <3>1. CASE q = r
      BY <2>2, <2>4, <3>1 DEF GoesOn, Published
    <3>2. CASE q # r
      <4>1. runner'[q] = runner[q] /\ Published(runner[q].of) # {}
        BY <2>2, <2>4, <3>2 DEF GoesOn, Others
      <4> QED
        BY <2>1, <4>1 DEF Published
    <3> QED
      BY <3>1, <3>2
  <2>5. OutcomesTrue'
    BY <2>4
  <2>6. CommittedIsPublished'
    BY <2>1, <2>3
  <2> QED
    BY <2>5, <2>6
<1>7. ASSUME NEW id \in NewIds, RivalPublishes(id) PROVE OutcomesTrue' /\ CommittedIsPublished'
  BY <1>7 DEF RivalPublishes, Published
<1> QED
  BY <1>1, <1>2, <1>3, <1>4, <1>5, <1>6, <1>7, StepKinds

\* A committed session is closed to uploads, and holds what was uploaded.
LEMMA HoldsUploads ==
    ASSUME UploadsKept PROVE CommittedHasUploads
  BY DEF UploadsKept, CommittedHasUploads

LEMMA PushInvInit == Init => PushInv
<1> SUFFICES ASSUME Init PROVE PushInv
  OBVIOUS
<1>1. TypeOK /\ LinearHistory
  BY HistoryInit
<1>2. versions = {} /\ jobs = {} /\ \A r \in Runners : runner[r].pc = "idle"
  BY DEF Init, Idle
<1>3. \A i \in Sessions : session[i].status = "none"
  BY DEF Init, NoSession
<1> USE <1>2, <1>3
<1>4. WorkOnOpened /\ BaseKept /\ UploadsKept
  BY DEF WorkOnOpened, BaseKept, UploadsKept, Published, Working
<1>5. ClosedToUploads
  BY DEF ClosedToUploads, Closed
<1>6. OutcomesTrue /\ CommittedIsPublished
  BY DEF OutcomesTrue, CommittedIsPublished
<1> QED
  BY <1>1, <1>4, <1>5, <1>6, OnceByBase, HoldsUploads DEF PushInv

LEMMA PushInvStep == PushInv /\ [Next]_vars => PushInv'
<1> SUFFICES ASSUME PushInv, [Next]_vars PROVE PushInv'
  OBVIOUS
<1>1. TypeOK' /\ LinearHistory'
  BY HistoryStep DEF PushInv
<1>2. WorkOnOpened' /\ BaseKept' /\ ClosedToUploads' /\ UploadsKept'
  BY WorkStep, BaseStep, ClosedStep, UploadsStep DEF PushInv
<1>3. OutcomesTrue' /\ CommittedIsPublished'
  BY OutcomesStep DEF PushInv
<1>4. CommitsOnce'
  BY <1>1, <1>2, OnceByBase DEF LinearHistory, BaseKept, CommitsOnce, Published
<1>5. CommittedHasUploads'
  BY <1>2, HoldsUploads DEF UploadsKept, CommittedHasUploads, Published
<1> QED
  BY <1>1, <1>2, <1>3, <1>4, <1>5 DEF PushInv

LEMMA PushInvHolds == Spec => []PushInv
  BY PushInvInit, PushInvStep, PTL DEF Spec

-----------------------------------------------------------------------------

\* finalize.ts 8-9, outcome.ts 91-95: however often its commit runs, in requests, jobs
\* and retries at once, a session that keeps its base is in the history at most once.
THEOREM OnceInHistory == Spec => []CommitsOnce
  BY PushInvHolds, PTL DEF PushInv

\* push.ts 165: a push reported as committed has its version in the history.
THEOREM CommittedThere == Spec => []CommittedIsPublished
  BY PushInvHolds, PTL DEF PushInv

\* protocol-v2.md 865-867: the version of a session that was never reopened holds all that
\* was ever uploaded to it.
THEOREM NoUploadLost == Spec => []CommittedHasUploads
  BY PushInvHolds, PTL DEF PushInv

\* A settled session stays settled, whichever of its runs ends last.
THEOREM SettledStays == Spec => CommittedStays
<1>1. PushInv /\ [Next]_vars =>
        [\A i \in Sessions :
            session[i].status \in {"committed", "expired"} => session'[i].status = session[i].status]_vars
  <2> SUFFICES ASSUME PushInv, [Next]_vars, NEW i \in Sessions, session[i].status \in {"committed", "expired"}
               PROVE  session'[i].status = session[i].status
    BY DEF vars
  <2>0. TypeOK /\ WorkOnOpened /\ ClosedToUploads
    BY DEF PushInv
  <2>1. CASE UNCHANGED vars
    BY <2>1 DEF vars
  <2>2. ASSUME NEW j \in Sessions, SessionOnly(j) PROVE session'[i].status = session[i].status
    BY <2>0, <2>2, SessionOnlyFields DEF ClientFields, OtherSessions
  <2>3. ASSUME NEW r \in Runners, RunnerAlone(r) \/ \E j \in Sessions : RunnerOnly(r, j)
        PROVE  session'[i].status = session[i].status
    BY <2>0, <2>3, RunnerOnlyStep
  <2>4. ASSUME NEW r \in Runners, NEW j \in Sessions, StartCommit(r, j)
        PROVE  session'[i].status = session[i].status
    <3>1. OtherSessions(j)
      BY <2>0, <2>4, StartFields
    <3>2. session[j].status \in {"open", "failed"}
      BY <2>0, <2>4 DEF StartCommit, ClosedToUploads
    <3> QED
      BY <3>1, <3>2 DEF OtherSessions
  <2>5. ASSUME NEW r \in Runners, NEW j \in Sessions, Settle(r, j)
        PROVE  session'[i].status = session[i].status
    BY <2>0, <2>5, SettleFields DEF OtherSessions
  <2>6. CASE \/ \E r \in Runners, j \in Sessions, id \in NewIds : Publish(r, j, id)
             \/ \E id \in NewIds : RivalPublishes(id)
    BY <2>6 DEF Publish, RivalPublishes
  <2> QED
    BY <2>1, <2>2, <2>3, <2>4, <2>5, <2>6, StepKinds
<1> QED
  BY <1>1, PushInvHolds, PTL DEF Spec, CommittedStays
=============================================================================
