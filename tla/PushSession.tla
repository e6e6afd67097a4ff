----------------------------- MODULE PushSession -----------------------------
(***************************************************************************)
(* A push session from opening to its version (server/src/api/push.ts,     *)
(* push/*.ts, versions/commit.ts, versions/publish.ts).                    *)
(*                                                                         *)
(* The commit of a session runs inside its request or as a push.commit job *)
(* that the queue delivers at least once; a maintenance sweep queues it    *)
(* again when it stops moving.  So several runners may be committing one   *)
(* session, each with what it read of it, while its client retries.  The   *)
(* session row and the collection's head move by compare-and-swap only.    *)
(* Each statement that reads or writes a shared row is an action.          *)
(***************************************************************************)
EXTENDS Naturals, FiniteSets

CONSTANTS
    Sessions, Batches,
    Refused,        \* sessions whose inputs the commit refuses (422)
    Runners,        \* requests and queue consumers
    VersionIds,     \* random ids; how many bounds the history
    None,           \* no version, no session
    OpenSessions,   \* limits.openSessions
    MaxStalls,      \* recoverConfig.maxStalls
    Rebases         \* clients may commit with `rebase`

ASSUME PushConstants ==
    /\ Refused \subseteq Sessions
    /\ None \notin Sessions \cup VersionIds
    /\ OpenSessions \in Nat /\ MaxStalls \in Nat
    /\ Rebases \in BOOLEAN

VARIABLES
    versions,       \* rows of the versions table
    head,           \* the collection's headVersionId
    session,        \* rows of push_sessions, their runs, and what was uploaded
    jobs,           \* sessions with a push.commit message in the queue
    runner          \* what each request or consumer is in the middle of

vars == <<versions, head, session, jobs, runner>>

Statuses == {"none", "counted", "open", "committing", "committed", "failed", "expired"}

\* 422 "Missing files"; 503; 500; every other refusal (409, 422).
Errors == {"none", "missing", "busy", "server", "refused"}

SessionRow ==
    [status : Statuses, base : VersionIds \cup {None}, error : Errors,
     stalls : Nat, claimed : SUBSET Batches, runs : SUBSET Batches,
     held : BOOLEAN,                       \* its files are in the store
     rebased : BOOLEAN, reopened : BOOLEAN]     \* what has happened to it

Pcs == {"idle", "request", "enqueue", "load", "begin", "list", "build",
        "publish", "published", "moved", "settle"}

RunnerState ==
    [pc : Pcs, of : Sessions \cup {None}, from : {"none", "open", "failed"},
     base : VersionIds \cup {None}, rebase : BOOLEAN, list : SUBSET Batches,
     made : VersionIds \cup {None}, outcome : Errors]

\* `content` is every upload the version holds, its base's included.
VersionRow ==
    [id : VersionIds, base : VersionIds \cup {None}, seq : Nat,
     by : Sessions \cup {None}, content : SUBSET Batches]

NoSession ==
    [status |-> "none", base |-> None, error |-> "none", stalls |-> 0,
     claimed |-> {}, runs |-> {}, held |-> FALSE, rebased |-> FALSE, reopened |-> FALSE]

Idle ==
    [pc |-> "idle", of |-> None, from |-> "none", base |-> None, rebase |-> FALSE,
     list |-> {}, made |-> None, outcome |-> "none"]

Init ==
    /\ versions = {}
    /\ head = None
    /\ session = [i \in Sessions |-> NoSession]
    /\ jobs = {}
    /\ runner = [r \in Runners |-> Idle]

-----------------------------------------------------------------------------
Row(id) == CHOOSE v \in versions : v.id = id

Content(id) == IF id = None THEN {} ELSE Row(id).content

NextSeq(id) == IF id = None THEN 1 ELSE Row(id).seq + 1

FreshIds == VersionIds \ {v.id : v \in versions}

\* crypto.randomUUID: which of the unused ids makes no difference.
NewIds == IF FreshIds = {} THEN {} ELSE {CHOOSE id \in FreshIds : TRUE}

\* Slip: any version made from the session's base passes for its own.
OwnByBase(i) == {v \in versions : v.base = session[i].base}

\* outcome.ts ownVersion.
Own(i) == {v \in versions : v.by = i}

InProgress == {i \in Sessions : session[i].status \in {"open", "committing"}}

\* 500 and 503: the same uploads may be committed again.
Retryable(i) == session[i].status = "failed" /\ session[i].error \in {"server", "busy"}

-----------------------------------------------------------------------------
(* The client's calls.                                                     *)

\* The head is read, the sessions in progress are counted ...
CountOpen(i) ==
    /\ session[i].status = "none"
    /\ Cardinality(InProgress) < OpenSessions
    /\ session' = [session EXCEPT ![i].status = "counted", ![i].base = head]
    /\ UNCHANGED <<versions, head, jobs, runner>>

\* ... and the row is inserted, whatever has been opened since.
InsertSession(i) ==
    /\ session[i].status = "counted"
    /\ \E held \in BOOLEAN :
          session' = [session EXCEPT ![i].status = "open", ![i].held = held]
    /\ UNCHANGED <<versions, head, jobs, runner>>

\* A client that commits has had the answer to every upload it sent.
Committing(i) ==
    \E r \in Runners : runner[r].of = i /\ runner[r].pc \in {"request", "enqueue"}

\* Slip: the claim of a run number leaves the status out of its condition.
ClaimRunAnytime(i, b) ==
    /\ session[i].status # "none"
    /\ ~Committing(i)
    /\ b \notin session[i].claimed \cup session[i].runs
    /\ session' = [session EXCEPT ![i].claimed = session[i].claimed \cup {b}]
    /\ UNCHANGED <<versions, head, jobs, runner>>

\* nextRunSeq: an upload claims its run number while the session is open ...
ClaimRun(i, b) ==
    /\ session[i].status = "open"
    /\ ~Committing(i)
    /\ b \notin session[i].claimed \cup session[i].runs
    /\ session' = [session EXCEPT ![i].claimed = session[i].claimed \cup {b}]
    /\ UNCHANGED <<versions, head, jobs, runner>>

\* ... and recordRun lists it once its object is written, and answers.
RecordRun(i, b) ==
    /\ b \in session[i].claimed
    /\ session' = [session EXCEPT ![i].claimed = session[i].claimed \ {b},
                                  ![i].runs = session[i].runs \cup {b}]
    /\ UNCHANGED <<versions, head, jobs, runner>>

UploadFiles(i) ==
    /\ session[i].status \in {"open", "committing"}
    /\ ~session[i].held
    /\ session' = [session EXCEPT ![i].held = TRUE]
    /\ UNCHANGED <<versions, head, jobs, runner>>

\* Abandoned by its client, or idle past its time.
Expire(i) ==
    /\ session[i].status = "open"
    /\ session' = [session EXCEPT ![i].status = "expired"]
    /\ UNCHANGED <<versions, head, jobs, runner>>

\* A commit request reads the session (and for a rebase the head) ...
CommitRequest(r, i, rebase) ==
    /\ runner[r].pc = "idle"
    /\ session[i].status \in {"open", "failed"}
    /\ session[i].claimed = {}
    /\ rebase => Rebases
    /\ runner' = [runner EXCEPT ![r] = [Idle EXCEPT
                    !.pc = "request", !.of = i, !.rebase = rebase, !.base = head,
                    !.from = IF Retryable(i) THEN "failed" ELSE "open"]]
    /\ UNCHANGED <<versions, head, session, jobs>>

\* Slip: the head's seq where its id belongs.
BaseSeq(r) ==
    IF runner[r].rebase THEN NextSeq(runner[r].base) - 1 ELSE session[runner[r].of].base

\* The base stays the one the session opened on, unless it asked to rebase.
BaseOf(r) == IF runner[r].rebase THEN runner[r].base ELSE session[runner[r].of].base

\* ... and moves it to committing, if it still is where it was; then commits it
\* inside the request, or queues a job.
StartCommit(r, i) ==
    /\ runner[r].pc = "request" /\ runner[r].of = i
    /\ session[i].status = runner[r].from
    /\ session' = [session EXCEPT ![i].status = "committing", ![i].error = "none",
                     ![i].base = BaseOf(r),
                     ![i].rebased = session[i].rebased \/ runner[r].rebase,
                     ![i].stalls = IF runner[r].from = "failed" THEN 0 ELSE session[i].stalls]
    /\ \E pc \in {"load", "enqueue"} :
          runner' = [runner EXCEPT ![r] = [Idle EXCEPT !.pc = pc, !.of = i]]
    /\ UNCHANGED <<versions, head, jobs>>

StartRefused(r, i) ==
    /\ runner[r].pc = "request" /\ runner[r].of = i
    /\ session[i].status # runner[r].from
    /\ runner' = [runner EXCEPT ![r] = Idle]
    /\ UNCHANGED <<versions, head, session, jobs>>

Enqueue(r, i) ==
    /\ runner[r].pc = "enqueue" /\ runner[r].of = i
    /\ jobs' = jobs \cup {i}
    /\ runner' = [runner EXCEPT ![r] = Idle]
    /\ UNCHANGED <<versions, head, session>>

-----------------------------------------------------------------------------
(* finalizeSession, in a request or for a delivered push.commit message.   *)

\* The message stays in the queue until a consumer is done with it, and may be
\* delivered again meanwhile.
Deliver(r, i) ==
    /\ runner[r].pc = "idle"
    /\ i \in jobs
    /\ runner' = [runner EXCEPT ![r] = [Idle EXCEPT !.pc = "load", !.of = i]]
    /\ UNCHANGED <<versions, head, session, jobs>>

\* Done: the message, if there was one, is deleted, or comes once more.
Done(r, i) ==
    /\ runner' = [runner EXCEPT ![r] = Idle]
    /\ jobs' \in {jobs, jobs \ {i}}

\* Only a committing session commits; the row read here is used to the end.
Load(r, i) ==
    /\ runner[r].pc = "load" /\ runner[r].of = i
    /\ \/ /\ session[i].status = "committing"
          /\ runner' = [runner EXCEPT ![r].pc = "begin", ![r].base = session[i].base]
          /\ UNCHANGED jobs
       \/ /\ session[i].status # "committing"
          /\ Done(r, i)
    /\ UNCHANGED <<versions, head, session>>

CheckHead(r) ==
    /\ runner[r].pc = "begin"
    /\ runner' = [runner EXCEPT ![r].pc = IF head = runner[r].base THEN "list" ELSE "moved"]
    /\ UNCHANGED <<versions, head, session, jobs>>

ListRuns(r, i) ==
    /\ runner[r].pc = "list" /\ runner[r].of = i
    /\ runner' = [runner EXCEPT ![r].pc = "build", ![r].list = session[i].runs]
    /\ UNCHANGED <<versions, head, session, jobs>>

\* The commit's own refusals, in the order buildVersion meets them.
Verdict(r, i) ==
    IF ~session[i].held THEN "missing"
    ELSE IF i \in Refused \/ runner[r].list \subseteq Content(runner[r].base)
         THEN "refused" ELSE "none"

\* buildVersion: with no refusal the version is ready to publish.
Build(r, i) ==
    /\ runner[r].pc = "build" /\ runner[r].of = i
    /\ runner' = [runner EXCEPT
                    ![r].pc = IF Verdict(r, i) = "none" THEN "publish" ELSE "settle",
                    ![r].outcome = Verdict(r, i)]
    /\ UNCHANGED <<versions, head, session, jobs>>

NewVersion(r, i, id) ==
    [id |-> id, base |-> runner[r].base, seq |-> NextSeq(runner[r].base), by |-> i,
     content |-> Content(runner[r].base) \cup runner[r].list]

\* Slip: the batch doesn't compare the head with the base.
PublishUnchecked(r, i, id) ==
    /\ runner[r].pc = "publish" /\ runner[r].of = i
    /\ versions' = versions \cup {NewVersion(r, i, id)}
    /\ head' = id
    /\ runner' = [runner EXCEPT ![r].pc = "published", ![r].made = id]
    /\ UNCHANGED <<session, jobs>>

\* publishVersion's batch: the row and the head, if the head is the base.
Publish(r, i, id) ==
    /\ runner[r].pc = "publish" /\ runner[r].of = i
    /\ head = runner[r].base
    /\ versions' = versions \cup {NewVersion(r, i, id)}
    /\ head' = id
    /\ runner' = [runner EXCEPT ![r].pc = "published", ![r].made = id]
    /\ UNCHANGED <<session, jobs>>

PublishLost(r) ==
    /\ runner[r].pc = "publish"
    /\ head # runner[r].base
    /\ runner' = [runner EXCEPT ![r].pc = "moved"]
    /\ UNCHANGED <<versions, head, session, jobs>>

\* The head is read back: a version published and overtaken looks lost.
ReadBack(r) ==
    /\ runner[r].pc = "published"
    /\ runner' = [runner EXCEPT ![r].pc = IF head = runner[r].made THEN "settle" ELSE "moved"]
    /\ UNCHANGED <<versions, head, session, jobs>>

\* The storage fence moved: `fenced` runs the commit again from its first read,
\* or gives up (503).  A published version read back as lost can land here too.
Fenced(r) ==
    /\ runner[r].pc \in {"begin", "publish", "published"}
    /\ runner[r].pc = "published" => head # runner[r].made
    /\ \E busy \in BOOLEAN :
          runner' = [runner EXCEPT ![r] = [runner[r] EXCEPT
                       !.pc = IF busy THEN "settle" ELSE "begin", !.list = {}, !.made = None,
                       !.outcome = IF busy THEN "busy" ELSE "none"]]
    /\ UNCHANGED <<versions, head, session, jobs>>

\* The head moved: if the session has a version, that is its outcome.
FindOwn(r, i) ==
    /\ runner[r].pc = "moved" /\ runner[r].of = i
    /\ runner' = [runner EXCEPT ![r].pc = "settle",
                                ![r].outcome = IF Own(i) # {} THEN "none" ELSE "refused"]
    /\ UNCHANGED <<versions, head, session, jobs>>

Settled(i, outcome) ==
    CASE outcome = "none" -> [session[i] EXCEPT !.status = "committed"]
      [] outcome = "missing" -> [session[i] EXCEPT !.status = "open", !.error = "missing",
                                                   !.stalls = 0, !.reopened = TRUE]
      [] OTHER -> [session[i] EXCEPT !.status = "failed", !.error = outcome]

\* Slip: the outcome is written whatever the session's status.
SettleAlways(r, i) ==
    /\ runner[r].pc = "settle" /\ runner[r].of = i
    /\ session' = [session EXCEPT ![i] = Settled(i, runner[r].outcome)]
    /\ Done(r, i)
    /\ UNCHANGED <<versions, head>>

\* settleSession: only a committing session moves.
Settle(r, i) ==
    /\ runner[r].pc = "settle" /\ runner[r].of = i
    /\ session' = IF session[i].status = "committing"
                  THEN [session EXCEPT ![i] = Settled(i, runner[r].outcome)] ELSE session
    /\ Done(r, i)
    /\ UNCHANGED <<versions, head>>

\* A runner dies at any await; a message it had is delivered again.
Die(r) ==
    /\ runner[r].pc # "idle"
    /\ runner' = [runner EXCEPT ![r] = Idle]
    /\ UNCHANGED <<versions, head, session, jobs>>

-----------------------------------------------------------------------------
\* The queue drops a message past its retries.
JobLost(i) ==
    /\ i \in jobs
    /\ jobs' = jobs \ {i}
    /\ UNCHANGED <<versions, head, session, runner>>

\* Slip: a nudge isn't counted.
NudgeUncounted(i) ==
    /\ session[i].status = "committing" /\ session[i].stalls < MaxStalls
    /\ jobs' = jobs \cup {i}
    /\ UNCHANGED <<versions, head, session, runner>>

\* recoverCommits: a commit that hasn't moved is queued again ...
Nudge(i) ==
    /\ session[i].status = "committing" /\ session[i].stalls < MaxStalls
    /\ session' = [session EXCEPT ![i].stalls = session[i].stalls + 1]
    /\ jobs' = jobs \cup {i}
    /\ UNCHANGED <<versions, head, runner>>

\* ... and after so many nudges it fails.
FailStalled(i) ==
    /\ session[i].status = "committing" /\ session[i].stalls >= MaxStalls
    /\ session' = [session EXCEPT ![i].status = "failed", ![i].error = "server"]
    /\ UNCHANGED <<versions, head, jobs, runner>>

Recover(i) == Nudge(i) \/ FailStalled(i)

\* Another writer of the collection (a manage route, a fork, a restore).
RivalPublishes(id) ==
    /\ versions' = versions \cup {[id |-> id, base |-> head, seq |-> NextSeq(head),
                                   by |-> None, content |-> Content(head)]}
    /\ head' = id
    /\ UNCHANGED <<session, jobs, runner>>

Next ==
    \/ \E i \in Sessions :
          \/ CountOpen(i) \/ InsertSession(i) \/ UploadFiles(i) \/ Expire(i)
          \/ \E b \in Batches : ClaimRun(i, b) \/ RecordRun(i, b)
          \/ JobLost(i) \/ Recover(i)
    \/ \E r \in Runners, i \in Sessions :
          \/ \E rebase \in BOOLEAN : CommitRequest(r, i, rebase)
          \/ StartCommit(r, i) \/ StartRefused(r, i) \/ Enqueue(r, i)
          \/ Deliver(r, i) \/ Load(r, i) \/ ListRuns(r, i) \/ Build(r, i)
          \/ \E id \in NewIds : Publish(r, i, id)
          \/ FindOwn(r, i) \/ Settle(r, i)
    \/ \E r \in Runners : CheckHead(r) \/ PublishLost(r) \/ ReadBack(r) \/ Fenced(r) \/ Die(r)
    \/ \E id \in NewIds : RivalPublishes(id)

Spec == Init /\ [][Next]_vars

\* The cron sweep comes back to every stalled commit; nothing is assumed of the
\* runners, the clients or the queue.
FairSpec == Spec /\ \A i \in Sessions : WF_vars(Recover(i))

-----------------------------------------------------------------------------
(* Properties.                                                             *)

Published(i) == {v \in versions : v.by = i}

TypeOK ==
    /\ versions \subseteq VersionRow
    /\ head \in VersionIds \cup {None}
    /\ session \in [Sessions -> SessionRow]
    /\ jobs \subseteq Sessions
    /\ runner \in [Runners -> RunnerState]

\* The history never forks: each version was made from the one before it, and
\* the head is the last (publish.ts 1-13).
LinearHistory ==
    /\ head = None <=> versions = {}
    /\ \A u, v \in versions : u.id = v.id \/ u.base = v.base => u = v
    /\ \A v \in versions :
          /\ v.base # None => \E u \in versions : u.id = v.base /\ v.seq = u.seq + 1
          /\ v.base = None => v.seq = 1
    /\ versions # {} => \E v \in versions : v.id = head /\ \A u \in versions : u.seq <= v.seq

\* However often its commit runs, a session is in the history once, as long as
\* its base stays (finalize.ts 8-9, outcome.ts 91-95).
CommitsOnce ==
    \A i \in Sessions : ~session[i].rebased => \A u, v \in Published(i) : u = v

\* A client told that its push is committed can read it (push.ts 165).
CommittedIsPublished ==
    \A i \in Sessions : session[i].status = "committed" => Published(i) # {}

\* What each version of a session holds is all that was uploaded to it, unless
\* it was ever reopened for missing files (protocol-v2.md 865-867).
CommittedHasUploads ==
    \A i \in Sessions :
        session[i].status = "committed" /\ ~session[i].reopened =>
            \A v \in Published(i) : session[i].runs \subseteq v.content

\* Reopened or not (outcome.ts 159-161: the next commit plans again, over any
\* records uploaded meanwhile).
ReopenedHasUploads ==
    \A i \in Sessions :
        session[i].status = "committed" =>
            \E v \in Published(i) : session[i].runs \subseteq v.content

\* A settled session stays settled, whichever of its runs ends last.
CommittedStays ==
    [][\A i \in Sessions :
          session[i].status \in {"committed", "expired"} =>
              session'[i].status = session[i].status]_vars

\* Whatever is lost, a commit in progress ends: it never holds one of the
\* user's session slots for ever (recover.ts 7-8).
CommitsEnd ==
    \A i \in Sessions :
        session[i].status = "committing" ~> session[i].status # "committing"
=============================================================================
