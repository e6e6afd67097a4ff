---------------------------- MODULE CompactedCommit ----------------------------
(***************************************************************************)
(* A parallel commit that begins with compaction: ParallelCommit composed  *)
(* with the end of RunCompaction.  The session's runs are few enough now;  *)
(* each of the last two compactions to finish has queued a push.commit     *)
(* (server/src/push/compact.ts finishCompaction), and compactForCommit     *)
(* takes the session out of phase 'compacting' before it plans.            *)
(***************************************************************************)
EXTENDS ParallelCommit

\* The two messages differ in nothing but that there are two.
CommitAgain == <<"push.commit", "again">>

InitCompacted ==
    /\ session = [Committing EXCEPT !.phase = "compacting"]
    /\ unit = [u \in {} |-> 0]
    /\ written = [p \in Plans |-> {}]
    /\ trees = [p \in Plans |-> [e \in Ends |-> {}]]
    /\ versions = {}
    /\ jobs = {CommitJob, CommitAgain}
    /\ runner = [r \in Runners |-> Idle]

\* finalizeSession reads the session: committing, without a plan, and compacting.
StartCompacted(r) ==
    /\ runner[r].pc = "idle"
    /\ session.status = "committing" /\ session.phase = "compacting"
    /\ \E m \in jobs \cap {CommitJob, CommitAgain} : jobs' = jobs \ {m}
    /\ runner' = [runner EXCEPT ![r] = [Idle EXCEPT !.pc = "phase", !.job = CommitJob]]
    /\ UNCHANGED <<session, unit, written, trees, versions>>

\* compactForCommit: few enough runs, and the phase it read was not null, so it is
\* cleared, whatever it is by now.
ClearPhase(r) ==
    /\ runner[r].pc = "phase"
    /\ session' = [session EXCEPT !.phase = "none", !.stalls = 0]
    /\ Goto(r, "plan")
    /\ UNCHANGED <<unit, written, trees, versions, jobs>>

NextCompacted ==
    \/ \E r \in Runners : StartCompacted(r) \/ ClearPhase(r)
    \/ session.phase # "compacting" /\ Next

SpecCompacted == InitCompacted /\ [][NextCompacted]_vars
================================================================================
