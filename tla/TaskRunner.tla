----------------------------- MODULE TaskRunner -----------------------------
(***************************************************************************)
(* The life of a task run and of the session it owns: process_once and its *)
(* worker (agent/tasks/runner.py), the deletion paths of                   *)
(* agent/tasks/store.py, session_purge.py, and the handlers of main.py     *)
(* that continue a run or delete a task.                                   *)
(*                                                                         *)
(* The process is one asyncio thread: an action is what a coroutine does   *)
(* from one await to the next, so coroutines interleave only at awaits.  A *)
(* crash may also fall between two commits of one such stretch, where the  *)
(* two commits disagree (SetupCrash, PurgeCrash).                          *)
(*                                                                         *)
(* A session is named after the run that created it; 0 is the empty        *)
(* session_id.                                                             *)
(***************************************************************************)
EXTENDS Integers, FiniteSets

CONSTANTS
    Tasks,          \* ids of scheduled_tasks rows
    Slots,          \* MAX_CONCURRENT worker slots, numbered; the lowest free one is used
    Requests,       \* POST .../continue requests, each sent at most once
    Deletes,        \* DELETE /agent/tasks/{id} requests, each sent at most once
    Keep,           \* KEEP_RUNS
    MaxRuns,        \* bound on task_runs rows
    MaxFaults       \* bound on crashes and failed session deletions, together

RunIds == 1..MaxRuns
Reclaim == "reclaim"                    \* the start-up reclaim coroutine
Purgers == Deletes \cup {Reclaim}

ASSUME ConstantsAssumption ==
    /\ MaxRuns \in Nat /\ Keep \in Nat /\ MaxFaults \in Nat
    /\ Reclaim \notin Deletes
    /\ "none" \notin Tasks /\ Slots \subseteq Nat

VARIABLES
    up,         \* the agent process is running
    tasks,      \* scheduled_tasks rows
    runs,       \* [RunIds -> Row]: task_runs rows, by rowid
    rowid,      \* rows inserted so far
    sessions,   \* sessions rows that a task run created
    job,        \* [Slots -> Job]: process_once in each worker slot
    agent,      \* [RunIds -> AgentStates]: the detached agent tasks
    req,        \* [Requests -> Request]: continue handlers
    purge,      \* [Purgers -> Purge]: purge_runs / reclaim_orphaned_runs
    faults,     \* crashes and failed deletions so far
    dropped,    \* ghost: runs whose row was deleted while queued or running
    cut         \* ghost: sessions given up by a crash or a failed deletion

vars == <<up, tasks, runs, rowid, sessions, job, agent, req, purge, faults,
          dropped, cut>>

Statuses    == {"none", "queued", "running", "ended", "gone"}
AgentStates == {"none", "running", "doomed", "done"}
Sids        == 0..MaxRuns

\* "ended" stands for succeeded, failed and timeout, the statuses a run may be
\* continued from (resume.CONTINUABLE_STATUSES).  `late` is a ghost: the row
\* was committed by a continue request whose checks no longer held.
Row     == [status : Statuses, task : Tasks \cup {"none"}, sid : Sids,
            resumed : BOOLEAN, late : BOOLEAN]
Job     == [pc : {"idle", "creds", "grant", "drive", "cancel", "notify", "prune"},
            run : Sids, sid : Sids, drop : SUBSET RunIds]
Request == [pc : {"unsent", "body", "done"}, parent : Sids, sid : Sids]
Purge   == [pc : {"off", "loop", "session"}, bounded : BOOLEAN,
            task : Tasks \cup {"none"}, run : Sids, sid : Sids]

NoRow     == [status |-> "none", task |-> "none", sid |-> 0, resumed |-> FALSE,
              late |-> FALSE]
NoJob     == [pc |-> "idle", run |-> 0, sid |-> 0, drop |-> {}]
NoRequest == [pc |-> "unsent", parent |-> 0, sid |-> 0]
NoPurge   == [pc |-> "off", bounded |-> FALSE, task |-> "none", run |-> 0, sid |-> 0]

Active == {"queued", "running"}

Exists(r) == runs[r].status \notin {"none", "gone"}
RowsOf(t) == {r \in RunIds : Exists(r) /\ runs[r].task = t}
Orphans   == {r \in RunIds : Exists(r) /\ runs[r].task \notin tasks}

ReferencedSelfToo(s, r) == \E q \in RunIds : Exists(q) /\ runs[q].sid = s

\* store._session_still_referenced: another row points at the session.
Referenced(s, r) == \E q \in RunIds : q # r /\ Exists(q) /\ runs[q].sid = s

\* Sessions some coroutine has decided to delete and has not deleted yet.
PendingDrops == {x \in RunIds : \E s \in Slots : x \in job[s].drop}
Doomed == PendingDrops \cup
          {x \in RunIds : \E p \in Purgers : purge[p].pc = "session" /\ purge[p].sid = x}

\* store.finish_run: an UPDATE by run id.
EndRow(r) == IF Exists(r) THEN [runs EXCEPT ![r].status = "ended"] ELSE runs

(***************************************************************************)
(* Queueing a run.                                                         *)
(***************************************************************************)
\* store.create_run, for the scheduler, `run now` and the webhook alike.
Enqueue(t) ==
    /\ up /\ t \in tasks /\ rowid < MaxRuns
    /\ rowid' = rowid + 1
    /\ runs' = [runs EXCEPT ![rowid + 1] =
                  [status |-> "queued", task |-> t, sid |-> 0, resumed |-> FALSE,
                   late |-> FALSE]]
    /\ UNCHANGED <<up, tasks, sessions, job, agent, req, purge, faults, dropped, cut>>

\* main.tasks_continue_run up to `await request.body()`: the checks.
ContinueBegin(q, r) ==
    /\ up /\ req[q].pc = "unsent"
    /\ runs[r].status = "ended" /\ runs[r].task \in tasks
    /\ runs[r].sid \in sessions
    /\ \A o \in RunIds : runs[o].sid = runs[r].sid => runs[o].status \notin Active
    /\ req' = [req EXCEPT ![q] = [pc |-> "body", parent |-> r, sid |-> runs[r].sid]]
    /\ UNCHANGED <<up, tasks, runs, rowid, sessions, job, agent, purge, faults,
                   dropped, cut>>

\* The body arrived: store.create_continue_run, without checking again.
ContinueCommit(q) ==
    /\ up /\ req[q].pc = "body" /\ rowid < MaxRuns
    /\ LET s == req[q].sid
           t == runs[req[q].parent].task
       IN runs' = [runs EXCEPT ![rowid + 1] =
                     [status |-> "queued", task |-> t, sid |-> s, resumed |-> TRUE,
                      late |-> \/ t \notin tasks \/ s \notin sessions \/ s \in Doomed]]
    /\ rowid' = rowid + 1
    /\ req' = [req EXCEPT ![q].pc = "done"]
    /\ UNCHANGED <<up, tasks, sessions, job, agent, purge, faults, dropped, cut>>

(***************************************************************************)
(* runner.process_once, one action per stretch between awaits.             *)
(***************************************************************************)
Queued == {r \in RunIds : runs[r].status = "queued"}

\* store.claim_run, get_task and the model lookup, up to `await creds_resolver`.
\* A missing task or model ends the run at once.
Claim(s) ==
    /\ up /\ job[s].pc = "idle" /\ \A u \in Slots : u < s => job[u].pc # "idle"
    /\ \E r \in Queued :
         /\ \A q \in Queued : r <= q
         /\ \/ /\ runs[r].task \in tasks
               /\ runs' = [runs EXCEPT ![r].status = "running"]
               /\ job' = [job EXCEPT ![s] = [pc |-> "creds", run |-> r,
                                             sid |-> runs[r].sid, drop |-> {}]]
            \/ /\ runs' = EndRow(r)
               /\ job' = [job EXCEPT ![s] = [pc |-> "notify", run |-> r, sid |-> 0,
                                             drop |-> {}]]
    /\ UNCHANGED <<up, tasks, rowid, sessions, agent, req, purge, faults, dropped, cut>>

\* Credentials did not resolve, a continuation's session is gone, or anything
\* raised before start_run: finish_run(failed).
FailEarly(s) ==
    /\ up /\ job[s].pc \in {"creds", "grant"}
    /\ runs' = EndRow(job[s].run)
    /\ job' = [job EXCEPT ![s].pc = "notify"]
    /\ UNCHANGED <<up, tasks, rowid, sessions, agent, req, purge, faults, dropped, cut>>

\* Credentials resolved, a continuation: its session must still be there.
SetupResume(s) ==
    /\ up /\ job[s].pc = "creds" /\ runs[job[s].run].resumed
    /\ job[s].sid \in sessions
    /\ job' = [job EXCEPT ![s].pc = "grant"]
    /\ UNCHANGED <<up, tasks, runs, rowid, sessions, agent, req, purge, faults,
                   dropped, cut>>

\* attach_session is an UPDATE by run id: without the row it changes nothing.
Attach(r) == IF Exists(r) THEN [runs EXCEPT ![r].sid = r] ELSE runs

\* Credentials resolved, a fresh run: session_factory, then attach_session.
SetupFresh(s) ==
    /\ up /\ job[s].pc = "creds" /\ ~runs[job[s].run].resumed
    /\ sessions' = sessions \cup {job[s].run}
    /\ runs' = Attach(job[s].run)
    /\ job' = [job EXCEPT ![s] = [@ EXCEPT !.pc = "grant", !.sid = job[s].run]]
    /\ UNCHANGED <<up, tasks, rowid, agent, req, purge, faults, dropped, cut>>

\* Grants and the start notification are done: start_run, then drive.
StartRun(s) ==
    /\ up /\ job[s].pc = "grant"
    /\ agent' = [agent EXCEPT ![job[s].run] = "running"]
    /\ job' = [job EXCEPT ![s].pc = "drive"]
    /\ UNCHANGED <<up, tasks, runs, rowid, sessions, req, purge, faults, dropped, cut>>

\* driver.drive returned because the run emitted `done`: finish_run.
DriveDone(s) ==
    /\ up /\ job[s].pc = "drive" /\ agent[job[s].run] = "done"
    /\ runs' = EndRow(job[s].run)
    /\ agent' = [agent EXCEPT ![job[s].run] = "none"]
    /\ job' = [job EXCEPT ![s].pc = "notify"]
    /\ UNCHANGED <<up, tasks, rowid, sessions, req, purge, faults, dropped, cut>>

\* The run's wall clock ran out, or drive raised: cancel_sink asks the agent
\* task to stop and waits.
DriveGivesUp(s) ==
    /\ up /\ job[s].pc = "drive"
    /\ agent' = [agent EXCEPT ![job[s].run] =
                                IF @ = "running" THEN "doomed" ELSE "none"]
    /\ job' = [job EXCEPT ![s].pc = "cancel"]
    /\ UNCHANGED <<up, tasks, runs, rowid, sessions, req, purge, faults, dropped, cut>>

CancelUnbounded(s) ==
    /\ up /\ job[s].pc = "cancel" /\ agent[job[s].run] = "none"
    /\ runs' = EndRow(job[s].run)
    /\ job' = [job EXCEPT ![s].pc = "notify"]
    /\ UNCHANGED <<up, tasks, rowid, sessions, agent, req, purge, faults, dropped, cut>>

\* The agent task unwound, or CANCEL_GRACE_SECONDS passed and it did not; the
\* run is recorded either way.
CancelReturns(s) ==
    /\ up /\ job[s].pc = "cancel"
    /\ runs' = EndRow(job[s].run)
    /\ job' = [job EXCEPT ![s].pc = "notify"]
    /\ UNCHANGED <<up, tasks, rowid, sessions, agent, req, purge, faults, dropped, cut>>

\* store.prune_runs: the rows of a task beyond its newest Keep, whatever their
\* status, and those of their sessions that no surviving row points at.
PruneRows(t) == {r \in RowsOf(t) : Cardinality({q \in RowsOf(t) : q > r}) >= Keep}

PruneSessionsUnguarded(t) == {runs[r].sid : r \in PruneRows(t)} \ {0}

PruneSessions(t) ==
    {s \in {runs[r].sid : r \in PruneRows(t)} \ {0} :
        \A q \in RunIds \ PruneRows(t) : Exists(q) => runs[q].sid # s}

DropRows(D) == [r \in RunIds |-> IF r \in D THEN [runs[r] EXCEPT !.status = "gone"]
                                 ELSE runs[r]]

\* The finally block after `await notify`: evict the sink, prune, and go on to
\* delete the pruned sessions.
Prune(s) ==
    /\ up /\ job[s].pc = "notify"
    /\ LET t == runs[job[s].run].task
           D == PruneRows(t)
       IN /\ runs' = DropRows(D)
          /\ dropped' = dropped \cup {r \in D : runs[r].status \in Active}
          /\ job' = [job EXCEPT ![s] =
                       IF PruneSessions(t) = {} THEN NoJob
                       ELSE [@ EXCEPT !.pc = "prune", !.drop = PruneSessions(t)]]
    /\ UNCHANGED <<up, tasks, rowid, sessions, agent, req, purge, faults, cut>>

DropJob(s, x) == IF job[s].drop = {x} THEN NoJob
                 ELSE [job[s] EXCEPT !.drop = @ \ {x}]

\* One pruned session: purge_session's commit, after the vector cleanup.
PruneSession(s, x) ==
    /\ up /\ job[s].pc = "prune" /\ x \in job[s].drop
    /\ sessions' = sessions \ {x}
    /\ job' = [job EXCEPT ![s] = DropJob(s, x)]
    /\ UNCHANGED <<up, tasks, runs, rowid, agent, req, purge, faults, dropped, cut>>

\* Its deletion raised: logged, and nothing points at it any more.
PruneSessionRaises(s, x) ==
    /\ up /\ job[s].pc = "prune" /\ x \in job[s].drop /\ faults < MaxFaults
    /\ cut' = cut \cup {x} /\ faults' = faults + 1
    /\ job' = [job EXCEPT ![s] = DropJob(s, x)]
    /\ UNCHANGED <<up, tasks, runs, rowid, sessions, agent, req, purge, dropped>>

(***************************************************************************)
(* The detached agent task behind a sink.                                  *)
(***************************************************************************)
\* It ends by itself, or refuses to start because the session is busy.
AgentEnds(r) ==
    /\ up /\ agent[r] = "running"
    /\ agent' = [agent EXCEPT ![r] = "done"]
    /\ UNCHANGED <<up, tasks, runs, rowid, sessions, job, req, purge, faults, dropped, cut>>

\* It unwinds after a cancel; nothing makes it do so in time, or ever.
AgentUnwinds(r) ==
    /\ up /\ agent[r] = "doomed"
    /\ agent' = [agent EXCEPT ![r] = "none"]
    /\ UNCHANGED <<up, tasks, runs, rowid, sessions, job, req, purge, faults, dropped, cut>>

(***************************************************************************)
(* Deleting a task: store.delete_task, its background continuation, and    *)
(* reclaim_orphaned_runs at start-up.                                      *)
(***************************************************************************)
DeleteTask(p, t) ==
    /\ up /\ p \in Deletes /\ purge[p] = NoPurge /\ t \in tasks
    /\ purge' = [purge EXCEPT ![p] = [pc |-> "loop", bounded |-> TRUE, task |-> t,
                                      run |-> 0, sid |-> 0]]
    /\ UNCHANGED <<up, tasks, runs, rowid, sessions, job, agent, req, faults, dropped, cut>>

\* The rows a purger still has to clear, and the one it takes.
Remaining(p) == IF p = Reclaim THEN Orphans ELSE RowsOf(purge[p].task)
Oldest(p, r) == r \in Remaining(p) /\ \A q \in Remaining(p) : r <= q

Progress(p, c, r, x) == [pc |-> c, bounded |-> purge[p].bounded, task |-> purge[p].task,
                         run |-> r, sid |-> x]

\* A request that ended never starts again (it was sent once).
Finished(p) == Progress(p, "off", 0, 0)

\* purge_runs found no row: the task row goes in the same stretch.
PurgeDone(p) ==
    /\ up /\ purge[p].pc = "loop" /\ Remaining(p) = {}
    /\ purge' = [purge EXCEPT ![p] = Finished(p)]
    /\ tasks' = tasks \ {purge[p].task}
    /\ UNCHANGED <<up, runs, rowid, sessions, job, agent, req, faults, dropped, cut>>

DropRow(r) ==
    /\ runs' = DropRows({r})
    /\ dropped' = IF runs[r].status \in Active THEN dropped \cup {r} ELSE dropped

\* A row without a session of its own to delete goes at once.
PurgeRow(p, r) ==
    /\ up /\ purge[p].pc = "loop" /\ Oldest(p, r)
    /\ runs[r].sid = 0 \/ Referenced(runs[r].sid, r)
    /\ DropRow(r)
    /\ UNCHANGED <<up, tasks, rowid, sessions, job, agent, req, purge, faults, cut>>

\* The last row of a session: `await session_deleter` before the row goes.
PurgeAwait(p, r) ==
    /\ up /\ purge[p].pc = "loop" /\ Oldest(p, r)
    /\ runs[r].sid # 0 /\ ~Referenced(runs[r].sid, r)
    /\ purge' = [purge EXCEPT ![p] = Progress(p, "session", r, runs[r].sid)]
    /\ UNCHANGED <<up, tasks, runs, rowid, sessions, job, agent, req, faults, dropped, cut>>

PurgeSession(p) ==
    /\ up /\ purge[p].pc = "session"
    /\ sessions' = sessions \ {purge[p].sid}
    /\ DropRow(purge[p].run)
    /\ purge' = [purge EXCEPT ![p] = Progress(p, "loop", 0, 0)]
    /\ UNCHANGED <<up, tasks, rowid, job, agent, req, faults, cut>>

\* The session's deletion raised: logged, and the row goes anyway.
PurgeSessionRaises(p) ==
    /\ up /\ purge[p].pc = "session" /\ faults < MaxFaults
    /\ DropRow(purge[p].run)
    /\ cut' = cut \cup {purge[p].sid} /\ faults' = faults + 1
    /\ purge' = [purge EXCEPT ![p] = Progress(p, "loop", 0, 0)]
    /\ UNCHANGED <<up, tasks, rowid, sessions, job, agent, req>>

\* DELETE_BUDGET_SECONDS passed, before a row or inside a session deletion: the
\* task row goes and the purge continues in the background without a deadline.
PurgeDeadline(p) ==
    /\ up /\ purge[p].pc # "off" /\ purge[p].bounded /\ Remaining(p) # {}
    /\ tasks' = tasks \ {purge[p].task}
    /\ purge' = [purge EXCEPT ![p] = [pc |-> "loop", bounded |-> FALSE, task |-> @.task,
                                      run |-> 0, sid |-> 0]]
    /\ UNCHANGED <<up, runs, rowid, sessions, job, agent, req, faults, dropped, cut>>

(***************************************************************************)
(* Crash and restart.                                                      *)
(***************************************************************************)
\* Everything in memory is lost: slots, agent tasks, requests, purges.
LoseMemory ==
    /\ up' = FALSE /\ faults' = faults + 1
    /\ job' = [s \in Slots |-> NoJob]
    /\ agent' = [r \in RunIds |-> "none"]
    /\ req' = [q \in Requests |-> IF req[q].pc = "body" THEN [req[q] EXCEPT !.pc = "done"]
                                  ELSE req[q]]
    /\ purge' = [p \in Purgers |-> IF purge[p].pc = "off" THEN purge[p] ELSE Finished(p)]

Crash ==
    /\ up /\ faults < MaxFaults
    /\ LoseMemory
    /\ cut' = cut \cup PendingDrops
    /\ UNCHANGED <<tasks, runs, rowid, sessions, dropped>>

\* Between session_factory's commit and attach_session's.
SetupCrash(s) ==
    /\ up /\ job[s].pc = "creds" /\ ~runs[job[s].run].resumed /\ faults < MaxFaults
    /\ LoseMemory
    /\ sessions' = sessions \cup {job[s].run}
    /\ cut' = cut \cup PendingDrops \cup {job[s].run}
    /\ UNCHANGED <<tasks, runs, rowid, dropped>>

\* Between purge_session's commit and the deletion of the run row.
PurgeCrash(p) ==
    /\ up /\ purge[p].pc = "session" /\ faults < MaxFaults
    /\ LoseMemory
    /\ sessions' = sessions \ {purge[p].sid}
    /\ cut' = cut \cup PendingDrops
    /\ UNCHANGED <<tasks, runs, rowid, dropped>>

RequeueAgain ==
    runs' = [r \in RunIds |-> IF runs[r].status \in Active
                              THEN [runs[r] EXCEPT !.status = "queued"] ELSE runs[r]]

\* store.requeue_orphaned_runs
RequeueOrphanedRuns ==
    runs' = [r \in RunIds |-> IF runs[r].status \in Active
                              THEN [runs[r] EXCEPT !.status = "ended"] ELSE runs[r]]

\* runner.start_worker: interrupted runs fail, then the reclaim starts.
Restart ==
    /\ ~up /\ up' = TRUE
    /\ RequeueOrphanedRuns
    /\ purge' = [purge EXCEPT ![Reclaim] = [pc |-> "loop", bounded |-> FALSE,
                                            task |-> "none", run |-> 0, sid |-> 0]]
    /\ UNCHANGED <<tasks, rowid, sessions, job, agent, req, faults, dropped, cut>>

Init ==
    /\ up = TRUE /\ tasks = Tasks
    /\ runs = [r \in RunIds |-> NoRow] /\ rowid = 0
    /\ sessions = {}
    /\ job = [s \in Slots |-> NoJob] /\ agent = [r \in RunIds |-> "none"]
    /\ req = [q \in Requests |-> NoRequest]
    /\ purge = [p \in Purgers |-> NoPurge]
    /\ faults = 0 /\ dropped = {} /\ cut = {}

\* What a worker slot does once it has claimed a run.
SlotStep(s) ==
    \/ FailEarly(s) \/ SetupResume(s) \/ SetupFresh(s) \/ StartRun(s)
    \/ DriveDone(s) \/ DriveGivesUp(s) \/ CancelReturns(s) \/ Prune(s)
    \/ \E x \in RunIds : PruneSession(s, x)

PurgeStep(p) ==
    \/ PurgeDone(p) \/ PurgeSession(p)
    \/ \E r \in RunIds : PurgeRow(p, r) \/ PurgeAwait(p, r)

Next ==
    \/ \E t \in Tasks : Enqueue(t)
    \/ \E q \in Requests, r \in RunIds : ContinueBegin(q, r)
    \/ \E q \in Requests : ContinueCommit(q)
    \/ \E s \in Slots : Claim(s) \/ SlotStep(s)
    \/ \E s \in Slots, x \in RunIds : PruneSessionRaises(s, x)
    \/ \E r \in RunIds : AgentEnds(r) \/ AgentUnwinds(r)
    \/ \E p \in Deletes, t \in Tasks : DeleteTask(p, t)
    \/ \E p \in Purgers : PurgeStep(p) \/ PurgeSessionRaises(p) \/ PurgeDeadline(p)
    \/ Crash \/ Restart
    \/ \E s \in Slots : SetupCrash(s)
    \/ \E p \in Purgers : PurgeCrash(p)

Spec == Init /\ [][Next]_vars

\* Every await a slot is parked on ends (each has its own timeout), the worker
\* polls while a slot is free, and the service manager restarts the process.
\* Purges owe nothing, nor does the agent task: not even to unwind when
\* cancelled.
Fairness ==
    /\ \A s \in Slots : WF_vars(SlotStep(s)) /\ WF_vars(Claim(s))
    /\ WF_vars(Restart)

FairSpec == Spec /\ Fairness

(***************************************************************************)
(* Properties.                                                             *)
(***************************************************************************)
\* Types of every variable.
TypeOK ==
    /\ up \in BOOLEAN /\ tasks \subseteq Tasks
    /\ runs \in [RunIds -> Row] /\ rowid \in Sids
    /\ sessions \subseteq RunIds
    /\ job \in [Slots -> Job] /\ agent \in [RunIds -> AgentStates]
    /\ req \in [Requests -> Request] /\ purge \in [Purgers -> Purge]
    /\ faults \in 0..MaxFaults
    /\ dropped \subseteq RunIds /\ cut \subseteq RunIds

\* A session shared by a run and its continuations outlives all but the last of
\* their rows: while prune_runs, purge_runs or the reclaim is deleting a
\* session, no other row points at it, except one a continue request committed
\* after the decision was taken (the request checks before its await).
SharedTranscriptKept ==
    /\ \A s \in Slots, r \in RunIds :
          Exists(r) /\ runs[r].sid \in job[s].drop => runs[r].late
    /\ \A p \in Purgers, r \in RunIds :
          /\ purge[p].pc = "session" /\ Exists(r)
          /\ runs[r].sid = purge[p].sid /\ r # purge[p].run
          => runs[r].late

(***************************************************************************)
(* What makes SharedTranscriptKept inductive.                              *)
(***************************************************************************)
\* Rows are allocated in order, and none is left half written.
RowsAllocated ==
    \A r \in RunIds : IF r > rowid THEN runs[r] = NoRow ELSE runs[r].status # "none"

\* A slot at work holds a row that has left the queue for good, and a row waits
\* for its session in one slot only.
SlotsHoldRows ==
    /\ \A s \in Slots : job[s].pc # "idle" =>
          job[s].run \in RunIds /\ runs[job[s].run].status \notin {"none", "queued"}
    /\ \A s, u \in Slots : s # u /\ job[s].pc = "creds" /\ job[u].pc = "creds" =>
          job[s].run # job[u].run

\* A purge that awaits a deletion, and a continue request that awaits its body,
\* hold a row that was there when they looked.
WaitersHoldRows ==
    /\ \A p \in Purgers : purge[p].pc = "session" =>
          purge[p].run \in 1..rowid /\ purge[p].sid \in RunIds
    /\ \A q \in Requests : req[q].pc = "body" => req[q].parent \in RunIds

\* A fresh run that has not set up its session yet does not have it.
FreshHasNone ==
    /\ \A r \in RunIds : runs[r].status = "queued" /\ ~runs[r].resumed => runs[r].sid = 0
    /\ \A s \in Slots : job[s].pc = "creds" /\ ~runs[job[s].run].resumed =>
          runs[job[s].run].sid = 0

\* Whoever refers to a session got it from the row that created it, which has
\* it too.
SessionsHaveOwner ==
    \A x \in RunIds :
        \/ runs[x].sid = x
        \/ /\ \A r \in RunIds : runs[r].sid # x
           /\ \A s \in Slots : x \notin job[s].drop
           /\ \A p \in Purgers : purge[p].sid # x
           /\ \A q \in Requests : req[q].sid # x

Inv == /\ TypeOK /\ RowsAllocated /\ SlotsHoldRows /\ WaitersHoldRows /\ FreshHasNone
       /\ SessionsHaveOwner /\ SharedTranscriptKept

Pointed == {runs[r].sid : r \in {q \in RunIds : Exists(q)}}

\* No session is orphaned but in the three ways the code gives one up: its row
\* was deleted while its run was still going, a crash or an error hit between
\* the two deletions, or between session_factory and attach_session.
OrphansExplained ==
    \A x \in sessions : x \in Pointed \cup PendingDrops \cup dropped \cup cut

\* Rows of a deleted task are always someone's to clear: a purge or the
\* start-up reclaim is on them, except rows committed late by a continue
\* request.
OrphanRowsAttended ==
    up => \A r \in Orphans :
            \/ runs[r].late
            \/ purge[Reclaim].pc # "off"
            \/ \E p \in Deletes : purge[p].pc # "off" /\ purge[p].task = runs[r].task

\* Nothing a run leaves behind, row or session, is out of everybody's reach.
NothingOrphaned == OrphansExplained /\ OrphanRowsAttended

(***************************************************************************)
(* What makes NothingOrphaned inductive.                                   *)
(***************************************************************************)
\* Slots hold different rows, and sessions to delete only while pruning; a row in
\* setup is running, unless a deletion took it; a slot is free when down.
SlotsOwnRows ==
    /\ \A s \in Slots : job[s].pc # "prune" => job[s].drop = {}
    /\ \A s, u \in Slots : s # u /\ job[s].pc # "idle" /\ job[u].pc # "idle" =>
          job[s].run # job[u].run
    /\ \A s \in Slots : job[s].pc = "creds" =>
          \/ runs[job[s].run].status = "running"
          \/ runs[job[s].run].status = "gone" /\ job[s].run \in dropped
    /\ ~up => \A s \in Slots : job[s].pc = "idle"

\* The session a purge is deleting is still the one its row has, and the reclaim
\* is for no task and has no deadline.
PurgesKnowRows ==
    /\ \A p \in Purgers : purge[p].pc = "session" => runs[purge[p].run].sid = purge[p].sid
    /\ purge[Reclaim].task = "none" /\ ~purge[Reclaim].bounded

OrphanInv == SlotsOwnRows /\ PurgesKnowRows /\ NothingOrphaned

\* Every queued run is eventually claimed, failed by a restart or deleted: a
\* worker slot always comes free again, even if the agent task it drove never
\* unwinds from its cancellation.
QueueDrains == \A r \in RunIds : runs[r].status = "queued" ~> runs[r].status # "queued"

\* The stage of each row, as a reader of its status sees it.
Stage == [r \in RunIds |-> IF runs[r].status = "ended" THEN "done" ELSE runs[r].status]

Lifecycle == INSTANCE RunLifecycle WITH Rows <- RunIds, stage <- Stage

\* The rows follow the run lifecycle through crashes, deletes and retention.
RunsFollowLifecycle == Lifecycle!Spec
=============================================================================
