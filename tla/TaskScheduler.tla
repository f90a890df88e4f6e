--------------------------- MODULE TaskScheduler ---------------------------
(***************************************************************************)
(* The scheduled-task clock of the agent process: agent/tasks/scheduler.py *)
(* over the scheduled_tasks and task_runs tables of agent/tasks/store.py,  *)
(* with the HTTP handlers that edit a task or queue a run of it.           *)
(*                                                                         *)
(* The process is one asyncio thread, so a handler runs undisturbed from   *)
(* one await to the next; but each store function commits on its own, so a *)
(* crash, or an error raised by one write, can separate two commits of one *)
(* handler.  `section` holds the commits the running handler has still to  *)
(* make and `due` the tasks its tick has still to handle: while either is  *)
(* non-empty nothing but the next commit, its failure, or a crash happens. *)
(***************************************************************************)
EXTENDS Integers, Sequences, FiniteSets

CONSTANTS
    Tasks,          \* ids of scheduled_tasks rows
    Puts,           \* PUT /agent/tasks/{id} requests, numbered as they arrive
    Configs,        \* schedules a task may be created with
    Patches,        \* bodies a PUT may carry (records over some config fields)
    Period,         \* the one non-zero interval_seconds in use, in clock units
    CronPeriod,     \* the cron expression in use fires at its multiples
    MissedAfter,    \* MISSED_AFTER_SECONDS
    Window,         \* WINDOW_SECONDS of the webhook limiter
    MaxNow,         \* bound on the clock
    MaxRuns,        \* bound on task_runs rows
    MaxFaults       \* bound on crashes and writes that raise, together

Triggers  == {"cron", "interval", "webhook_only"}
Scheduled == {"cron", "interval"}
\* "ended" stands for succeeded, failed and timeout: the scheduler reads only
\* whether a run is active, and a skipped row never ran.
Terminal  == {"ended", "skipped"}
Active    == {"queued", "running"}
RunIds    == 1..MaxRuns

Config == [enabled : BOOLEAN, trig : Triggers, cronOk : BOOLEAN,
           secs : {0, Period}, overlap : {"skip", "queue"},
           catchup : {"skip", "run_once"}]

\* The columns of a task row not created yet.
NoConfig == [enabled |-> FALSE, trig |-> "webhook_only", cronOk |-> FALSE,
             secs |-> 0, overlap |-> "skip", catchup |-> "skip"]

ASSUME BoundsAssumption ==
    /\ Period \in Nat \ {0} /\ CronPeriod \in Nat \ {0}
    /\ MissedAfter \in Nat /\ Window \in Nat
    /\ MaxNow \in Nat \ {0} /\ MaxRuns \in Nat \ {0}
    /\ MaxFaults \in Nat
    /\ IsFiniteSet(Tasks) /\ Configs \subseteq Config /\ Puts \subseteq Nat

\* The columns keep the database's types, whichever of them a body sets.
ASSUME PatchesAssumption ==
    \A patch \in Patches, c \in Config : [f \in DOMAIN c |->
        IF f \in DOMAIN patch THEN patch[f] ELSE c[f]] \in Config

VARIABLES
    now,        \* int(time.time())
    up,         \* the agent process is running
    boot,       \* ghost: process starts so far
    cfg,        \* [Tasks -> Config]: the schedule columns of a task row
    exists,     \* the task rows present
    next,       \* [Tasks -> Nat]: next_run_at
    runs,       \* [RunIds -> record]: the task_runs rows, by rowid
    rowid,      \* rows inserted so far
    limiter,    \* [Tasks -> Nat]: RateLimiter._last, 0 when absent
    put,        \* [Puts -> record]: PUT handlers awaiting their body
    due,        \* tasks the current tick has still to handle
    section,    \* commits the running handler has still to make
    tick,       \* "on" while tick_once runs, "torn" once a write of it raised
    errors,     \* writes that raised so far
    cuts        \* ghost: edits a crash cut between their two commits

vars == <<now, up, boot, cfg, exists, next, runs, rowid, limiter, put, due,
          section, tick, errors, cuts>>

NoRun == [task |-> "none", trigger |-> "none", status |-> "none",
          created |-> 0, started |-> FALSE, fire |-> 0, overlap |-> "none",
          boot |-> 0]

\* Crashes (every boot but the first follows one) and raised writes so far.
Faults == boot - 1 + (IF up THEN 0 ELSE 1) + errors

\* No handler is between two awaits: another coroutine may run.
Idle == up /\ tick = "off" /\ section = <<>>

(***************************************************************************)
(* The schedule.                                                           *)
(***************************************************************************)
\* cron.next_after: the smallest matching instant strictly after `after`.
NextAfter(after) == (after \div CronPeriod + 1) * CronPeriod

\* A configuration scheduler._next_fire can compute a next instant for.
Fireable(c) == \/ c.trig = "cron" /\ c.cronOk
               \/ c.trig = "interval" /\ c.secs > 0

\* scheduler._next_fire, for a fireable configuration: from now, never from
\* the stored next_run_at.
NextFireFromStored(c, stored) ==
    IF c.trig = "cron" THEN NextAfter(stored) ELSE stored + c.secs

NextFire(c, stored) ==
    IF c.trig = "cron" THEN NextAfter(now) ELSE now + c.secs

\* store._compute_next_run; a bad cron expression raises (no value).
ComputeNextRun(c) ==
    CASE c.trig = "cron"     -> NextAfter(now)
      [] c.trig = "interval" -> now + c.secs
      [] OTHER               -> 0

\* main._task_payload: the merged schedule must be one that can fire.
Valid(c) == /\ c.trig = "cron" => c.cronOk
            /\ c.trig = "interval" => c.secs >= Period

\* The columns a PUT body sets replace those of the row.
Merge(patch, c) ==
    [f \in DOMAIN c |-> IF f \in DOMAIN patch THEN patch[f] ELSE c[f]]

HasActiveRunRunningOnly(t) ==
    \E r \in RunIds : runs[r].task = t /\ runs[r].status = "running"

\* scheduler._has_active_run
HasActiveRun(t) ==
    \E r \in RunIds : runs[r].task = t /\ runs[r].status \in Active

IsDue(t) == t \in exists /\ cfg[t].enabled /\ next[t] > 0 /\ next[t] <= now

\* store.due_tasks: ORDER BY next_run_at; ties in either order.
DueOrders ==
    LET D == {t \in Tasks : IsDue(t)}
    IN {s \in [1..Cardinality(D) -> D] :
          \A i, j \in DOMAIN s : i < j => s[i] # s[j] /\ next[s[i]] <= next[s[j]]}

(***************************************************************************)
(* Commits: the store functions a handler calls, as data.                  *)
(***************************************************************************)
Insert(t, trig)  == [op |-> "insert", task |-> t, arg |-> trig]
Mark(status)     == [op |-> "mark", task |-> "none", arg |-> status]
SetNext(t, at)   == [op |-> "next", task |-> t, arg |-> at]
Disable(t)       == [op |-> "disable", task |-> t, arg |-> 0]
Write(t, c)      == [op |-> "config", task |-> t, arg |-> c]

\* scheduler._trigger_of
TriggerOf(t) == IF cfg[t].trig \in Scheduled THEN cfg[t].trig ELSE "manual"

\* The branches of scheduler._handle, each as the commits it makes in order.
BrokenWrites(t) == <<Disable(t), Insert(t, TriggerOf(t)), Mark("ended")>>

MissedWritesStuck(t) == <<SetNext(t, next[t])>>

MissedWrites(t) == <<SetNext(t, NextFire(cfg[t], next[t]))>>

SkipWrites(t) == <<Insert(t, TriggerOf(t)), Mark("skipped"),
                   SetNext(t, NextFire(cfg[t], next[t]))>>

FireWrites(t) == <<Insert(t, TriggerOf(t)), SetNext(t, NextFire(cfg[t], next[t]))>>

Handle(t) ==
    IF ~Fireable(cfg[t]) THEN BrokenWrites(t)
    ELSE IF now - next[t] > MissedAfter /\ cfg[t].catchup = "skip"
         THEN MissedWrites(t)
    ELSE IF cfg[t].overlap = "skip" /\ HasActiveRun(t) THEN SkipWrites(t)
    ELSE FireWrites(t)

(***************************************************************************)
(* Applying a commit.                                                      *)
(***************************************************************************)
\* store.create_run.  `fire` (the next_run_at a scheduled row answers),
\* `overlap` (the policy it was created under) and `boot` (the process a
\* webhook row was accepted by) are ghosts; created_at is kept where a property
\* reads it.
NewRun(t, trig) ==
    [task |-> t, trigger |-> trig, status |-> "queued", started |-> FALSE,
     created |-> IF trig = "manual" THEN 0 ELSE now,
     fire    |-> IF trig \in Scheduled THEN next[t] ELSE 0,
     overlap |-> IF trig = "manual" THEN "none" ELSE cfg[t].overlap,
     boot    |-> IF trig = "webhook" THEN boot ELSE 0]

InsertRun(t, trig) ==
    /\ rowid' = rowid + 1
    /\ runs' = [runs EXCEPT ![rowid + 1] = NewRun(t, trig)]

Apply(w) ==
    CASE w.op = "insert"  -> /\ InsertRun(w.task, w.arg)
                             /\ UNCHANGED <<cfg, next>>
      [] w.op = "mark"    -> /\ runs' = [runs EXCEPT ![rowid].status = w.arg]
                             /\ UNCHANGED <<cfg, next, rowid>>
      [] w.op = "next"    -> /\ next' = [next EXCEPT ![w.task] = w.arg]
                             /\ UNCHANGED <<cfg, runs, rowid>>
      [] w.op = "disable" -> /\ cfg' = [cfg EXCEPT ![w.task].enabled = FALSE]
                             /\ next' = [next EXCEPT ![w.task] = 0]
                             /\ UNCHANGED <<runs, rowid>>
      [] w.op = "config"  -> /\ cfg' = [cfg EXCEPT ![w.task] = w.arg]
                             /\ UNCHANGED <<next, runs, rowid>>

\* The next commit of the running handler.
Commit ==
    /\ up /\ section # <<>>
    /\ Apply(Head(section))
    /\ section' = Tail(section)
    /\ UNCHANGED <<now, up, boot, exists, limiter, put, due, tick, errors, cuts>>

\* The next commit raises.  tick_once logs it and steps over to the next due
\* task; a request handler answers 500.  Either way the rest is not written.
CommitRaises ==
    /\ up /\ section # <<>> /\ Faults < MaxFaults
    /\ section' = <<>>
    /\ errors' = errors + 1
    /\ tick' = IF tick = "on" THEN "torn" ELSE tick
    /\ UNCHANGED <<now, up, boot, cfg, exists, next, runs, rowid, limiter, put,
                   due, cuts>>

(***************************************************************************)
(* The tick: scheduler.tick_once.                                          *)
(***************************************************************************)
TickStart ==
    /\ Idle
    /\ due' \in DueOrders
    /\ due' # <<>>
    /\ rowid + Len(due') <= MaxRuns
    /\ tick' = "on"
    /\ UNCHANGED <<now, up, boot, cfg, exists, next, runs, rowid, limiter, put,
                   section, errors, cuts>>

TickHandle ==
    /\ up /\ due # <<>> /\ section = <<>>
    /\ section' = Handle(Head(due))
    /\ due' = Tail(due)
    /\ UNCHANGED <<now, up, boot, cfg, exists, next, runs, rowid, limiter, put,
                   tick, errors, cuts>>

TickEnd ==
    /\ up /\ tick # "off" /\ due = <<>> /\ section = <<>>
    /\ tick' = "off"
    /\ UNCHANGED <<now, up, boot, cfg, exists, next, runs, rowid, limiter, put,
                   due, section, errors, cuts>>

(***************************************************************************)
(* The HTTP handlers.                                                      *)
(***************************************************************************)
\* POST /agent/tasks and the create_scheduled_task tool: one commit, with
\* next_run_at computed from now.
CreateTask(t, c) ==
    /\ Idle /\ t \notin exists /\ Valid(c)
    /\ exists' = exists \cup {t}
    /\ cfg' = [cfg EXCEPT ![t] = c]
    /\ next' = [next EXCEPT ![t] = ComputeNextRun(c)]
    /\ UNCHANGED <<now, up, boot, runs, rowid, limiter, put, due, section, tick,
                   errors, cuts>>

NoPut   == [pc |-> "unsent", task |-> "none", seen |-> "none"]
PutDone == [pc |-> "done", task |-> "none", seen |-> "none"]

\* PUT /agent/tasks/{id}, up to `await request.json()`: the row it will
\* validate against is read now.
PutBegin(p, t) ==
    /\ Idle /\ put[p] = NoPut /\ t \in exists
    /\ \A q \in Puts : q < p => put[q] # NoPut
    /\ put' = [put EXCEPT ![p] = [pc |-> "open", task |-> t, seen |-> cfg[t]]]
    /\ UNCHANGED <<now, up, boot, cfg, exists, next, runs, rowid, limiter, due,
                   section, tick, errors, cuts>>

Recomputed == {"enabled", "trig", "cronOk", "secs"}

\* store.update_task: the columns, then next_run_at from the merged row.  With
\* a bad cron expression _compute_next_run raises between the two commits.
UpdateWrites(t, patch) ==
    LET merged == Merge(patch, cfg[t])
    IN IF \/ DOMAIN patch \cap Recomputed = {}
          \/ merged.trig = "cron" /\ ~merged.cronOk
       THEN <<Write(t, merged)>>
       ELSE <<Write(t, merged), SetNext(t, ComputeNextRun(merged))>>

\* The body arrived: valid against the row as it was read, written to the row
\* as it is.
PutCommit(p, patch) ==
    /\ Idle /\ put[p].pc = "open"
    /\ put' = [put EXCEPT ![p] = PutDone]
    /\ section' = IF Valid(Merge(patch, put[p].seen))
                  THEN UpdateWrites(put[p].task, patch) ELSE <<>>
    /\ UNCHANGED <<now, up, boot, cfg, exists, next, runs, rowid, limiter, due,
                   tick, errors, cuts>>

\* POST /agent/tasks/{id}/run: neither `enabled` nor overlap is consulted.
RunNow(t) ==
    /\ Idle /\ t \in exists /\ rowid < MaxRuns
    /\ InsertRun(t, "manual")
    /\ UNCHANGED <<now, up, boot, cfg, exists, next, limiter, put, due, section,
                   tick, errors, cuts>>

\* RateLimiter.allow: stale entries are pruned, an accepted hit is recorded.
Fresh(at) == at # 0 /\ now - at < Window
PrunedLimiter == [k \in Tasks |-> IF Fresh(limiter[k]) THEN limiter[k] ELSE 0]

Allow(t) == ~Fresh(limiter[t]) /\ limiter' = [PrunedLimiter EXCEPT ![t] = now]

\* POST /agent/task-webhook/{token}
WebhookTrigger(t) ==
    /\ Idle /\ t \in exists /\ cfg[t].enabled /\ rowid < MaxRuns
    /\ Allow(t)
    /\ InsertRun(t, "webhook")
    /\ UNCHANGED <<now, up, boot, cfg, exists, next, put, due, section, tick,
                   errors, cuts>>

(***************************************************************************)
(* The runner, as far as the scheduler sees it.                            *)
(***************************************************************************)
Queued == {r \in RunIds : runs[r].status = "queued"}

\* store.claim_run: the oldest queued row starts.
Claim ==
    /\ Idle
    /\ \E r \in Queued :
         /\ \A q \in Queued : r <= q
         /\ runs' = [runs EXCEPT ![r].status = "running", ![r].started = TRUE]
    /\ UNCHANGED <<now, up, boot, cfg, exists, next, rowid, limiter, put, due,
                   section, tick, errors, cuts>>

\* store.finish_run for a run the runner executed.
FinishRun(r) ==
    /\ Idle /\ runs[r].status = "running"
    /\ runs' = [runs EXCEPT ![r].status = "ended"]
    /\ UNCHANGED <<now, up, boot, cfg, exists, next, rowid, limiter, put, due,
                   section, tick, errors, cuts>>

(***************************************************************************)
(* The environment: time, crash, restart.                                  *)
(***************************************************************************)
Advance ==
    /\ now < MaxNow /\ section = <<>> /\ tick = "off"
    /\ now' = now + 1
    /\ UNCHANGED <<up, boot, cfg, exists, next, runs, rowid, limiter, put, due,
                   section, tick, errors, cuts>>

\* An edit has written the columns and not yet next_run_at.
EditHalfDone == tick = "off" /\ section # <<>> /\ Head(section).op = "next"

Crash ==
    /\ up /\ Faults < MaxFaults
    /\ up' = FALSE
    /\ cuts' = IF EditHalfDone THEN cuts + 1 ELSE cuts
    /\ due' = <<>> /\ section' = <<>> /\ tick' = "off"
    /\ put' = [p \in Puts |-> IF put[p].pc = "open" THEN PutDone ELSE put[p]]
    /\ limiter' = [t \in Tasks |-> 0]
    /\ UNCHANGED <<now, boot, cfg, exists, next, runs, rowid, errors>>

RequeueResurrect ==
    runs' = [r \in RunIds |->
               IF runs[r].status \in Active THEN [runs[r] EXCEPT !.status = "queued"]
               ELSE runs[r]]

\* store.requeue_orphaned_runs: interrupted rows are failed, never replayed.
RequeueOrphanedRuns ==
    runs' = [r \in RunIds |->
               IF runs[r].status \in Active THEN [runs[r] EXCEPT !.status = "ended"]
               ELSE runs[r]]

\* main's startup: runner.start_worker, then the scheduler's.
Restart ==
    /\ ~up
    /\ up' = TRUE /\ boot' = boot + 1
    /\ RequeueOrphanedRuns
    /\ UNCHANGED <<now, cfg, exists, next, rowid, limiter, put, due, section,
                   tick, errors, cuts>>

Init ==
    /\ now = 1 /\ up = TRUE /\ boot = 1
    /\ cfg = [t \in Tasks |-> NoConfig]
    /\ exists = {} /\ next = [t \in Tasks |-> 0]
    /\ runs = [r \in RunIds |-> NoRun] /\ rowid = 0
    /\ limiter = [t \in Tasks |-> 0]
    /\ put = [p \in Puts |-> NoPut]
    /\ due = <<>> /\ section = <<>> /\ tick = "off"
    /\ errors = 0 /\ cuts = 0

Next ==
    \/ Commit \/ CommitRaises
    \/ TickStart \/ TickHandle \/ TickEnd
    \/ \E t \in Tasks, c \in Configs : CreateTask(t, c)
    \/ \E p \in Puts, t \in Tasks : PutBegin(p, t)
    \/ \E p \in Puts, patch \in Patches : PutCommit(p, patch)
    \/ \E t \in Tasks : RunNow(t) \/ WebhookTrigger(t)
    \/ Claim
    \/ \E r \in RunIds : FinishRun(r)
    \/ Advance \/ Crash \/ Restart

Spec == Init /\ [][Next]_vars

\* The tick worker, a handler between two awaits and the service manager all
\* keep going; time, requests, crashes and the runner owe nothing.  The tick
\* needs strong fairness because other handlers keep taking the one thread: the
\* event loop's ready queue is first in, first out, so the timer gets its turn.
Fairness == /\ SF_vars(TickStart) /\ WF_vars(TickHandle) /\ WF_vars(TickEnd)
            /\ WF_vars(Commit) /\ WF_vars(Restart)

FairSpec == Spec /\ Fairness

(***************************************************************************)
(* Properties.                                                             *)
(***************************************************************************)
SameTask(r, q) == runs[r].task = runs[q].task /\ runs[r].status # "none"

\* One scheduled instant is executed at most once: whatever crashes between
\* create_run and set_next_run, or between the enqueue and the end of the run,
\* no second row for the same next_run_at is ever claimed.  (The ways around it
\* are a write that raises after create_run, and a crash that leaves an edit's
\* schedule beside the next_run_at of the one before.)
FireExecutedOnce ==
    errors = 0 /\ cuts = 0 =>
      \A r, q \in RunIds :
         /\ r # q /\ SameTask(r, q) /\ runs[r].fire = runs[q].fire
         /\ runs[r].trigger \in Scheduled /\ runs[q].trigger \in Scheduled
         => ~(runs[r].started /\ runs[q].started)

\* Downtime is never replayed: two executed fires of an interval task are a
\* whole period apart and two of a cron task fall in different cron slots, how
\* long the agent was down, where in a tick it crashed or how late a run was
\* notwithstanding.
NoReplayStorm ==
    errors = 0 /\ cuts = 0 =>
      \A r, q \in RunIds :
         /\ r < q /\ SameTask(r, q) /\ runs[r].started /\ runs[q].started
         /\ runs[r].trigger = runs[q].trigger
         => /\ runs[q].trigger = "interval"
                 => runs[q].created >= runs[r].created + Period
            /\ runs[q].trigger = "cron"
                 => runs[q].created \div CronPeriod > runs[r].created \div CronPeriod

ActivePair(r, q) == /\ r < q /\ SameTask(r, q)
                    /\ runs[r].status \in Active /\ runs[q].status \in Active

\* overlap_policy=skip: a scheduled run is never active beside an older active
\* run of its task, however that one was triggered.
SkipNeverOverlaps ==
    errors = 0 /\ Idle =>
      \A r, q \in RunIds :
         ActivePair(r, q) /\ runs[q].trigger \in Scheduled
           => runs[q].overlap = "queue"

\* The webhook limiter: within one process two accepted triggers of a task are
\* at least the window apart.
WebhookSpaced ==
    \A r, q \in RunIds :
       /\ r < q /\ SameTask(r, q) /\ runs[r].boot = runs[q].boot
       /\ runs[r].trigger = "webhook" /\ runs[q].trigger = "webhook"
       => runs[q].created >= runs[r].created + Window

\* Nothing multiplies the runs of a task: not downtime, not a caller.
RatesHeld == NoReplayStorm /\ WebhookSpaced

\* Every due task is eventually dealt with (fired, skipped, moved on, edited
\* or disabled), past writes that raise and crashes.
DueIsHandled ==
    \A t \in Tasks : IsDue(t) ~> (~IsDue(t) \/ rowid + Cardinality(Tasks) > MaxRuns)

=============================================================================
