# NimoOS-AI: a TLA+ verification project

NimoOS-AI is the AI service of a NAS operating system. A Go service (`main.go`,
`route/`, `service/`, `pkg/`) keeps providers, models, skills and MCP servers and
forwards requests; a Python process (`agent/`) runs language-model agents in
sessions, asks the user before risky actions, and runs scheduled tasks with nobody
watching. An egress proxy (`deploy/agent/egress-proxy`) asks the agent process before
letting traffic out.

This directory models the Python process and the part of the Go service that decides
which MCP tools may be called unasked: the scheduler and runner of unattended tasks, the
confirmation cards, the start, stop and event stream of an agent run, its history and
tools, the chat channels around it, and the background jobs over notes and memory.
Modules are translated from the source; `PROJECT.json` maps each definition to its lines.

## 1. Inventory

The agent process is **one asyncio thread** over one SQLite database. Two coroutines
interleave only at `await`; a crash can fall between any two commits. Both facts shape
every module: an action is what a coroutine does between two awaits.

| Component | State | Operations | Interacts with | Hard because | Correct when |
|---|---|---|---|---|---|
| Scheduler (`tasks/scheduler.py`, `cron.py`, `webhook.py`) | `scheduled_tasks`, the limiter's table | tick, create, edit, run now, webhook | inserts `task_runs` for the runner | several commits per handler, downtime, edits racing with ticks | a fire is executed once, backlog is not replayed, `skip` does not overlap, due tasks are handled |
| Runner (`tasks/runner.py`, `store.py`, `session_purge.py`) | `task_runs`, sessions, worker slots, purges | claim, set up, drive, cancel, notify, prune, delete, continue, recover | starts agent runs, deletes sessions | shared sessions, awaits inside deletions, budgets, crashes | transcripts outlive all but their last row, the queue drains |
| Confirmations (`confirm.py`) | pending cards, results | register, resolve, wait, cancel | every tool, web, chat, proxy | an answer, a timeout and a stop race before the waiter wakes | only an entitled answer approves; nobody waits for ever |
| Unattended driver, escalation (`tasks/driver.py`, `escalate.py`) | event queue, escalation tasks | answer, deny or hand over a card | confirmations, chat router | hand-over can fail at each step | every card is attended, one outcome per card |
| Chat side (`channels/router.py`, `driver.py`) | cards on show, timers, chat locks, inbound queue | surface, click, timeout, `/stop`, pair, enqueue | confirmations, run registry | click, timer and stop race | one outcome per card |
| Run registry (`main.py`, `agent.py`) | `_active_runs`, session locks, egress routing, `agent_runs` | start, stop, end, recover | sinks, drivers, proxy | check, await, act; cancellation in every phase | `done` means free, a live run can be found and stopped |
| Event sink (`run_sink.py`) | buffers, log, subscribers | put, flush, subscribe | every reader of a run | coalescing against late subscribers | nothing lost, doubled or mixed |
| History (`agent.py`, `context_compaction.py`, `compaction_filter.py`) | saved rows, summary and cursor, the run's input | load, fold, cut, call, rescue, pause, save | model, run registry | five exits save different things; cuts between a call and its result | nothing saved is lost, a summary covers what was cut, pairs are kept |
| Sub-agents, access requests (`skills/orchestration.py`, `fs/access_request.py`) | slots, cards, shared futures, grants | delegate, ask, follow, time out | confirmations, file tools | the one who asked may be cancelled | nobody waits on a dead asker; system paths only by hand |
| MCP client (`mcp_client/`, `skills/tool_gating.py`) | gates, listed tools, connections | expand, connect, call, close | approvals | parallel calls of one step | no tool twice, one connection per server |
| MCP approvals, runtime (Go) | servers, listings, approvals | probe, save, edit, approve, revoke | MCP client | a probe or run in flight over an edit | unasked calls were agreed to |
| Shell guard, egress policy (`skills/shell.py`, `shell_guard/`, `egress/`, `permissions.py`) | policy, allowlist, grants, pending calls | classify, judge, ask, remember, vet | confirmations, executor | settings change while a call waits | protected commands are asked for, uploads vetted, deletions backed |
| File staging (`fs/`) | disk, staged rows, snapshots | write, move, delete, batch, commit, revert | tools, UI | the disk changes underneath | revert restores what was there, batches are whole |
| Executor (`netns/`) | processes, pid file, veth, orders | start, serve, bridge, time out, shut down | shell, MCP client | stale pid files, deaths on either side | answered means gone |
| Channel manager, adapters (`channels/`) | rows, running adapters, links | reload, start, stop, reconnect | router | overlapping reloads | no stray adapter |
| Chat router inbound | updates, codes, bindings, queues | poll, pair, dispatch, queue | runs | redelivery, revocation, a full queue | runs for the paired, no message lost |
| Lark binding (`lark/`) | flow, children, home, skills | start, probe, sync, unbind | Go skills store | children and requests outlive their task | unbind leaves nothing |
| Session jobs (memory, recall, notes) | three job tables, memories, index | enqueue, claim, call, commit, requeue | model calls | crash and retry, new messages meanwhile | a job settles, nothing is forgotten, chat text is not trusted |
| Distillation (`notes_distill*.py`) | jobs, quota, summaries | scan, claim, call, apply | model calls | scanner and worker race; three commits | effort is bounded, documents are dealt with |
| Notes (`notes/`) | files, rows, index | write, sweep | UI, tools, editor | three stores, failing calls | they agree again |
| Egress proxy, model manager, skills store (Go) | rules, pulls, directories | decide, pull, install | | not modelled, section 7 | |

`PROJECT.json` lists every component, with the reason where it is not modelled, and the
hazards of this code at the lines where they bite.

## 2. Modules

| Module | Models | State to code |
|---|---|---|
| `TaskScheduler` | the clock of scheduled tasks | `cfg`, `next` are columns of `scheduled_tasks`; `section` is the list of commits the running handler has still to make, so that a crash or a raised write can fall between any two; `put` holds PUT handlers that await their body |
| `TaskRunner` | a run from the queue to its deletion | `job[slot]` is the program counter of `process_once`; `purge[p]` one `purge_runs` or `reclaim_orphaned_runs`; `req[q]` a continue handler that awaits its body; `sessions` the session rows |
| `RunLifecycle` | what a `task_runs` row promises its reader | abstract; implemented by `TaskRunner` |
| `Confirmations` | a card from the tool that asks to the answer it acts on | `card` is `ConfirmManager`'s tables and the waiter, `feed` a driver's unread events, `shown` the router's `_confirms`, `esc` the escalation tasks |
| `RunRegistry` | runs on a session | `active` is `_active_runs`, `lock` the session lock, `routed` is `_active_sinks`, `run[r].task` the asyncio task of `run_agent` |
| `RunSink` | the event log of one run | `unflushed` the coalescing buffers, `past` and `table` the log in memory and on disk |
| `Conversation` | runs over one conversation's history | `hist` the saved row, `cursor` and `covered` the summary, `run` the locals of `AgentRunner.run` and the filter's context |
| `ToolRepair` | `_repair_tool_messages` | `msgs` the list; the result is compared with what a provider accepts |
| `SubAgents` | delegated runs and their access requests | `_pending_requests`, `_denied`, `visible_resources`, the semaphore's slots |
| `ToolGating` | MCP gates, tools and connections of a run | `slot` is one tool call in flight, `tools` is `agent.tools`, `conns` is `_RUN_CONNS_VAR` |
| `McpApprovals` | probe, edit, approval, run of one MCP server | rows of the Go tables, the agent's cache and one run's snapshot |
| `ExecService` | namespace executor and its clients | `stage` of agent and executor, the pid file, veth, `order` per command or MCP server |
| `FileStaging` | file tools and undo | `disk`, `rows` (`staged_changes`), `snaps` |
| `ShellGate` | everything between `run_command` and execution | `call` is the program counter of `_run_command_impl` with what it read |
| `ChannelManager` | reloads and adapters | `call` is one request inside `reload`, `live` counts adapters that run |
| `ChatRouter` | one Telegram bot's way into runs | `sent`, `confirmed` are the server's, `nextId` the adapter's offset, `queue` the handlers waiting on a chat's lock |
| `LarkBinding` | the Feishu account of one user | `flow`, `child`, `sync` are tasks and processes, `home` what the CLI keeps |
| `SessionJobs` | the three job tables and memories, and `purge_session` beside them | `row` a job row, `kind` which worker, `deletion` how far `purge_session` has got |
| `NotesDistill`, `NotesSync` | documents into notes; files, rows and index | `worker`, `scan`, `sweep`, `writers` are program counters |
| `TaskRunnerProofs`, `RunRegistryProofs`, `TaskSchedulerProofs`, `ConfirmationsProofs` | theorems about the module they are named after | |
| `ChannelProofs` | theorems about `ChannelManager`, `ChatRouter`, `LarkBinding` | |
| `TurnProofs` | theorems about `SubAgents`, `RunSink`, `Conversation`, `ToolRepair` | |
| `LearningProofs`, `ToolsProofs` | theorems about `SessionJobs` and `NotesDistill`; about `ShellGate`, `FileStaging`, `ExecService`, `McpApprovals` and `ToolGating` | |
| `MC*` | the instances TLC checks | |

Ghost variables (`grants`, `outs`, `quit`, `dropped`, `cut`, `cuts`, `boot`, `late`, `agreed`,
`written`, `ran`, `consent`, `raced`, `origin`, `others`, `made`, `refused`, `gap`, `blind`,
`shifted`, `missed`, `torn`, `unread`, ...) record
history for the properties and never guard a step of the program.

Abstractions worth knowing:

- A session is named after the run that created it. `ended` stands for `succeeded`,
  `failed` and `timeout`, which no modelled code tells apart.
- The cron calendar is the multiples of a period. The interval tasks in use have one
  period; zero is kept because an edit can produce it.
- The policy or preauthorization behind an automatic answer is an arbitrary verdict
  (never `allow` for an elicitation form or link: the code has no such path).
- A run's stream is reduced to `error` and `done` in `RunRegistry`; `RunSink` has the
  rest. A merged row is the sequence of the events merged into it.
- Lengths of texts and token counts are not kept: each comparison with a threshold may go
  either way. A summary is the set of items it was made from.
- A shell command is its segments, each saying what its program does, where, and what it is
  wrapped in (`under`), as far as some rule tells them apart; tokenizing is left out. A wrapper is
  taken off (`peeled`: `env`, `timeout 5`) or hides the program behind an option's value (`kept`:
  `nice -n 10`). A relative name is one place for the classifier, which looks in the session's
  directory (`InWorkDir`), and another for the allowlist, which looks in the agent's (`InOwnDir`).
- A document that is written gets a time later than any that was remembered of it, so a file
  put back with an old time is left out. A row's place in the queue of documents is a number;
  rows that a scan puts at the end together share one, as they share `enqueued_at`.
- A hash is the version it was taken of. A server has one tool; its schema is a version.
- A click is attributed to the chat it came from; `Confirmations` starts with one live
  run per session.

## 3. Runs

All runs are within reach of a laptop (the longest takes about three minutes). Deadlock is
not checked: each model stops when its bounds (rows, cards, requests, faults, clock) are
used up, and the program itself may always be idle.

Parts that share no state are checked in one run: the MC module's variable `part` says
which one works while the others stay in their initial state. The state space is the sum
of the parts', not their product, and fairness is asked of the working part only. What parts
do share is in one module (cards and drivers in `Confirmations`, lock and egress routing in
`RunRegistry`, sub-agents and access requests in `SubAgents`).

| Run | Bounds | Shows |
|---|---|---|
| `scheduler` | one task, two PUTs, 3 configurations, 2 patches, clock to 5, two runs, one fault | `FireExecutedOnce`, `RatesHeld`, `SkipNeverOverlaps`, `DueIsHandled` |
| `runner` | one task, one slot, one continue, one delete, Keep = 1, three rows, one fault | `SharedTranscriptKept`, `NothingOrphaned`, `QueueDrains`, refinement of `RunLifecycle` |
| `confirm` | one task session, one chat session, two cards | `ApprovedByRight`, `CardsAttended`, `AnswersOnce` |
| `liveness` | the same with one card, and jobs of two sessions with a deletion and a crash, under fairness | `ToolsReleased`, `EscalationSettles`, `JobsSettle` |
| `registry` | one session, two POSTs, two stops, two runs, one crash | `DoneMeansFree`, `AskedWhileRunning`, `HolderReachable`, `SettledReplayEnds`, `StoppedSettles` |
| `notes` | one user and document, two times, two attempts, quota 1, two days, a crash; one note, one writer, three bodies, one fault | `EffortBounded`, `DocumentsDealt`, `NotesHeal` |
| `turns` | three runs of two turns; message lists of up to 5; three sub-agents, two paths; five events; two servers, two calls, two runs; two listings, one edit; two orders, two boots | `ContextSound`, `HistoryKept`, `RepairSound`, `NoStrandedWait`, `SystemByHand`, `ReadersSeeTheRun`, `ToolsetSound`, `ConsentHolds`, `NoneLeftBehind` |
| `tools` | two top paths and a name, three rows, one batch plan set, one outside edit, one fault; twelve commands (a wrapped one, a relative link, an upload behind a pipe, one that does not parse), two policies, three entries, two calls | `RevertRestores`, `BatchWhole`, `GuardHolds` |
| `services` | two instances, two requests, four writes; two people, three messages, one code; two flows, one unbind; two sessions, one of a channel, a prompt of one message, one deletion, one crash | `NoStrayAdapter`, `RunsForThePaired`, `NoMessageLost`, `UnbindLeavesNothing`, `NothingForgotten`, `PromptClean` |
| `stop_lock`, `undo_history`, `voided_by_edit` | the smallest that show it | violations, section 6 |

Why the bounds are enough for the interesting cases. `scheduler`: the clock passes the
missed-window limit and two fires of each schedule; one fault is a crash between any two
commits or a write that raises; two PUTs interleave. `runner`: three rows with Keep = 1
let a run, its continuation and a third row make retention drop one, two or both owners
of a shared session while a delete, its background purge or the start-up reclaim is
inside an await. One slot keeps the state space small; the theorems of section 5 hold
for any number. `confirm`: two cards can be on one session or one on each, so a
misrouted answer and a stop that hits one of two are there. `registry`: two runs are
what a race for a session needs. `notes`: two modification times and two days let a document
change while its job is in hand and the quota run out and come back; one writer races the
sweep. `turns`: the third run starts from a history the second compacted; three sub-agents
are an owner of a request and two followers; lists of five hold two calls, their replies
and an intruder; five events fill a row, split it by type, cross scopes and end with `done`;
three pids are two executors and a stranger. `tools`: three rows let a run delete, move and
write the same path; a second call meets what the first remembered. `services`: two
requests overlap in `reload`; a queue of two can overflow with three messages; a second
flow starts while the first is undone.

Sessions, clients and requests are few enough that symmetry is not used.

Several properties are conjunctions of named parts about one promise: `RatesHeld` (backlog and
webhooks), `NothingOrphaned` (sessions and rows), `AnswersOnce` (outcomes and answers),
`ReadersSeeTheRun` (subscribers and the log), `ContextSound` (summary, pairs, number of calls),
`ToolsetSound` (tools and connections), `GuardHolds` (protected, uploads, deletions),
`NoneLeftBehind` (veth and processes), `NothingForgotten` (jobs and chunks), `NoMessageLost`
(updates and the counter), `EffortBounded` (tombstones, repeats, quota).

Each property has a mutant in `PROJECT.json`, the conjunctions mostly one per part: a plausible
bug in the mapped code (a dropped guard, a missing reset, a swapped order) under which TLC
reports that property.

## 4. Fairness

Only what the code's scheduling justifies:

- *Ready coroutines run and armed timers fire*: weak fairness of the steps between
  awaits. asyncio's loop is FIFO. An await on a foreign service counts only where
  the code bounds it with a timeout.
- *The service manager restarts the process*: weak fairness of `Restart` (the unit file
  restarts it).
- *Workers loop and their calls are bounded by timeouts*: weak fairness of the job workers,
  the distillation worker and scanner and the notes' sweep. The end of a notes writer's call
  to the index is strongly fair: the sweep, which never yields between two awaits, can hold
  the waiting handler up but not starve it.
- Nothing is owed by humans (clicks, POSTs, stops), by the language model's body, by an
  agent task that was cancelled, or by the 24 h default of `ConfirmManager`. So
  `ToolsReleased` and `QueueDrains` hold with no human and with an agent that swallows
  its cancellation.

## 5. Proofs

TLAPS checks the theorems below for every value of the constants: any number of tasks,
sessions, cards, slots, requests, paths, servers, messages, commands, crashes. They rest on the
named `ASSUME`s of the modules and on nothing else. These say that bounds are natural numbers
(a period, a window, a chunk size is not 0), that the model values standing for *none* are not
also a session, a task, a sub-agent or a process, that web, task and channel sessions are
different sessions, that an edit leaves a schedule's columns with values of their types
(`PatchesAssumption`), that a batch is two operations (`PlansAssumption`), and that instances, calls, servers, tasks and documents are finitely many. TLC
evaluates all of them on the runs' instances.

All 28 invariants that the passing runs check are stated by a theorem, and so are the refinement of
`RunLifecycle` and the action properties `HistoryKept` and `RepairSound`. Components that share no state keep their theorems in one module, each about its own
specification (`SubSpec`, `ExecSpec`, ...: the `Init` and `Next` that the `MC` module composes).

Each proof has the same plan: a type invariant, a handful of named facts that make the property
inductive, one lemma per action that disturbs a fact, and one lemma for all the steps that
disturb none. What the named facts are, and why the property does not stand alone:

**`TaskRunnerProofs`** (`Inductive`, `Invariance`, `TypeCorrect`). `TranscriptKept`: while a
session is being deleted no other row has it. The decision to delete looks at the rows once,
and the deletion comes after an await. So `Inv` adds `RowsAllocated` (a new row is nobody's),
`SlotsHoldRows` and `WaitersHoldRows` (what a slot, a purge or a request holds across an await
is a row that was there), `FreshHasNone` (a fresh run in setup has no session that is being
deleted) and `SessionsHaveOwner` (whoever refers to a session got it from its owner row).
`ImplementsLifecycle`: `Spec => Lifecycle!Spec` with `Stage` as the refinement mapping;
it needs the first three. `NothingOrphanedHolds` adds `OrphanInv`: a row is in one slot
(`SlotsOwnRows`), and a purge knows the session that each of its rows has (`PurgesKnowRows`).
The proof showed that the property could be stronger than it was: a session on a purge's list
needs no excuse of its own, since the row is still there; it is now stated without it.

**`RunRegistryProofs`** (`Inductive`, `Invariance`). `DoneFrees`, `RunningAsked`, `ReplayEnds`:
`LockHeld` ties each lock to the one task in the part of `run_agent` that holds it, so two tasks
never write the same routing entry; `AliveNotDone` says that a living task has not ended its
log, so a crash leaves a settled row or one `init_db` still repairs; `DownFree`, that no task
outlives the process. `HolderFound` is about the run with the lock; a run is registered before
it takes the lock, so `RunReachable` says the same of every living run.

**`TaskSchedulerProofs`**. A handler's commits are separate steps. `TickInv` lists what it can
be in the middle of; meanwhile neither the clock nor the row it decided upon moves. `AheadInv`:
between handlers the next instant of a task that can fire lies ahead of every run of it that was
executed or still may be. `FireExecutedOnceHolds` and `RatesHeldHolds` (intervals, cron) follow
by `SpacedInv`, `SkipNeverOverlapsHolds` by `OverlapInv` (only the row that the next commit
marks as skipped may overlap), the webhook half of `RatesHeld` by `LimiterInv`.
The attempt to prove `FireExecutedOnce` found a hole in it that the run's bounds did not
reach: `update_task` commits the columns first and `next_run_at` after (`store.py:176-195`). A
crash between the two of an edit that makes a task fire again leaves an old
`next_run_at` beside it, and an instant already executed can be executed once more. The ghost
`cuts` counts such crashes (not those elsewhere), and the property is stated, like
`RatesHeld`, for histories without one.

**`ConfirmationsProofs`** (`Invariance`). `CardStep` first sums up every action by what it does
to one card: left alone, answered, released or asked. `ApprovedByRightHolds` needs that an
`allow` on record was given by someone entitled (`AllowGranted`), since the tool reads the
record later. `AnswersOnceHolds` needs that an escalation has left its feed and reports from
where it is, once (`EscalationPlace`). `CardsAttendedHolds` needs that a feed holds cards of its
own session, that a driver which is gone has a run that asks no more, and that a run which is
over left no tool waiting (`FeedSound`, `SendingSound`, `DriverGone`, `OverLeavesNone`).

**`ChannelProofs`**. `NoStrayAdapterHolds` counts an instance's adapters by the list of running
ones and the stops under way (`MgrInv`). `RunsForThePairedHolds`: what waits in a chat's queue
stands for a pairing that was redeemed (`PairInv`), though it may have been revoked since.
`NoMessageLostHolds`: the offset that the adapter will report passes no update that is neither
handled nor in hand (`OffsetInv`), nor a file given up (`UnreadFiles`). `UnbindLeavesNothingHolds`: after each step of unbind, who
can still write (`FlowInv`, `RegisterInv`).

**`TurnProofs`**. `NoStrandedWaitHolds`: an open request is owned by a call that asks for just
that path (`OwnersAsk`, `FollowersJoined`). `SystemByHandHolds` is inductive as it stands.

`ReadersAlwaysSeeTheRun` (`SinkInv`): the events still in buffers come, by type and scope, after all
those already in the log (`PastIn`), and log and buffers together hold every event (`CoveredIn`);
so to flush first and to read the log then, as `subscribe` does, misses nothing and doubles nothing
(`ClientsSound`). The table is the log as long as no INSERT failed (`TableSound`).

`ContextAlwaysSound` (`ConvInv`). `ContextSound` speaks of what is sent; what is sent is cut from a list that
was mended, folded, saved and read again, and each of these relies on something else:
- `Replied`: every call in a list has its result behind it, except the one that just ended a run
  which raised (`Listed`); the next repair needs this to put the result in before anything is cut;
- `PairsSound`: no cut that is taken, now or after the next call, falls between a call and its result;
- `Marked`: what stands in front of the cursor is in the summary or was reported as cut, and the cursor
  separates no pair, also after placeholders have been put in;
- `FoldSound`: what the run's fold leaves out is in its summary, or among what it cut;
- `CallsSound`: the calls made, those left and the one under way exceed the cap by one at most, and
  not while a tool is pinned; so the retry that releases the pin can.

`HistoryAlwaysKept` (`KeptInv`): what a run would save now, the prefix it put aside and its input, has every
item of the saved row in order and once, and whatever the run added has a later number than
all that was there. A reply that the program made up for an interrupted call is not in the row yet
when it is made, which is why it cannot be there twice. The property used to compare the two rows with their
placeholders filtered out; it now says item by item what that meant (`Once`, `KeepsOrder`), and also
that no item is doubled.

`RepairAlwaysSound` (`RepairInv`), for message lists of any length and any set of call ids; its lemmas also
hold for messages with more than the two calls of the instance. The pass is read from its end (`FromBehind`). What it makes from a place on is accepted (`Firm`), and begins with no reply and
no empty message if that place does (`Opens`), which is what a call in front of it needs (`FirmJoined`). A list
that is `Firm` is copied (`PassSame`), hence the retry. `Firm` says more than `Accepted`: behind
the last reply to a call stands no empty message, which a second pass would take for part of the block.
That no genuine reply is exchanged for a placeholder holds for lists that hold no placeholder yet or have been
repaired (`Genuine`, `Firm`), and these are all that reach the pass. "No text is lost" used to compare the two
lists of texts; all texts being one value, it now compares how many there are.

**`LearningProofs`**. `NothingForgottenHolds`: a running row belongs to the worker's attempt (`RowsRun`), which reads the
conversation as it was when a job was last asked for, or later (`AttemptReads`, from the offset for recall: `OffsetRead`),
and the chunks that a worker is about to write overlap none
that is stored (`IndexInv`, with the arithmetic of quotients). What memory and notes read is the last
`Window` messages, as their prompts hold no more. `PromptCleanHolds`: a memory that
a channel shaped is of low trust, also one that is not active (`MemInv`), unless it was written after that session's row was gone (`late`).
`EffortBoundedHolds`: a document given up as it is on disk still has its tombstone (`RefusedInv`),
one that was made still has its note or a curated one (`MadeInv`), and a scan under way knows a
time as late as any of those, unless the user asked meanwhile (`ScanInv`). `DocTimely` orders
them: nothing remembered of a document is newer than what is on disk (see section 2 for what
that assumes of the file system). `QuotaInv`: an automatic row in hand was claimed
while the quota of its day lasted, and only the worker spends, so a midnight in between is safe; what is counted
exceeds what is spent by the note being indexed and by one for each crash (`DayHeld`).

**`ToolsProofs`**. `GuardAlwaysHolds`: what each place between the guard and the executor owes a
call (`CallSound`), the allowlist holds only what an administrator wrote or people agreed to
(`AllowExplained`), and neither ever shrinks. `ProtectedAsked` speaks of the places a command names
(`OnProtected`), not of the classifier's word: `GroundIsProtected` shows that the classifier says
"protected" of each such command, and `MatchAgreed` that an entry which matches covers what the
command names by absolute paths (`Vouched`), though it looks the names up elsewhere.
`BatchWholeHolds` (`StagingInv`): batch numbers are given out once, a batch's rows follow each other from
where the rows ended when it was committed (`BatchesWhole`), and no later step (a revert, a session's
commit, a start-up's sweep) changes a row's batch, operation or paths (`SameBatches`). The commit itself is
the fold over the pair written out (`CommitFold`, `CommitIs`) with any of its operations refused: one that
passes its check and is not refused adds its row (`OpStaged`), a refused one ends the batch (`OpRefused`),
so what is told is "staged" exactly when both rows are there.
`NoneLeftBehindHolds`: start-up ends what the last boot left before it serves (`ExecutorInv`,
`OrdersInv`). `ConsentHoldsAlways`: as long as nothing raced, the probes in flight, the row and
the run are about the settings as they are (`ProbesCurrent`, `RowCurrent`, `RunCurrent`,
`ApprConsented`), and listings carry the version they were read at (`ListingInv`).
`ToolsetSoundHolds`: a call that dials does so alone for its server, under the server's lock
(`DialAlone`), and `open` counts just that (`OpenExact`).

Induction over data. The library's induction theorems take an operator, which no installed prover can
instantiate. `NatInductive` (every set of naturals with 0 and closed under + 1 is all of them) is
therefore derived from the pigeonhole theorem `FS_Injection`: a map of a finite set into itself
that is one-to-one is onto. With it the proofs about `RunSink`, `Conversation` and
`FileStaging` reason about the folds these modules use, and the one about `ToolRepair` about its recursive
function, whose existence is proved first (`PassExists`).

Only model-checked:

- liveness under fairness (`DueIsHandled`, `QueueDrains`, `ToolsReleased`, ...), which is out
  of the prover's reach;
- `RevertRestores`, which is about all that a fold over the rows of a run computes: the disk after each
  of them has been undone in turn. It would need an invariant relating every disk in between to the one
  before the run, which has not been attempted.

## 6. Where code and comments disagree

1. **A stop can return with the run alive** (`stop_lock`). `run_session` checks
   `_active_runs`, awaits, and starts the run without looking again. A second request in
   the window ends as `agent_busy`, but its sink has replaced the live one; `cancel_session`
   then finds nothing to cancel, though its comment promises the lock is released.
2. **Undo can lose a moved file** (`undo_history`). `rename` refuses an existing destination
   and advises to delete it first "to keep undo history". After that, a write to the moved
   file reuses the snapshot taken of the deleted one, since snapshots are kept once per run
   and path. Reverting the run puts the deleted content in both places.
3. **An edit does not void approvals if a probe is in flight** (`voided_by_edit`). `Update`
   deletes what is cached about the old server; a probe that had read the old row saves
   it again, and with it the identity the old approvals match.

The passing properties state openly what the code does not promise. A continue request may
commit a row for a session whose deletion was decided meanwhile (`late`); retention may drop
the row of a run still going (`dropped`); a run cancelled before its first step never
settles until a restart; a chat driver that quits early leaves cards unattended (`quit`).
Read-once is promised, and kept, for elicitations: `wait` pops a result only when it returns it, so one
whose waiter is cancelled or timed out before it wakes stays in `_results`, and `POST /confirm` records
`action` and `content` for any card while a tool's wait never pops them (`kept`).
A fold made by the synthesis after the last turn counts the flattened list while the cursor
counts the whole one, so from there on items can be dropped unsummarised (`blind`). A placeholder
that a start or a rescue puts in front of where an earlier fold ended moves everything behind it
by one, while `fold_idx` stays (`agent.py:1549-1560`, `compaction_filter.py:253-254`): from there on (`shifted`) a
cut can fall between a call and its result, which
`tests/test_compaction_filter_orchestration.py:261-263` wants kept together; it sends an item
again rather than drop one, as the comment at `agent.py:1739-1743` says, so the summary still covers. A curated
note keeps the time it was made from and its document is distilled again. A crash after a note's commit
and before that of `finish_job` (`notes_distill.py:442-449`) leaves the row to be distilled a second time, and before
that of `quota_consume` also the quota unspent: `EffortBounded` allows one such document a crash (`torn`,
`DistillRestart`, `DistillTorn`). `ConsentHolds` is
about approvals no edit, probe or revocation raced with (`raced`). An install request of the Lark
skills that is on its way when unbind cancels its sync may still be carried out (`excused`).
The Telegram adapter passes its offset over an update before it has the message: a photo or document without
a caption whose download fails or is too large is never handed on (`telegram.py:85`, `111-112`, `140-145`; `DownloadFails`, `unread`).
An extraction prompt keeps the last 12000 characters (`memory_extract.py:90-91`, `notes_extract.py:47-48`) and the job's row
goes all the same: what came before is never read for memories or notes (`LeftOut`). Trust and source are
read when a memory is written, and a session without a row counts as a web session (`memory_extract.py:302-304`,
`skills/memory/memory.py:44-46`): delete a channel's session during the model's call, or during its run, and what
was written for it is trusted (`late`). `purge_session` takes the chunks before the rows: a crash in between
leaves a conversation that cannot be recalled, and an attempt in flight can leave chunks of a session that is gone.
A batch of file operations is atomic up to its commit only: an operation the file system refuses, or a deletion
over the snapshots' cap of 50 MiB (`snapshots.py:15`; preflight lets 2 GiB through, `batch.py:16`), ends the commit with the rows before
it staged under the batch's id, for its card to undo (`batch.py:119-123`, `249-253`; `CommitOp`, told "failed"). A directory whose
`rmtree` stops midway has lost files that no row remembers (`RemovalTorn`).
A rule of a task may grant a deletion of /DATA whose program stands behind an option's value: `nice -n 10 rm -rf
/DATA` is gray, as the comment at `skills/shell.py:490-496` says; `OnProtected` leaves that case out. The allowlist and
the backstop look a relative name up in the agent's own directory (`allowlist.py:47`), the classifier in the
session's (`rules.py:306`, `shell.py:543-546`): a prefix entry waives the card for a relative link to protected
ground, and nothing is backed up for it, so `Vouched` and `RemovalsBacked` promise absolute paths only. A transfer that is wrapped
or comes after another command is not taken for an upload (`egress/parse.py:438-441`), and what a script or a
substitution holds is not seen.
Further observations made while modelling, for the maintainers:

- Webhook runs ignore `overlap_policy`; the comment in `webhook.py` relies on it.
- A stopped run first says `done` (`AgentRunner.run`'s `finally`), then `error` and `done`.
- A run that fails in setup stays in `_active_sinks`: the registration precedes the `try`.
- A sub-agent that times out while it owns an access request cancels those who follow it.
- Discord's client is not restarted after it ends; Telegram and Lark reconnect.
- A hard-linked backstop copy shares its inode with the file: it survives a deletion, not an
  overwrite in place. A
  remembered command of several segments never matches again. The content judge sees the
  first 4096 bytes, and a file may change between vetting and execution.
- Ending an MCP bridge kills the direct child only; nobody restarts an executor that
  died; a client that hangs up does not stop its shell command.
- With Lark, a `status` that was probing when unbind began may report the account once more.

## 7. Not modelled, and the plan

Not modelled because there is nothing to check: the chat services' protocols, web tools,
the ask pipeline, attachments, HTTP forwarding, CRUD tables, prompt assembly, text
processing (shell, cron and traffic parsers, summarising). The language model and the
agents library appear as a run that may call tools, answer, end, raise, or refuse to unwind.

Left to model, in this order: the model manager's pulls and the OpenVINO loader's
single-flight; the skills store's install and rollback (both Go); the egress proxy's
decision cache; how an `always` click folds into a task's preauthorization; MCP back-off
and run-token expiry.

A proof to add: `RevertRestores` with the rows of a run undone one at a time.
