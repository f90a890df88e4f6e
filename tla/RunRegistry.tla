---------------------------- MODULE RunRegistry -----------------------------
(***************************************************************************)
(* Agent runs on a session: _start_run and run_agent (agent/main.py), the  *)
(* per-session lock and the exit path of AgentRunner.run (agent/agent.py), *)
(* the handlers that start, stop and reattach to a run, evict_sink         *)
(* (agent/tasks/runner.py) and start-up recovery (agent/db.py).            *)
(*                                                                         *)
(* One asyncio thread: an action is one stretch between awaits.  A run's   *)
(* event stream is reduced to its `error` and `done` events.               *)
(***************************************************************************)
EXTENDS Integers, Sequences

CONSTANTS
    Sessions,
    Posts,      \* POST .../run requests, each sent at most once
    Stops,      \* stop requests (browser or chat), each sent at most once
    MaxRuns,    \* bound on agent_runs rows
    MaxCrashes  \* bound on crashes

RunIds == 1..MaxRuns
None   == 0

ASSUME ConstantsAssumption == MaxRuns \in Nat /\ MaxCrashes \in Nat /\ "none" \notin Sessions

VARIABLES
    up,         \* the agent process is running
    rowid,      \* agent_runs rows inserted so far
    run,        \* [RunIds -> Run]
    active,     \* [Sessions -> run or None]: main._active_runs
    lock,       \* [Sessions -> run or None]: the holder of the session lock
    routed,     \* [Sessions -> run or None]: AgentRunner._active_sinks
    post,       \* [Posts -> Post]
    stop,       \* [Stops -> Stop]
    crashes

vars == <<up, rowid, run, active, lock, routed, post, stop, crashes>>

\* task: the asyncio task of run_agent.  "new": not yet scheduled once.
\* "setup": holds the lock, before the try statement of AgentRunner.run.
\* "closing": in the finally block of AgentRunner.run, which awaits.
\* row: agent_runs.status.  cancel: a cancellation is on its way to the task.
\* cut: the run left its body by CancelledError.  watch: the chat's or the
\* scheduled task's driver that reads the run; "over": it has evicted the sink.
Run == [session : Sessions \cup {"none"}, task : {"none", "new", "setup", "agent", "closing", "ended"},
        row : {"none", "running", "done", "error"}, log : Seq({"error", "done"}),
        cancel : BOOLEAN, cut : BOOLEAN, watch : {"no", "chat", "task", "leaving", "over"}]

NoRun == [session |-> "none", task |-> "none", row |-> "none", log |-> <<>>,
          cancel |-> FALSE, cut |-> FALSE, watch |-> "no"]

NoPost == [pc |-> "unsent", session |-> "none"]
Post == {NoPost} \cup [pc : {"fetch", "done"}, session : Sessions]
Stop == [pc : {"unsent", "wait", "done"}, session : Sessions \cup {"none"},
         run : 0..MaxRuns, live : 0..MaxRuns]

NoStop == [pc |-> "unsent", session |-> "none", run |-> None, live |-> None]

Emitted(r, e) == \E i \in DOMAIN run[r].log : run[r].log[i] = e
IsDone(r)  == Emitted(r, "done")                    \* RunSink.is_done
Alive(r)   == run[r].task \in {"new", "setup", "agent", "closing"}
Busy(s)    == active[s] # None /\ ~IsDone(active[s])

(***************************************************************************)
(* Starting a run.                                                         *)
(***************************************************************************)
\* _start_run: the row, the sink in _active_runs (whatever was there), the task.
StartRun(s, w) ==
    /\ rowid < MaxRuns /\ rowid' = rowid + 1
    /\ run' = [run EXCEPT ![rowid + 1] =
                 [session |-> s, task |-> "new", row |-> "running", log |-> <<>>,
                  cancel |-> FALSE, cut |-> FALSE, watch |-> w]]
    /\ active' = [active EXCEPT ![s] = rowid + 1]

\* run_session: rejected with 409 while the registered sink is not done; else it
\* awaits fetch_runtime.
PostRun(q, s) ==
    /\ up /\ post[q].pc = "unsent"
    /\ post' = [post EXCEPT ![q] = [pc |-> IF Busy(s) THEN "done" ELSE "fetch",
                                    session |-> s]]
    /\ UNCHANGED <<up, rowid, run, active, lock, routed, stop, crashes>>

\* fetch_runtime returned: the run starts without looking again.
PostRunStarts(q) ==
    /\ up /\ post[q].pc = "fetch"
    /\ StartRun(post[q].session, "no")
    /\ post' = [post EXCEPT ![q].pc = "done"]
    /\ UNCHANGED <<up, lock, routed, stop, crashes>>

\* A scheduled task's run, or a chat's: no look at _active_runs.  The chat's lock,
\* and the check for an active task run, keep drivers of one session apart.
DriverStarts(s, w) ==
    /\ up /\ \A r \in RunIds : run[r].session = s =>
                run[r].watch \notin {"chat", "task", "leaving"}
    /\ StartRun(s, w)
    /\ UNCHANGED <<up, lock, routed, post, stop, crashes>>

(***************************************************************************)
(* run_agent and AgentRunner.run.                                          *)
(***************************************************************************)

\* The finally block of run_agent, after the events it has just emitted.
Settled(x, log, row) == [session |-> x.session, task |-> "ended", row |-> row,
                         log |-> x.log \o log, cancel |-> FALSE, cut |-> x.cut,
                         watch |-> x.watch]

\* First step of the task.  Cancelled before it: the coroutine never runs, so
\* neither its except clauses nor its finally do.  The session is busy: error,
\* done.  Otherwise it takes the lock, without suspending.
Begin(r) ==
    /\ up /\ run[r].task = "new"
    /\ LET s == run[r].session
       IN \/ /\ run[r].cancel
             /\ run' = [run EXCEPT ![r].task = "ended", ![r].cancel = FALSE]
             /\ UNCHANGED <<lock, routed>>
          \/ /\ ~run[r].cancel /\ lock[s] # None
             /\ run' = [run EXCEPT ![r] = Settled(@, <<"error", "done">>, "error")]
             /\ UNCHANGED <<lock, routed>>
          \/ /\ ~run[r].cancel /\ lock[s] = None
             /\ run' = [run EXCEPT ![r].task = "setup"]
             /\ lock' = [lock EXCEPT ![s] = r] /\ routed' = [routed EXCEPT ![s] = r]
    /\ UNCHANGED <<up, rowid, active, post, stop, crashes>>

Unlock(r) == lock' = [lock EXCEPT ![run[r].session] = None]

\* Setup (context, MCP servers, compaction) awaits several times.
SetupDone(r) ==
    /\ up /\ run[r].task = "setup" /\ ~run[r].cancel
    /\ run' = [run EXCEPT ![r].task = "agent"]
    /\ UNCHANGED <<up, rowid, active, lock, routed, post, stop, crashes>>

\* An exception or a cancellation during setup leaves by run_agent's except
\* clauses; the finally block of AgentRunner.run is not there yet.
SetupRaises(r) ==
    /\ up /\ run[r].task = "setup"
    /\ run' = [run EXCEPT ![r] = Settled(@, <<"error", "done">>, "error")]
    /\ Unlock(r)
    /\ UNCHANGED <<up, rowid, active, routed, post, stop, crashes>>

\* _active_sinks.pop(session_id) in the finally block.
Unroute(r) == routed' = [routed EXCEPT ![run[r].session] = None]

AgentEndsEarlyDone(r) ==
    /\ up /\ run[r].task = "agent" /\ ~run[r].cancel
    /\ run' = [run EXCEPT ![r].task = "closing", ![r].log = Append(@, "done")]
    /\ Unroute(r)
    /\ UNCHANGED <<up, rowid, active, lock, post, stop, crashes>>

\* The body ends, with an error event or without, and cleanup begins.
AgentEnds(r) ==
    /\ up /\ run[r].task = "agent" /\ ~run[r].cancel
    /\ \E e \in {<<>>, <<"error">>} :
          run' = [run EXCEPT ![r].task = "closing", ![r].log = @ \o e]
    /\ Unroute(r)
    /\ UNCHANGED <<up, rowid, active, lock, post, stop, crashes>>

\* The body ends by a cancellation: no except clause of AgentRunner.run takes
\* CancelledError, the finally block does run.
AgentCancelled(r) ==
    /\ up /\ run[r].task = "agent" /\ run[r].cancel
    /\ run' = [run EXCEPT ![r].task = "closing", ![r].cut = TRUE, ![r].cancel = FALSE]
    /\ Unroute(r)
    /\ UNCHANGED <<up, rowid, active, lock, post, stop, crashes>>

\* Cleanup is over: `done` and the release of the lock, in one stretch; a cut
\* run then adds run_agent's own error and done.
Close(r) ==
    /\ up /\ run[r].task = "closing" /\ ~run[r].cancel
    /\ run' = [run EXCEPT ![r] =
                 IF @.cut THEN Settled(@, <<"done", "error", "done">>, "error")
                 ELSE Settled(@, <<"done">>, "done")]
    /\ Unlock(r)
    /\ UNCHANGED <<up, rowid, active, routed, post, stop, crashes>>

\* A cancellation during cleanup skips what is left of it.
CloseCancelled(r) ==
    /\ up /\ run[r].task = "closing" /\ run[r].cancel
    /\ run' = [run EXCEPT ![r] = Settled(@, <<"error", "done">>, "error")]
    /\ Unlock(r)
    /\ UNCHANGED <<up, rowid, active, routed, post, stop, crashes>>

(***************************************************************************)
(* Stopping a run: main.cancel_session and _channel_cancel_run.            *)
(***************************************************************************)
StopRun(p, s) ==
    /\ up /\ stop[p].pc = "unsent"
    /\ LET r == active[s]
           hit == r # None /\ Alive(r)
       IN /\ stop' = [stop EXCEPT ![p] = [pc |-> IF hit THEN "wait" ELSE "done",
                                          session |-> s, run |-> r, live |-> lock[s]]]
          /\ run' = IF hit THEN [run EXCEPT ![r].cancel = TRUE] ELSE run
    /\ UNCHANGED <<up, rowid, active, lock, routed, post, crashes>>

\* wait_for's 5 s are over: it cancels the task once more and keeps waiting.
StopAgain(p) ==
    /\ up /\ stop[p].pc = "wait" /\ Alive(stop[p].run)
    /\ run' = [run EXCEPT ![stop[p].run].cancel = TRUE]
    /\ UNCHANGED <<up, rowid, active, lock, routed, post, stop, crashes>>

StopReturns(p) ==
    /\ up /\ stop[p].pc = "wait" /\ ~Alive(stop[p].run)
    /\ stop' = [stop EXCEPT ![p].pc = "done"]
    /\ UNCHANGED <<up, rowid, run, active, lock, routed, post, crashes>>

(***************************************************************************)
(* The drivers read up to `done` or to their deadline.  A chat's then just *)
(* stops reading; a task's goes on to cancel_sink and, at the end of       *)
(* process_once, to evict_sink.                                            *)
(***************************************************************************)
ChatLeaves(r) ==
    /\ up /\ run[r].watch = "chat"
    /\ run' = [run EXCEPT ![r].watch = "no"]
    /\ UNCHANGED <<up, rowid, active, lock, routed, post, stop, crashes>>

DriverLeaves(r) ==
    /\ up /\ run[r].watch = "task"
    /\ run' = IF Alive(r) /\ ~IsDone(r)
              THEN [run EXCEPT ![r].watch = "leaving", ![r].cancel = TRUE]
              ELSE [run EXCEPT ![r].watch = "leaving"]
    /\ UNCHANGED <<up, rowid, active, lock, routed, post, stop, crashes>>

EvictWhoever(r) == active' = [active EXCEPT ![run[r].session] = None]

\* evict_sink: another run's sink is left alone.
Evict(r) == active' = [active EXCEPT ![run[r].session] = IF @ = r THEN None ELSE @]

DriverOverUnroutes(r) ==
    /\ up /\ run[r].watch = "leaving"
    /\ run' = [run EXCEPT ![r].watch = "over"]
    /\ Evict(r) /\ routed' = [routed EXCEPT ![run[r].session] = None]
    /\ UNCHANGED <<up, rowid, lock, post, stop, crashes>>

DriverOver(r) ==
    /\ up /\ run[r].watch = "leaving"
    /\ run' = [run EXCEPT ![r].watch = "over"]
    /\ Evict(r)
    /\ UNCHANGED <<up, rowid, lock, routed, post, stop, crashes>>

(***************************************************************************)
(* Crash, and recovery in init_db.                                         *)
(***************************************************************************)
Crash ==
    /\ up /\ crashes < MaxCrashes
    /\ up' = FALSE /\ crashes' = crashes + 1
    /\ run' = [r \in RunIds |-> IF run[r].task = "none" THEN run[r]
                                ELSE [run[r] EXCEPT !.task = "ended", !.cancel = FALSE,
                                                    !.watch = "over"]]
    /\ active' = [s \in Sessions |-> None] /\ lock' = [s \in Sessions |-> None]
    /\ routed' = [s \in Sessions |-> None]
    /\ post' = [q \in Posts |-> IF post[q].pc = "unsent" THEN post[q]
                                ELSE [post[q] EXCEPT !.pc = "done"]]
    /\ stop' = [p \in Stops |-> IF stop[p].pc = "unsent" THEN stop[p]
                                ELSE [stop[p] EXCEPT !.pc = "done", !.live = None]]
    /\ UNCHANGED rowid

RecoverStatusOnly ==
    run' = [r \in RunIds |-> IF run[r].row = "running"
                             THEN [run[r] EXCEPT !.row = "error"] ELSE run[r]]

RecoverNothing == UNCHANGED run

\* Rows still `running` get error and done events and status `error`.
Recover ==
    run' = [r \in RunIds |-> IF run[r].row = "running"
              THEN [run[r] EXCEPT !.row = "error", !.log = @ \o <<"error", "done">>]
              ELSE run[r]]

Restart ==
    /\ ~up /\ up' = TRUE
    /\ Recover
    /\ UNCHANGED <<rowid, active, lock, routed, post, stop, crashes>>

Init ==
    /\ up = TRUE /\ rowid = 0 /\ run = [r \in RunIds |-> NoRun]
    /\ active = [s \in Sessions |-> None] /\ lock = [s \in Sessions |-> None]
    /\ routed = [s \in Sessions |-> None]
    /\ post = [q \in Posts |-> NoPost] /\ stop = [p \in Stops |-> NoStop]
    /\ crashes = 0

RunStep(r) ==
    \/ Begin(r) \/ SetupDone(r) \/ SetupRaises(r)
    \/ AgentCancelled(r) \/ Close(r) \/ CloseCancelled(r)

Next ==
    \/ \E q \in Posts : PostRunStarts(q) \/ \E s \in Sessions : PostRun(q, s)
    \/ \E s \in Sessions, w \in {"chat", "task"} : DriverStarts(s, w)
    \/ \E r \in RunIds :
          RunStep(r) \/ AgentEnds(r) \/ ChatLeaves(r) \/ DriverLeaves(r) \/ DriverOver(r)
    \/ \E p \in Stops : StopAgain(p) \/ StopReturns(p) \/ \E s \in Sessions : StopRun(p, s)
    \/ Crash \/ Restart

Spec == Init /\ [][Next]_vars

\* Ready tasks run, cleanup awaits end, a stop handler's wait wakes up, and the
\* service manager restarts the process.  The agent's body owes nothing.
Fairness ==
    /\ \A r \in RunIds : WF_vars(RunStep(r))
    /\ \A p \in Stops : WF_vars(StopReturns(p))
    /\ WF_vars(Restart)

FairSpec == Spec /\ Fairness

(***************************************************************************)
(* Properties.                                                             *)
(***************************************************************************)
\* Types of every variable.
TypeOK ==
    /\ up \in BOOLEAN /\ rowid \in 0..MaxRuns /\ run \in [RunIds -> Run]
    /\ active \in [Sessions -> 0..MaxRuns] /\ lock \in [Sessions -> 0..MaxRuns]
    /\ routed \in [Sessions -> 0..MaxRuns]
    /\ post \in [Posts -> Post] /\ stop \in [Stops -> Stop]
    /\ crashes \in 0..MaxCrashes

\* A client that has seen `done` may send the next message: a run whose sink is
\* done no longer holds its session's lock.
DoneMeansFree == \A s \in Sessions : lock[s] # None => ~IsDone(lock[s])

\* A run that can be asked an egress question is asked: while its body runs,
\* the session's questions go to its sink, whatever earlier runs left behind.
AskedWhileRunning ==
    \A r \in RunIds : run[r].task \in {"setup", "agent"} => routed[run[r].session] = r

\* The run that holds the session can be found again (to reattach, or to stop
\* it), unless a later run on the session took its place in _active_runs, or
\* its own task driver gave it up and evicted it while it was unwinding.
HolderReachable ==
    \A s \in Sessions : lock[s] # None /\ active[s] # lock[s] =>
        \/ \E r \in RunIds : r > lock[s] /\ run[r].session = s
        \/ run[lock[s]].watch = "over"

\* A settled run can be replayed to its end: its log has a `done`.
SettledReplayEnds == \A r \in RunIds : run[r].row \in {"done", "error"} => IsDone(r)

(***************************************************************************)
(* What makes these inductive.                                             *)
(***************************************************************************)
\* Rows are inserted in order.
RowsAllocated == \A r \in RunIds : r > rowid => run[r] = NoRun

Holding == {"setup", "agent", "closing"}

\* A session's lock is held by the run of it that is past its first step and has
\* not ended, and by no other; a run is of a session from its first step on.
LockHeld ==
    /\ \A s \in Sessions : lock[s] # None =>
          run[lock[s]].session = s /\ run[lock[s]].task \in Holding
    /\ \A r \in RunIds : run[r].task \in Holding =>
          run[r].session \in Sessions /\ lock[run[r].session] = r
    /\ \A r \in RunIds : run[r].task # "none" => run[r].session \in Sessions

\* A run that has not ended has not said `done`, and its row is `running`.
AliveNotDone == \A r \in RunIds : Alive(r) => ~IsDone(r) /\ run[r].row = "running"

\* No task is alive while the process is down.
DownFree == ~up => \A r \in RunIds : ~Alive(r)

Inv == /\ TypeOK /\ RowsAllocated /\ LockHeld /\ AliveNotDone /\ DownFree
       /\ DoneMeansFree /\ AskedWhileRunning /\ SettledReplayEnds

\* What makes HolderReachable inductive: a run can be found from its start, not
\* only from when it takes the lock.
RunReachable ==
    \A r \in RunIds : Alive(r) =>
        \/ active[run[r].session] = r
        \/ \E q \in RunIds : q > r /\ run[q].session = run[r].session
        \/ run[r].watch = "over"

\* A run that was stopped, or that outlived a crash, settles: its row leaves
\* `running`.  The exception is a run cancelled before its task first ran.
StoppedSettles ==
    \A r \in RunIds :
        (run[r].cancel \/ (~up /\ run[r].row = "running")) ~>
            (run[r].row # "running" \/ (run[r].task = "ended" /\ run[r].log = <<>>))

\* What cancel_session says of its wait: when the stop request returns, the lock
\* the running agent held is released.
StopFreesLock ==
    [][\A p \in Stops : stop[p].pc # "done" /\ stop'[p].pc = "done" /\ up' =>
          stop'[p].live = None \/ lock'[stop'[p].session] # stop'[p].live]_vars

=============================================================================
