---------------------------- MODULE LarkBinding -----------------------------
(***************************************************************************)
(* Binding one user's Feishu account: the flow that drives the lark-cli    *)
(* child processes, the status probe, the skills registration that follows *)
(* a successful binding, and unbind, which has to undo all of it           *)
(* (agent/lark/binding.py, skills_sync.py).                                *)
(*                                                                         *)
(* One asyncio thread: an action is what a task does between two awaits.   *)
(* A CLI child is a process of its own: what it writes to ~/.lark-cli it   *)
(* writes whenever it likes until it exits or is killed.                   *)
(***************************************************************************)
EXTENDS Integers, FiniteSets

CONSTANTS
    Skills,         \* WHITELIST
    MaxFlows,       \* bound on calls of start() that launch a flow
    MaxUnbinds,     \* bound on calls of unbind()
    MaxProbes       \* bound on calls of status() that probe

ASSUME LarkAssumption == MaxFlows \in Nat /\ Skills \cap {"none", "list", "read"} = {}

FlowIds == 1..MaxFlows

VARIABLES
    phase,      \* _State.phase
    task,       \* _State.task: the flow it holds, 0 for None
    syncTask,   \* _State.sync_task, by the flow that created it
    flow,       \* [FlowIds -> FlowAt]: the step whose child a flow awaits
    child,      \* [FlowIds -> {"none", "runs", "ok", "bad"}]: that child
    sync,       \* [FlowIds -> Sync]: the registration task a flow started
    home,       \* what ~/.lark-cli holds: a subset of {"config", "token"}
    transit,    \* install requests sent and not yet handled by the server
    installed,  \* skills registered for the user
    probe,      \* the status() call whose whoami is in flight
    unbind,     \* where unbind() is, while it holds _LOCK
    flows, unbinds, probes,
    parted,     \* ghost: unbind() has returned and nothing was started since
    orphans,    \* ghost: registrations still running when sync_task was overwritten
    excused     \* ghost: skills whose removal failed, or was overtaken

larkVars == <<phase, task, syncTask, flow, child, sync, home, transit, installed,
              probe, unbind, flows, unbinds, probes, parted, orphans, excused>>

FlowAt    == {"none", "config", "init", "login", "poll", "whoami", "over"}
NoSync    == [at |-> "none", left |-> {}]
Free      == [at |-> "free", flow |-> 0, left |-> {}]
Working   == FlowAt \ {"none", "over"}

LarkInit ==
    /\ phase = "unbound" /\ task = 0 /\ syncTask = 0
    /\ flow = [f \in FlowIds |-> "none"] /\ child = [f \in FlowIds |-> "none"]
    /\ sync = [f \in FlowIds |-> NoSync]
    /\ home \in {{}, {"config"}, {"config", "token"}}
    /\ transit = {} /\ installed = {} /\ probe = "none" /\ unbind = Free
    /\ flows = 0 /\ unbinds = 0 /\ probes = 0
    /\ parted = FALSE /\ orphans = {} /\ excused = {}

Counts == UNCHANGED <<flows, unbinds, probes>>
Skilled == UNCHANGED <<sync, syncTask, transit, installed, orphans, excused>>

(***************************************************************************)
(* The flow.                                                               *)
(***************************************************************************)
\* start: a no-op while a flow is alive or the account is bound.
StartFlow ==
    /\ unbind = Free /\ flows < MaxFlows
    /\ task # 0 => flow[task] \notin Working
    /\ phase # "bound"
    /\ flows' = flows + 1 /\ task' = flows + 1 /\ phase' = "starting"
    /\ flow' = [flow EXCEPT ![flows + 1] = "config"]
    /\ child' = [child EXCEPT ![flows + 1] = "runs"]
    /\ parted' = FALSE
    /\ Skilled /\ UNCHANGED <<home, probe, unbind, unbinds, probes>>

\* A child exits.  `config init` leaves the new app's configuration and the
\* polling login the token: the user has finished in the browser.
ChildExits(f) ==
    /\ child[f] = "runs"
    /\ \E rc \in {"ok", "bad"} :
         /\ child' = [child EXCEPT ![f] = rc]
         /\ home' = IF rc = "bad" THEN home
                    ELSE CASE flow[f] = "init" -> home \cup {"config"}
                           [] flow[f] = "poll" -> home \cup {"token"}
                           [] OTHER -> home
         /\ rc = "ok" => CASE flow[f] = "config" -> "config" \in home
                           [] flow[f] = "whoami" -> "token" \in home
                           [] OTHER -> TRUE
    /\ Counts /\ Skilled /\ UNCHANGED <<phase, task, flow, probe, unbind, parted>>

\* _run's own timeout: the child is killed and reaped before the flow goes on.
ChildTimesOut(f) ==
    /\ child[f] = "runs"
    /\ flow' = [flow EXCEPT ![f] = IF @ = "whoami" THEN @ ELSE "over"]
    /\ child' = [child EXCEPT ![f] = IF flow[f] = "whoami" THEN "bad" ELSE "none"]
    /\ phase' = IF flow[f] = "whoami" THEN phase ELSE "failed"
    /\ Counts /\ Skilled /\ UNCHANGED <<task, home, probe, unbind, parted>>

NextStep(at, rc) ==
    CASE at = "config" /\ rc = "ok"  -> "login"
      [] at = "config" /\ rc = "bad" -> "init"
      [] at = "init"   /\ rc = "ok"  -> "login"
      [] at = "login"  /\ rc = "ok"  -> "poll"
      [] at = "poll"   /\ rc = "ok"  -> "whoami"
      [] OTHER -> "over"

\* _flow goes on to its next child, or ends: bound after the last step, whoever
\* whoami named, and failed after any other.  `lost`: login answered without an
\* URL or a device code.
FlowStep(f, lost) ==
    LET to == IF lost THEN "over" ELSE NextStep(flow[f], child[f]) IN
    /\ flow[f] \in Working /\ child[f] \in {"ok", "bad"}
    /\ lost => flow[f] = "login" /\ child[f] = "ok"
    /\ flow' = [flow EXCEPT ![f] = to]
    /\ child' = [child EXCEPT ![f] = IF to = "over" THEN "none" ELSE "runs"]
    /\ phase' = CASE to = "over" /\ flow[f] = "whoami" -> "bound"
                  [] to = "over" -> "failed"
                  [] to = "poll" -> "polling"
                  [] OTHER -> "starting"
    /\ IF to = "over" /\ flow[f] = "whoami"
       THEN /\ syncTask' = f
            /\ sync' = [sync EXCEPT ![f] = [at |-> "list", left |-> {}]]
            /\ orphans' = orphans \cup {g \in {syncTask} \ {0} : sync[g] # NoSync}
       ELSE UNCHANGED <<syncTask, sync, orphans>>
    /\ Counts
    /\ UNCHANGED <<task, home, transit, installed, probe, unbind, parted, excused>>

(***************************************************************************)
(* Registering the skills.                                                 *)
(***************************************************************************)
Syncing(f, at) == sync[f].at = at

\* _list_skills: empty on any failure.
SyncList(f) ==
    /\ Syncing(f, "list")
    /\ \E found \in {Skills, {}} :
         sync' = [sync EXCEPT ![f] = IF found = {} THEN NoSync
                                     ELSE [at |-> "read", left |-> found]]
    /\ Counts
    /\ UNCHANGED <<phase, task, syncTask, flow, child, home, transit, installed,
                   probe, unbind, parted, orphans, excused>>

After(f, s) == LET left == sync[f].left \ {s}
               IN IF left = {} THEN NoSync ELSE [at |-> "read", left |-> left]

\* _read_skill_md fails, or _post_install sends the request.
SyncSkill(f) ==
    /\ Syncing(f, "read")
    /\ \E s \in sync[f].left, read \in BOOLEAN :
         /\ sync' = [sync EXCEPT ![f] = IF read THEN [at |-> s, left |-> @.left]
                                        ELSE After(f, s)]
         /\ transit' = IF read THEN transit \cup {<<f, s>>} ELSE transit
    /\ Counts
    /\ UNCHANGED <<phase, task, syncTask, flow, child, home, installed, probe,
                   unbind, parted, orphans, excused>>

\* The server handles a request whether or not its sender still waits.
ServerInstalls(f, s) ==
    /\ <<f, s>> \in transit
    /\ transit' = transit \ {<<f, s>>}
    /\ installed' = installed \cup {s}
    /\ excused' = IF f \in orphans \/ sync[f].at # s THEN excused \cup {s} ELSE excused
    /\ Counts
    /\ UNCHANGED <<phase, task, syncTask, flow, child, sync, home, probe, unbind,
                   parted, orphans>>

\* The answer, an error, or HTTP_TIMEOUT: one skill's failure is isolated.
SyncAnswered(f) ==
    /\ sync[f].at \in Skills
    /\ sync' = [sync EXCEPT ![f] = After(f, sync[f].at)]
    /\ Counts
    /\ UNCHANGED <<phase, task, syncTask, flow, child, home, transit, installed,
                   probe, unbind, parted, orphans, excused>>

(***************************************************************************)
(* status.                                                                 *)
(***************************************************************************)
Settled == phase \in {"unbound", "bound"} /\ (task # 0 => flow[task] \notin Working)

StatusProbe ==
    /\ Settled /\ probe = "none" /\ probes < MaxProbes
    /\ probe' = "asks" /\ probes' = probes + 1
    /\ Skilled /\ UNCHANGED <<phase, task, flow, child, home, unbind, flows, unbinds,
                              parted>>

\* whoami answers from the home as it is then; a failure or PROBE_TIMEOUT is None.
ProbeAnswers ==
    /\ probe = "asks"
    /\ \E known \in BOOLEAN :
         /\ known => "token" \in home
         /\ probe' = IF known THEN "known" ELSE "nobody"
    /\ Counts /\ Skilled
    /\ UNCHANGED <<phase, task, flow, child, home, unbind, parted>>

\* The re-check after the await, then the write.
StatusReturns ==
    /\ probe \in {"known", "nobody"} /\ probe' = "none"
    /\ phase' = CASE ~Settled -> phase [] probe = "known" -> "bound" [] OTHER -> "unbound"
    /\ Counts /\ Skilled
    /\ UNCHANGED <<task, flow, child, home, unbind, parted>>

(***************************************************************************)
(* unbind, which holds _LOCK throughout.                                   *)
(***************************************************************************)
CancelledAlive(f) == child

\* CancelledError reaches the flow inside _run, which kills and reaps the child.
CancelledChild(f) == [child EXCEPT ![f] = "none"]

\* task.cancel().  When the child has already exited, wait_for swallows the
\* cancellation, and unbind waits for the flow to run its course.
UnbindBegins ==
    /\ unbind = Free /\ unbinds < MaxUnbinds
    /\ unbinds' = unbinds + 1 /\ task' = 0
    /\ unbind' = [at |-> "flow", flow |-> task, left |-> {}]
    /\ \/ /\ task # 0 /\ flow[task] \in Working /\ child[task] = "runs"
          /\ flow' = [flow EXCEPT ![task] = "over"]
          /\ child' = CancelledChild(task)
       \/ /\ task # 0 => ~(flow[task] \in Working /\ child[task] = "runs")
          /\ UNCHANGED <<flow, child>>
    /\ Skilled /\ UNCHANGED <<phase, home, probe, flows, probes, parted>>

\* sync_task.cancel(): the registration stops at the await it is in.
SyncCancelled(f) == [sync EXCEPT ![f] = NoSync]

\* The flow has ended; the registration it may have started meanwhile is
\* cancelled with it.  A request already sent is out of unbind's reach.
UnbindSync ==
    /\ unbind.at = "flow" /\ (unbind.flow # 0 => flow[unbind.flow] \notin Working)
    /\ unbind' = [unbind EXCEPT !.at = "logout"] /\ syncTask' = 0
    /\ sync' = IF syncTask = 0 THEN sync ELSE SyncCancelled(syncTask)
    /\ Counts
    /\ UNCHANGED <<phase, task, flow, child, home, transit, installed, probe, parted,
                   orphans, excused>>

\* auth logout, best effort; remove_all gives up at once when the server's
\* address cannot be read.
UnbindLogout ==
    /\ unbind.at = "logout"
    /\ home' \in {home, home \ {"token"}}
    /\ \E left \in {Skills, {}} :
         /\ unbind' = [unbind EXCEPT !.at = "remove", !.left = left]
         /\ excused' = IF left = {} THEN excused \cup installed ELSE excused
    /\ Counts
    /\ UNCHANGED <<phase, task, syncTask, flow, child, sync, transit, installed,
                   probe, parted, orphans>>

\* _post_remove of one skill; a failure is logged and the next one follows.
UnbindSkill ==
    \E s \in unbind.left, ok \in BOOLEAN :
        /\ unbind' = [unbind EXCEPT !.left = @ \ {s}]
        /\ installed' = IF ok THEN installed \ {s} ELSE installed
        /\ excused' = IF ok THEN excused \ {s} ELSE excused \cup {s}
        /\ Counts
        /\ UNCHANGED <<phase, task, syncTask, flow, child, sync, home, transit, probe,
                       parted, orphans>>

\* rmtree of ~/.lark-cli and a fresh _State; _LOCK is released.
UnbindWipe ==
    /\ unbind.at = "remove" /\ unbind.left = {}
    /\ unbind' = Free /\ home' = {} /\ phase' = "unbound" /\ task' = 0 /\ syncTask' = 0
    /\ parted' = TRUE
    /\ Counts
    /\ UNCHANGED <<flow, child, sync, transit, installed, probe, orphans, excused>>

LarkNext ==
    \/ StartFlow \/ UnbindBegins \/ UnbindSync \/ UnbindLogout \/ UnbindSkill
    \/ UnbindWipe \/ StatusProbe \/ ProbeAnswers \/ StatusReturns
    \/ \E f \in FlowIds : \/ ChildExits(f) \/ ChildTimesOut(f) \/ SyncList(f)
                          \/ SyncSkill(f) \/ SyncAnswered(f)
                          \/ \E lost \in BOOLEAN : FlowStep(f, lost)
    \/ \E f \in FlowIds, s \in Skills : ServerInstalls(f, s)

(***************************************************************************)
(* Properties.                                                             *)
(***************************************************************************)
\* Once unbind has returned and until the next start, the account is gone: no
\* configuration or token in the CLI's home, no flow and no CLI child that could
\* write one, and no skill registered, save those whose removal failed and those
\* an install request or a registration out of unbind's reach brought back.
UnbindLeavesNothing ==
    parted => /\ home = {}
              /\ \A f \in FlowIds : flow[f] \notin Working /\ child[f] # "runs"
              /\ installed \subseteq excused

=============================================================================
