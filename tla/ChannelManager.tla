--------------------------- MODULE ChannelManager ---------------------------
(***************************************************************************)
(* ChannelManager (agent/channels/manager.py): the adapters that run for   *)
(* the enabled rows of channel_instances, the requests that write a row    *)
(* and reload (agent/main.py, channels/store.py, channels/lark_setup.py),  *)
(* and the loop inside an adapter that keeps its connection up (lark_cli's *)
(* Consumer, TelegramAdapter._run_loop, DiscordAdapter._run).              *)
(*                                                                         *)
(* reload() suspends only while an adapter stops: every start() creates a  *)
(* task and returns.  Nothing orders two requests that reload at once.     *)
(***************************************************************************)
EXTENDS Integers, FiniteSets, SequencesExt

CONSTANTS
    Instances,      \* ids of channel instances
    OneShot,        \* the Discord ones: their client is not restarted
    Calls,          \* requests that may be in progress at once
    MaxWrites,      \* bound on requests
    MaxDrops,       \* bound on connections lost or refused
    MaxRestarts        \* bound on restarts of the process

ASSUME ManagerAssumption == IsFiniteSet(Instances) /\ IsFiniteSet(Calls)

VARIABLES
    db,         \* [Instances -> {"absent", "on", "off"}]: channel_instances
    running,    \* ids in ChannelManager._running, in insertion order
    live,       \* [Instances -> Nat]: adapters started and not yet stopped
    link,       \* [Instances -> Links]: the registered adapter's connection
    call,       \* [Calls -> Call]: where each request's reload() is
    writes, drops, restarts

mgrVars == <<db, running, live, link, call, writes, drops, restarts>>

Links  == {"off", "dialling", "up", "waiting", "dead"}
NoCall == [at |-> "idle", want |-> {}, todo |-> <<>>, stopping |-> "none"]

Running == ToSet(running)
Wanted  == {i \in Instances : db[i] = "on"}

\* start_all has reloaded from the rows it found.
MgrInit ==
    /\ db \in [Instances -> {"absent", "on"}]
    /\ running = SetToSeq(Wanted)
    /\ live = [i \in Instances |-> IF i \in Wanted THEN 1 ELSE 0]
    /\ link = [i \in Instances |-> IF i \in Wanted THEN "dialling" ELSE "off"]
    /\ call = [c \in Calls |-> NoCall]
    /\ writes = 0 /\ drops = 0 /\ restarts = 0

(***************************************************************************)
(* reload().                                                               *)
(***************************************************************************)
StartedAll(want) == SetToSeq(want)

\* The wanted instances that have no adapter registered.
Started(want) == SetToSeq(want \ Running)

\* The first id of the rest of list(_running) that is unwanted, or whose
\* adapter another reload has taken out meanwhile; 0 when there is none.
Halt(todo, want) ==
    SelectInSeq(todo, LAMBDA i : i \notin want \/ i \notin Running)

\* Runs until the next adapter.stop(), a KeyError, or the end.
Reload(c, want, todo) ==
    LET k == Halt(todo, want) IN
    CASE k = 0 ->
           \* every unwanted adapter is out: start the missing ones
           LET new == Started(want) IN
           /\ running' = running \o new
           /\ live' = [i \in Instances |-> live[i] + IF i \in ToSet(new) THEN 1 ELSE 0]
           /\ link' = [i \in Instances |-> IF i \in ToSet(new) THEN "dialling" ELSE link[i]]
           /\ call' = [call EXCEPT ![c] = NoCall]
      [] k # 0 /\ todo[k] \in Running ->
           /\ running' = RemoveFirst(running, todo[k])
           /\ link' = [link EXCEPT ![todo[k]] = "off"]
           /\ call' = [call EXCEPT ![c] = [at |-> "stop", want |-> want,
                                           todo |-> SubSeq(todo, k + 1, Len(todo)),
                                           stopping |-> todo[k]]]
           /\ UNCHANGED live
      [] OTHER ->
           \* KeyError: the request fails, the rest of the reload is not done
           /\ call' = [call EXCEPT ![c] = NoCall]
           /\ UNCHANGED <<running, live, link>>

\* A request: its write is committed and its reload reads the table at once.
Request(c, i, to) ==
    /\ call[c].at = "idle" /\ writes < MaxWrites
    /\ writes' = writes + 1
    /\ db' = [db EXCEPT ![i] = to]
    /\ LET want == {j \in Instances : db'[j] = "on"} IN Reload(c, want, running)
    /\ UNCHANGED <<drops, restarts>>

\* channel_instance_create and lark_setup.enable, which also enables again.
CreateInstance(c, i) == db[i] = "absent" /\ Request(c, i, "on")
EnableInstance(c, i) == db[i] = "off" /\ Request(c, i, "on")

\* channel_instance_update and lark_setup.disable.
DisableInstance(c, i) == db[i] = "on" /\ Request(c, i, "off")

DeleteInstance(c, i) == db[i] # "absent" /\ Request(c, i, "absent")

\* The adapter's loop has ended: its task was cancelled and awaited.
AdapterStops(c) ==
    /\ call[c].at = "stop"
    /\ live' = [live EXCEPT ![call[c].stopping] = @ - 1]
    /\ call' = [call EXCEPT ![c].at = "resume"]
    /\ UNCHANGED <<db, running, link, writes, drops, restarts>>

\* stop() has returned, or raised: the loop goes on with the rows it read when
\* it began.
ReloadResumes(c) ==
    /\ call[c].at = "resume"
    /\ Reload(c, call[c].want, call[c].todo)
    /\ UNCHANGED <<db, writes, drops, restarts>>

\* stop_all() at shutdown, then the next process: start_all reloads.
Reboot ==
    /\ restarts < MaxRestarts /\ restarts' = restarts + 1
    /\ call' = [c \in Calls |-> NoCall]
    /\ running' = SetToSeq(Wanted)
    /\ live' = [i \in Instances |-> IF i \in Wanted THEN 1 ELSE 0]
    /\ link' = [i \in Instances |-> IF i \in Wanted THEN "dialling" ELSE "off"]
    /\ UNCHANGED <<db, writes, drops>>

(***************************************************************************)
(* The loop inside a registered adapter.                                   *)
(***************************************************************************)
\* The event consumer printed its ready line; the long poll was answered.
Connects(i) ==
    /\ link[i] = "dialling"
    /\ link' = [link EXCEPT ![i] = "up"]
    /\ UNCHANGED <<db, running, live, call, writes, drops, restarts>>

\* The child exits or cannot be started, the poll fails: wait and try again.
\* discord.py reconnects by itself; when its start() raises, _run ends.
AfterDrop(i) == IF i \in OneShot THEN "dead" ELSE "waiting"

Drops(i) ==
    /\ link[i] \in {"dialling", "up"} /\ drops < MaxDrops
    /\ drops' = drops + 1
    /\ link' = [link EXCEPT ![i] = AfterDrop(i)]
    /\ UNCHANGED <<db, running, live, call, writes, restarts>>

Redials(i) ==
    /\ link[i] = "waiting"
    /\ link' = [link EXCEPT ![i] = "dialling"]
    /\ UNCHANGED <<db, running, live, call, writes, drops, restarts>>

MgrNext ==
    \/ \E c \in Calls :
         \/ AdapterStops(c) \/ ReloadResumes(c)
         \/ \E i \in Instances : \/ CreateInstance(c, i) \/ EnableInstance(c, i)
                                 \/ DisableInstance(c, i) \/ DeleteInstance(c, i)
    \/ Reboot
    \/ \E i \in Instances : Connects(i) \/ Drops(i) \/ Redials(i)

(***************************************************************************)
(* Properties.                                                             *)
(***************************************************************************)
Stopping(i) == {c \in Calls : call[c].at = "stop" /\ call[c].stopping = i}

\* However reloads overlap, no adapter is left running that nobody can stop: an
\* instance's live adapters are the one in _running and those whose stop() some
\* reload awaits, so an instance never polls twice under one registration.
NoStrayAdapter ==
    \A i \in Instances :
        live[i] = (IF i \in Running THEN 1 ELSE 0) + Cardinality(Stopping(i))

=============================================================================
