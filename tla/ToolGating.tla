----------------------------- MODULE ToolGating -----------------------------
(***************************************************************************)
(* The MCP tools of one session's runs: the gates expand_tools opens and   *)
(* stores, the tools it splices into the running agent from a worker       *)
(* thread, and the one connection per server and run that the tool calls   *)
(* share (agent/skills/tool_gating.py, agent/mcp_client/client.py).        *)
(*                                                                         *)
(* A model step's tool calls run in parallel tasks; each expand_tools runs *)
(* on a thread of its own, which cancelling the run does not stop.  A      *)
(* server's tools come and go together, so a server stands for its tools.  *)
(***************************************************************************)
EXTENDS Integers, FiniteSets, SequencesExt

CONSTANTS
    Servers,        \* ids of the user's MCP servers
    Slots,          \* tool calls that may be in progress at once
    MaxGateRuns     \* bound on runs of the session

ASSUME ServersAssumption == IsFiniteSet(Servers)

VARIABLES
    alive,      \* a run is between its start and its finally clause
    gates,      \* the set UNLOCKED_VAR holds: shared by the run's calls
    stored,     \* sessions.unlocked_tool_categories
    tools,      \* agent.tools: the servers whose tools it lists, in order
    slot,       \* [Slots -> Slot]: what each tool call is doing
    conns,      \* _RUN_CONNS_VAR: servers with a connection
    open,       \* [Servers -> Nat]: connections opened and not yet closed
    gateRuns    \* runs so far

gatingVars == <<alive, gates, stored, tools, slot, conns, open, gateRuns>>

NoTask == [at |-> "idle", server |-> "none", want |-> {}, run |-> 0]
Doing(at, s, want) == [at |-> at, server |-> s, want |-> want, run |-> gateRuns]
Ours(t) == alive /\ slot[t].run = gateRuns

GatingInit ==
    /\ alive = FALSE /\ gates = {} /\ stored = {} /\ tools = <<>>
    /\ slot = [t \in Slots |-> NoTask]
    /\ conns = {} /\ open = [s \in Servers |-> 0] /\ gateRuns = 0

Turn(t, what) == slot' = [slot EXCEPT ![t] = what]
Connected == UNCHANGED <<conns, open>>
Gated == UNCHANGED <<gates, stored, tools>>

\* rehydrate_unlocked_mcp_tools: the open gates' tools, save those of a server
\* whose schemas cannot be had or whose configuration is broken.
GatedRunStarts ==
    /\ ~alive /\ gateRuns < MaxGateRuns
    /\ alive' = TRUE /\ gateRuns' = gateRuns + 1
    /\ gates' = stored
    /\ \E loaded \in SUBSET stored : tools' = SetToSeq(loaded)
    /\ UNCHANGED <<stored, slot>> /\ Connected

(***************************************************************************)
(* expand_tools: expand_categories on a worker thread.                     *)
(***************************************************************************)
\* The gate is opened in the set all of the run's calls share; the list to
\* store is read off it before it is stored.
ExpandOpens(t, s) ==
    /\ alive /\ slot[t] = NoTask
    /\ gates' = gates \cup {s}
    /\ Turn(t, Doing("persist", s, gates \cup {s}))
    /\ UNCHANGED <<alive, stored, tools, gateRuns>> /\ Connected

\* _persist: db.set_unlocked_categories overwrites the column.
ExpandPersists(t) ==
    /\ slot[t].at = "persist"
    /\ stored' = slot[t].want
    /\ Turn(t, [slot[t] EXCEPT !.at = "look"])
    /\ UNCHANGED <<alive, gates, tools, gateRuns>> /\ Connected

\* _load_l2_tools_async: nothing to do when the tools are there.  A dead run's
\* agent is nobody's.
ExpandLooks(t) ==
    /\ slot[t].at = "look"
    /\ Turn(t, IF Ours(t) /\ slot[t].server \notin ToSet(tools)
               THEN [slot[t] EXCEPT !.at = "fetch"] ELSE NoTask)
    /\ UNCHANGED <<alive, gateRuns>> /\ Gated /\ Connected

\* _fetch_and_build: the schemas, from the cache or from nimoos-ai, or none.
ExpandFetches(t) ==
    /\ slot[t].at = "fetch"
    /\ \E built \in BOOLEAN :
         Turn(t, IF built THEN [slot[t] EXCEPT !.at = "merge"] ELSE NoTask)
    /\ UNCHANGED <<alive, gateRuns>> /\ Gated /\ Connected

MergedBlind(s) == Append(tools, s)

\* Under _TOOLS_MERGE_LOCK, against the list as it is now.
Merged(s) == IF s \in ToSet(tools) THEN tools ELSE Append(tools, s)

ExpandMerges(t) ==
    /\ slot[t].at = "merge"
    /\ tools' = IF Ours(t) THEN Merged(slot[t].server) ELSE tools
    /\ Turn(t, NoTask)
    /\ UNCHANGED <<alive, gates, stored, gateRuns>> /\ Connected

(***************************************************************************)
(* A call of an MCP tool, once it is confirmed.                            *)
(***************************************************************************)
\* _get_run_conn: the connection there is, or the server's lock.
CallLooks(t, s) ==
    /\ alive /\ slot[t] = NoTask /\ s \in ToSet(tools)
    /\ Turn(t, Doing(IF s \in conns THEN "call" ELSE "lock", s, {}))
    /\ UNCHANGED <<alive, gateRuns>> /\ Gated /\ Connected

LookAgainNot(s) == "dial"

\* The second look, under the lock.
LookAgain(s) == IF s \in conns THEN "call" ELSE "dial"

CallLocks(t) ==
    LET s == slot[t].server  to == LookAgain(s) IN
    /\ slot[t].at = "lock"
    /\ \A u \in Slots : ~(slot[u].at = "dial" /\ slot[u].server = s)
    /\ Turn(t, [slot[t] EXCEPT !.at = to])
    /\ open' = IF to = "dial" THEN [open EXCEPT ![s] = @ + 1] ELSE open
    /\ UNCHANGED <<alive, conns, gateRuns>> /\ Gated

CallConnects(t) ==
    /\ slot[t].at = "dial"
    /\ conns' = conns \cup {slot[t].server}
    /\ Turn(t, [slot[t] EXCEPT !.at = "call"])
    /\ UNCHANGED <<alive, open, gateRuns>> /\ Gated

\* _connect raises: whatever its stack has opened is closed, shielded.
CallRefused(t) ==
    /\ slot[t].at = "dial"
    /\ open' = [open EXCEPT ![slot[t].server] = @ - 1]
    /\ Turn(t, NoTask)
    /\ UNCHANGED <<alive, conns, gateRuns>> /\ Gated

CallReturns(t) ==
    /\ slot[t].at = "call"
    /\ Turn(t, NoTask)
    /\ UNCHANGED <<alive, gateRuns>> /\ Gated /\ Connected

Calling == {"lock", "dial", "call"}

\* Calls that dial close their own stack; close_run_conns does the rest.
Closed == [s \in Servers |->
             open[s] - (IF s \in conns THEN 1 ELSE 0)
                     - Cardinality({t \in Slots : slot[t].at = "dial" /\ slot[t].server = s})]

\* The run ends or is cancelled: its calls with it, its threads not.
GatedRunEnds ==
    /\ alive /\ alive' = FALSE
    /\ slot' = [t \in Slots |-> IF slot[t].at \in Calling THEN NoTask ELSE slot[t]]
    /\ conns' = {} /\ open' = Closed
    /\ UNCHANGED <<gates, stored, tools, gateRuns>>

GatingNext ==
    \/ GatedRunStarts \/ GatedRunEnds
    \/ \E t \in Slots :
         \/ ExpandPersists(t) \/ ExpandLooks(t) \/ ExpandFetches(t) \/ ExpandMerges(t)
         \/ CallLocks(t) \/ CallConnects(t) \/ CallRefused(t) \/ CallReturns(t)
         \/ \E s \in Servers : ExpandOpens(t, s) \/ CallLooks(t, s)

(***************************************************************************)
(* Properties.                                                             *)
(***************************************************************************)
\* The agent never lists a tool name twice, which providers refuse with an error
\* that fails the run, however calls of expand_tools for one server interleave.
ToolsDistinct == IsInjective(tools)

\* A run holds one connection per server however many calls want it, and none
\* once it is over, whether it ended or was cancelled in the middle of dialling.
OneConnPerServer == \A s \in Servers : open[s] <= IF alive THEN 1 ELSE 0

\* What parallel calls of one run share stays single: tool names and connections.
ToolsetSound == ToolsDistinct /\ OneConnPerServer
=============================================================================
