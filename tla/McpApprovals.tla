---------------------------- MODULE McpApprovals ----------------------------
(***************************************************************************)
(* "Don't ask again" for the tools of one MCP server: what a probe writes  *)
(* about the server, the approvals recorded against it, the gates that     *)
(* void them, and the run that starts from the approvals left              *)
(* (service/mcp_runtime.go, service/mcp_approvals.go, route/v2/mcp.go,     *)
(* mcp_probe.go; agent/mcp_client/client.py and runtime.py).               *)
(*                                                                         *)
(* The server has one tool; Iface is the version of its schema, and a      *)
(* listing is that version, or 0 when the server lists no tool.            *)
(***************************************************************************)
EXTENDS Integers, FiniteSets

CONSTANTS
    Probes,         \* probes that may be in flight at once
    MaxIface,       \* versions of the tool's schema
    MaxServerEdits, \* bound on edits of the server's connection settings
    MaxSaves,       \* bound on listings saved; a save's number is its listed_at
    MaxMcpRuns,     \* bound on runs
    MaxClicks       \* bound on the user's clicks

ASSUME VersionsAssumption == MaxIface \in Nat

Lists == 0..MaxIface
ApprovalNames == {"tool", "*"}

VARIABLES
    config,     \* the version of the server's connection settings: its identity
    row,        \* its mcp_server_runtime row
    body,       \* its mcp_server_schemas row
    probing,    \* [Probes -> Probe]
    appr,       \* [ApprovalNames -> Approval]: mcp_tool_approvals
    cache,      \* the agent's _SCHEMA_CACHE entry
    mcpRun,     \* the run: what it took from nimoos-ai when it started
    saves, mcpRuns, clicks,
    consent,    \* ghost: <<name, settings, schema>> the user said yes to
    waived,     \* ghost: the last call no card was shown for
    raced       \* ghost: an edit under a probe or a run; a save or a revocation under a run

mcpVars == <<config, row, body, probing, appr, cache, mcpRun, saves, mcpRuns, clicks,
             consent, waived, raced>>

NoRuntime == [fp |-> 0, list |-> 0, listed |-> 0, empty |-> 0, state |-> "none"]
NoBody    == [listed |-> 0, list |-> 0]
NoProbe   == [at |-> "idle", config |-> 0, list |-> 0]
NoAppr    == [fp |-> 0, list |-> 0, seen |-> "never"]
NoMcpRun  == [on |-> FALSE, config |-> 0, listed |-> 0, ok |-> {}, list |-> 0, token |-> FALSE]
NoCallYet == [config |-> 0, list |-> 0]

ApprovalsInit ==
    /\ config = 1 /\ row = NoRuntime /\ body = NoBody
    /\ probing = [p \in Probes |-> NoProbe] /\ appr = [n \in ApprovalNames |-> NoAppr]
    /\ cache = NoBody /\ mcpRun = NoMcpRun
    /\ saves = 0 /\ mcpRuns = 0 /\ clicks = 0
    /\ consent = {} /\ waived = NoCallYet /\ raced = FALSE

Ghosts == UNCHANGED <<consent, waived>>
Agent  == UNCHANGED <<cache, mcpRun, mcpRuns>>

(***************************************************************************)
(* The server's settings.                                                  *)
(***************************************************************************)
\* Update deletes the row, so that the server reads as never probed.
EditedRow == NoRuntime

EditServer ==
    /\ config <= MaxServerEdits
    /\ config' = config + 1
    /\ row' = EditedRow /\ body' = NoBody
    /\ raced' = (raced \/ mcpRun.on \/ \E p \in Probes : probing[p] # NoProbe)
    /\ Agent /\ Ghosts /\ UNCHANGED <<probing, appr, saves, clicks>>

(***************************************************************************)
(* Probing.                                                                *)
(***************************************************************************)
\* The handler reads the settings (a run starts and the listing has lapsed, the
\* settings page tests, the migration sweeps) and starts the probe.
ProbeReads(p) ==
    /\ probing[p] = NoProbe /\ saves < MaxSaves
    /\ probing' = [probing EXCEPT ![p] = [at |-> "read", config |-> config, list |-> 0]]
    /\ Agent /\ Ghosts /\ UNCHANGED <<config, row, body, appr, saves, clicks, raced>>

\* MarkProbing: one probe at a time, as far as the row tells.
ProbeClaims(p) ==
    /\ probing[p].at = "read"
    /\ IF row.state = "probing"
       THEN /\ probing' = [probing EXCEPT ![p] = NoProbe]
            /\ UNCHANGED row
       ELSE /\ probing' = [probing EXCEPT ![p].at = "dial"]
            /\ row' = [row EXCEPT !.state = "probing"]
    /\ Agent /\ Ghosts /\ UNCHANGED <<config, body, appr, saves, clicks, raced>>

\* SaveFailure.
ProbeFails(p) ==
    /\ probing[p].at = "dial"
    /\ probing' = [probing EXCEPT ![p] = NoProbe]
    /\ row' = [row EXCEPT !.state = "failed"]
    /\ Agent /\ Ghosts /\ UNCHANGED <<config, body, appr, saves, clicks, raced>>

\* SaveSuccess of what test_server answered.  A listing is only cleared by two
\* empty answers in a row.
ProbeSaves(p, list) ==
    LET empty == IF list = 0 THEN row.empty + 1 ELSE 0 IN
    /\ probing[p].at = "dial" /\ saves < MaxSaves
    /\ probing' = [probing EXCEPT ![p] = NoProbe]
    /\ saves' = saves + 1
    /\ IF list # 0 \/ empty >= 2
       THEN /\ row' = [fp |-> probing[p].config, list |-> list, listed |-> saves + 1,
                       empty |-> empty, state |-> "ok"]
            /\ body' = [listed |-> saves + 1, list |-> list]
       ELSE /\ row' = [row EXCEPT !.empty = empty, !.state = "ok"]
            /\ UNCHANGED body
    /\ appr' = [n \in ApprovalNames |-> IF list # 0 /\ appr[n].seen # "never"
                                THEN [appr[n] EXCEPT !.seen = "now"] ELSE appr[n]]
    /\ raced' = (raced \/ mcpRun.on)
    /\ Agent /\ Ghosts /\ UNCHANGED <<config, clicks>>

\* A week without the tool in a listing.
ApprovalLapses(n) ==
    /\ appr[n].seen = "now"
    /\ appr' = [appr EXCEPT ![n].seen = "long ago"]
    /\ Agent /\ Ghosts /\ UNCHANGED <<config, row, body, probing, saves, clicks, raced>>

\* nimoos-ai restarts: its probes are gone, the sweep of db.go frees their lock,
\* and the run's write token is no longer known.
NimoRestarts ==
    /\ \E p \in Probes : probing[p] # NoProbe
    /\ probing' = [p \in Probes |-> NoProbe]
    /\ row' = [row EXCEPT !.state = IF @ = "probing" THEN "none" ELSE @]
    /\ mcpRun' = [mcpRun EXCEPT !.token = FALSE]
    /\ Ghosts
    /\ UNCHANGED <<config, body, appr, cache, saves, mcpRuns, clicks, raced>>

(***************************************************************************)
(* Approving.                                                              *)
(***************************************************************************)
\* Put and PutServerLevel record what the runtime row says now.
Recorded(n) == [fp |-> row.fp, list |-> IF n = "*" THEN 0 ELSE row.list, seen |-> "now"]

\* PutApproval: a click on the settings page, about the server as it is set up.
ApproveInSettings(n) ==
    /\ clicks < MaxClicks /\ clicks' = clicks + 1
    /\ appr' = [appr EXCEPT ![n] = Recorded(n)]
    /\ consent' = consent \cup {<<n, config, row.list>>}
    /\ Agent /\ UNCHANGED <<config, row, body, probing, saves, waived, raced>>

RevokeInSettings(n) ==
    /\ clicks < MaxClicks /\ clicks' = clicks + 1
    /\ appr' = [appr EXCEPT ![n] = NoAppr]
    /\ consent' = {x \in consent : x[1] # n}
    /\ raced' = (raced \/ mcpRun.on)
    /\ Agent /\ UNCHANGED <<config, row, body, probing, saves, waived>>

EffectiveStarFirst ==
    {n \in ApprovalNames :
        \/ n = "*" /\ appr[n].fp # 0
        \/ /\ n # "*" /\ appr[n].fp # 0 /\ appr[n].fp = row.fp
           /\ row.list # 0 /\ appr[n].list = row.list /\ appr[n].seen = "now"}

\* The config gate first, for the server-wide approval too; then the interface
\* gate and the stale gate.
EffectiveApprovals ==
    {n \in ApprovalNames :
        /\ appr[n].fp # 0 /\ appr[n].fp = row.fp
        /\ n = "*" \/ (row.list # 0 /\ appr[n].list = row.list /\ appr[n].seen = "now")}

(***************************************************************************)
(* The agent's run.                                                        *)
(***************************************************************************)
\* fetch_runtime: the settings, the listing's time and the approvals.
McpRunStarts ==
    /\ ~mcpRun.on /\ mcpRuns < MaxMcpRuns /\ mcpRuns' = mcpRuns + 1
    /\ mcpRun' = [on |-> TRUE, config |-> config, listed |-> row.listed,
                  ok |-> EffectiveApprovals, list |-> 0, token |-> TRUE]
    /\ waived' = NoCallYet
    /\ UNCHANGED <<config, row, body, probing, appr, cache, saves, clicks, consent, raced>>

\* _cache_get: only an exact match of listed_at is a hit.
Cached == cache.listed # 0 /\ cache.listed = mcpRun.listed

\* fetch_schemas: refused without a live write token; 0 when there are no bodies.
Fetchable == mcpRun.token /\ body.listed # 0

\* _metas_for_server: the cache, else the bodies nimoos-ai has now, cached under
\* the time they came with.
McpToolsLoaded ==
    /\ mcpRun.on /\ mcpRun.list = 0
    /\ IF Cached
       THEN /\ mcpRun' = [mcpRun EXCEPT !.list = cache.list]
            /\ UNCHANGED cache
       ELSE /\ Fetchable
            /\ cache' = body
            /\ mcpRun' = [mcpRun EXCEPT !.list = body.list]
    /\ Ghosts
    /\ UNCHANGED <<config, row, body, probing, appr, saves, mcpRuns, clicks, raced>>

Waives == "tool" \in mcpRun.ok \/ "*" \in mcpRun.ok

\* _ensure_confirmed lets the call through without a card.
CallWaived ==
    /\ mcpRun.on /\ mcpRun.list # 0 /\ Waives
    /\ waived' = [config |-> mcpRun.config, list |-> mcpRun.list]
    /\ Agent
    /\ UNCHANGED <<config, row, body, probing, appr, saves, clicks, consent, raced>>

\* put_approval, best effort.
PutApproval ==
    \/ mcpRun.token /\ appr' = [appr EXCEPT !["tool"] = Recorded("tool")]
    \/ UNCHANGED appr

\* The card is answered "don't ask again": this run will not, and nimoos-ai is
\* asked to record it.
CallRemembered ==
    /\ mcpRun.on /\ mcpRun.list # 0 /\ ~Waives
    /\ clicks < MaxClicks /\ clicks' = clicks + 1
    /\ mcpRun' = [mcpRun EXCEPT !.ok = @ \cup {"tool"}]
    /\ consent' = consent \cup {<<"tool", mcpRun.config, mcpRun.list>>}
    /\ PutApproval
    /\ UNCHANGED <<config, row, body, probing, cache, saves, mcpRuns, waived, raced>>

\* release_token ends it.
McpRunEnds ==
    /\ mcpRun.on /\ mcpRun' = NoMcpRun /\ waived' = NoCallYet
    /\ UNCHANGED <<config, row, body, probing, appr, cache, saves, mcpRuns, clicks,
                   consent, raced>>

ApprovalsNext ==
    \/ EditServer \/ NimoRestarts
    \/ \E p \in Probes : \/ ProbeReads(p) \/ ProbeClaims(p) \/ ProbeFails(p)
                         \/ \E list \in Lists : ProbeSaves(p, list)
    \/ \E n \in ApprovalNames : ApprovalLapses(n) \/ ApproveInSettings(n) \/ RevokeInSettings(n)
    \/ McpRunStarts \/ McpToolsLoaded \/ CallWaived \/ CallRemembered \/ McpRunEnds

(***************************************************************************)
(* Properties.                                                             *)
(***************************************************************************)
\* A call goes through without a card only when the user has said yes to it: to
\* every tool of the server as the run has it set up, or to this tool with the
\* schema the run shows the model.  It holds as long as the server is not edited
\* under a probe or a run, nor probed again or the approval revoked under a run.
ConsentHolds ==
    waived # NoCallYet /\ ~raced =>
        \E x \in consent : /\ x[2] = waived.config
                           /\ x[1] = "*" \/ x[3] = waived.list

\* What the Update handler says of an edit: the approvals of the old server are
\* void for the new one, whatever else is going on.
VoidedByEdit ==
    mcpRun.on /\ mcpRun.ok # {} => \E x \in consent : x[2] = mcpRun.config

=============================================================================
