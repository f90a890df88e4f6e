---------------------------- MODULE ExecService ----------------------------
(***************************************************************************)
(* The network-namespace executor: its start-up handshake with the agent    *)
(* (main.py _egress_startup, netns/bootstrap.py, netns/executor.py main),   *)
(* the shell commands it runs for netns/client.py, and the MCP servers it   *)
(* bridges to a socket (_execute_mcp_stdio, _serve_mcp_socket).             *)
(*                                                                         *)
(* The agent and the executor are two processes that meet through a pid     *)
(* file, a veth pair and a socket.  The files outlive a restart of the      *)
(* container; processes, namespaces and the veth pair do not.  A pid left   *)
(* in the file may by then belong to somebody else.                         *)
(***************************************************************************)
EXTENDS Naturals, FiniteSets

CONSTANTS
  Pids,        \* process ids; one executor is started per boot
  Orders,      \* shell commands and MCP servers asked of the executor
  McpOrders,   \* those that are MCP servers
  MaxBootups,  \* bound: times the agent starts
  MaxUpsets    \* bound: failing unlinks, ip commands, spawns and disconnects

NoPid == "none"

ASSUME PidsAssumption == NoPid \notin Pids

VARIABLES
  boot,      \* where the agent's start-up is
  execProc,  \* the executor the agent has spawned (_executor_proc)
  stage,     \* what each process is doing
  pidFile,   \* agent-exec.pid
  sockFile,  \* agent-exec.sock: who has bound it
  veth,      \* whose namespace VETH_E is in
  proxy,     \* is the egress proxy running
  order,     \* the commands and servers in flight
  leftovers, \* agent-mcp-*.sock files on disk
  bootups,   \* starts so far
  upsets     \* faults so far

execVars == << boot, execProc, stage, pidFile, sockFile, veth, proxy, order, leftovers,
               bootups, upsets >>

NewOrder == [at |-> "new", process |-> FALSE]

ExecInit ==
  /\ boot = "off" /\ execProc = NoPid
  /\ stage = [p \in Pids |-> "foreign"]
  /\ pidFile = NoPid /\ sockFile = NoPid /\ veth = NoPid
  /\ proxy = FALSE
  /\ order = [o \in Orders |-> NewOrder] /\ leftovers = {}
  /\ bootups = 0 /\ upsets = 0

Upset == upsets < MaxUpsets /\ upsets' = upsets + 1

Fails(failed) == IF failed THEN Upset ELSE UNCHANGED upsets

files == << pidFile, sockFile >>
orderState  == << order, leftovers >>

-----------------------------------------------------------------------------
(* The agent's side of the start-up.                                        *)

(* _clean_stale_runtime: every unlink is best effort.                       *)
CleanStale(failed) ==
  /\ boot = "off" /\ bootups < MaxBootups
  /\ boot' = "cleaned" /\ bootups' = bootups + 1
  /\ pidFile' = IF failed THEN pidFile ELSE NoPid
  /\ sockFile' = NoPid /\ leftovers' = {}
  /\ Fails(failed)
  /\ UNCHANGED << execProc, stage, veth, proxy, order >>

SpawnExecutor(p) ==
  /\ boot = "cleaned" /\ stage[p] = "foreign"
  /\ boot' = "spawned" /\ execProc' = p
  /\ stage' = [stage EXCEPT ![p] = "begun"]
  /\ UNCHANGED << files, veth, proxy, orderState, bootups, upsets >>

(* _teardown_children: executor and proxy go, the veth pair is deleted.     *)
Teardown(next) ==
  /\ boot' = next /\ execProc' = NoPid
  /\ stage' = [p \in Pids |-> IF p = execProc THEN "dead" ELSE stage[p]]
  /\ veth' = NoPid /\ proxy' = FALSE

PidIsOursAny(pid) == TRUE

(* A pid other than the execProc's means that the file is a stale one.         *)
PidIsOurs(pid) == pid = execProc

(* _wait_for_pid_file, then the comparison; the poll may also run out.      *)
ReadPidFile(timeout) ==
  /\ boot = "spawned"
  /\ IF timeout THEN Upset ELSE pidFile # NoPid /\ UNCHANGED upsets
  /\ IF ~timeout /\ PidIsOurs(pidFile)
     THEN boot' = "read" /\ UNCHANGED << execProc, stage, veth, proxy >>
     ELSE Teardown("closed")
  /\ UNCHANGED << files, orderState, bootups >>

(* create_netns: the old pair is deleted, a new one made and its far end    *)
(* moved into the namespace of the process the file named.                  *)
CreateNetns(failed) ==
  /\ boot = "read" /\ Fails(failed)
  /\ IF ~failed /\ stage[pidFile] # "dead"
     THEN boot' = "wired" /\ veth' = pidFile /\ UNCHANGED << execProc, stage, proxy >>
     ELSE Teardown("closed")
  /\ UNCHANGED << files, orderState, bootups >>

SpawnProxy(failed) ==
  /\ boot = "wired" /\ Fails(failed)
  /\ IF ~failed
     THEN boot' = "on" /\ proxy' = TRUE /\ UNCHANGED << execProc, stage, veth >>
     ELSE Teardown("closed")
  /\ UNCHANGED << files, orderState, bootups >>

(* An executor that goes takes its bridges with it; the socket files stay,  *)
(* and the servers are left to notice that their pipes have closed.         *)
Abandoned == [o \in Orders |-> IF order[o].at = "new" THEN NewOrder
                               ELSE [order[o] EXCEPT !.at = "lost"]]

Shutdown ==
  /\ boot \in {"on", "closed"}
  /\ Teardown("off")
  /\ order' = Abandoned
  /\ UNCHANGED << files, leftovers, bootups, upsets >>

(* The container is killed: every process goes, the files stay.             *)
Kill ==
  /\ boot # "off"
  /\ boot' = "off" /\ execProc' = NoPid /\ veth' = NoPid /\ proxy' = FALSE
  /\ stage' = [p \in Pids |-> "foreign"]
  /\ order' = [o \in Orders |-> NewOrder]
  /\ UNCHANGED << files, leftovers, bootups, upsets >>

-----------------------------------------------------------------------------
(* The executor's side.                                                     *)

Moves(p, from, to) == stage[p] = from /\ stage' = [stage EXCEPT ![p] = to]

(* unshare(CLONE_NEWNET), then the pid file is written.                     *)
Unshare(p) ==
  /\ Moves(p, "begun", "apart")
  /\ UNCHANGED << boot, execProc, files, veth, proxy, orderState, bootups, upsets >>

WritePidFile(p) ==
  /\ Moves(p, "apart", "named")
  /\ pidFile' = p
  /\ UNCHANGED << boot, execProc, sockFile, veth, proxy, orderState, bootups, upsets >>

(* _wait_for_iface and config_child_iface.                                  *)
IfaceAppears(p) ==
  /\ veth = p
  /\ Moves(p, "named", "inside")
  /\ UNCHANGED << boot, execProc, files, veth, proxy, orderState, bootups, upsets >>

(* The wait is over after ten seconds: the executor gives up.               *)
IfaceTimeout(p) ==
  /\ veth # p /\ Upset
  /\ Moves(p, "named", "dead")
  /\ UNCHANGED << boot, execProc, files, veth, proxy, orderState, bootups >>

Listen(p) ==
  /\ Moves(p, "inside", "serving")
  /\ sockFile' = p
  /\ UNCHANGED << boot, execProc, pidFile, veth, proxy, orderState, bootups, upsets >>

(* The executor itself goes down; nobody restarts it before the agent is    *)
(* restarted.                                                               *)
ExecutorDies(p) ==
  /\ Upset /\ stage[p] \in {"begun", "apart", "named", "inside", "serving"}
  /\ stage' = [stage EXCEPT ![p] = "dead"]
  /\ veth' = IF veth = p THEN NoPid ELSE veth
  /\ order' = Abandoned
  /\ UNCHANGED << boot, execProc, files, proxy, leftovers, bootups >>

-----------------------------------------------------------------------------
(* Requests.                                                                *)

Serving == sockFile # NoPid /\ stage[sockFile] = "serving"

Step(o, from, to) == order[o].at = from /\ order' = [order EXCEPT ![o] = to]

still == << boot, execProc, stage, files, veth, proxy, bootups >>

(* run_command: a process of its own session, in the executor's namespace.  *)
RunShell(o) ==
  /\ Serving /\ o \notin McpOrders
  /\ Step(o, "new", [at |-> "running", process |-> TRUE])
  /\ UNCHANGED << still, leftovers, upsets >>

(* The time is up: the whole process group is killed before the answer.     *)
TimeoutKillsGroup(o) == [at |-> "answered", process |-> FALSE]

ShellTimesOut(o) ==
  /\ Serving /\ Step(o, "running", TimeoutKillsGroup(o))
  /\ UNCHANGED << still, leftovers, upsets >>

ShellExits(o) ==
  /\ Serving /\ Step(o, "running", [at |-> "answered", process |-> FALSE])
  /\ UNCHANGED << still, leftovers, upsets >>

(* _execute_mcp_stdio: bind, spawn, and a thread that waits for the client. *)
StartMcp(o) ==
  /\ Serving /\ o \in McpOrders
  /\ Step(o, "new", [at |-> "listening", process |-> TRUE])
  /\ leftovers' = leftovers \cup {o}
  /\ UNCHANGED << still, upsets >>

(* The server's program cannot be started: its socket is removed again.     *)
StartMcpFails(o) ==
  /\ Serving /\ o \in McpOrders /\ Upset
  /\ Step(o, "new", [at |-> "answered", process |-> FALSE])
  /\ UNCHANGED << still, leftovers >>

(* netns_stdio_transport connects, and two threads copy.                    *)
ClientConnects(o) ==
  /\ Serving /\ Step(o, "listening", [order[o] EXCEPT !.at = "bridged"])
  /\ UNCHANGED << still, leftovers, upsets >>

(* Nobody connected within thirty seconds (the client gave up or died), the *)
(* client hung up, or the server closed its output: the serving thread goes *)
(* to its finally clause.                                                   *)
BridgeEnds(o) ==
  /\ Serving /\ order[o].at \in {"listening", "bridged"}
  /\ order' = [order EXCEPT ![o].at = "ending"]
  /\ UNCHANGED << still, leftovers, upsets >>

ServerDies(o) ==
  /\ order[o].at \in {"listening", "bridged", "lost"} /\ order[o].process
  /\ order' = [order EXCEPT ![o].process = FALSE]
  /\ UNCHANGED << still, leftovers, upsets >>

ReapedNot(o) == [order[o] EXCEPT !.at = "answered"]

(* terminate, wait three seconds, kill, wait.                               *)
Reaped(o) == [at |-> "answered", process |-> FALSE]

BridgeCleans(o) ==
  /\ Serving /\ Step(o, "ending", Reaped(o))
  /\ leftovers' = leftovers \ {o}
  /\ UNCHANGED << still, upsets >>

(* The caller has its answer, or its error, and may ask again.              *)
AskAgain(o) ==
  /\ order[o].at = "answered"
  /\ order' = [order EXCEPT ![o].at = "new"]
  /\ UNCHANGED << still, leftovers, upsets >>

ExecNext ==
  \/ \E failed \in BOOLEAN :
       CleanStale(failed) \/ ReadPidFile(failed) \/ CreateNetns(failed) \/ SpawnProxy(failed)
  \/ \E p \in Pids : \/ SpawnExecutor(p) \/ Unshare(p) \/ WritePidFile(p)
                     \/ IfaceAppears(p) \/ IfaceTimeout(p) \/ Listen(p) \/ ExecutorDies(p)
  \/ Shutdown \/ Kill
  \/ \E o \in Orders :
       \/ RunShell(o) \/ ShellTimesOut(o) \/ ShellExits(o)
       \/ StartMcp(o) \/ StartMcpFails(o) \/ ClientConnects(o)
       \/ BridgeEnds(o) \/ ServerDies(o) \/ BridgeCleans(o) \/ AskAgain(o)

-----------------------------------------------------------------------------
(* The far end of the veth pair is only ever in the namespace of the        *)
(* executor the agent itself has spawned, and an executor takes commands    *)
(* only from inside it - also when an earlier boot's pid file could not be  *)
(* removed and its pid has been given to another process (main.py:868-897,  *)
(* netns/executor.py:596-651).                                              *)
VethHome ==
  /\ veth # NoPid => veth = execProc
  /\ Serving /\ boot \in {"wired", "on"} => veth = sockFile

(* Once a request has been answered, or its bridge has ended, no process of *)
(* it is left and no socket: a shell command that ran out of time is killed *)
(* with its group, an MCP server nobody connected to is reaped              *)
(* (netns/executor.py:305-381, 536-551).                                    *)
AnsweredMeansGone ==
  \A o \in Orders : order[o].at \in {"new", "answered"} /\ boot = "on" =>
    ~order[o].process /\ o \notin leftovers

(* Whatever dies or times out, the network and the processes of an executor *)
(* belong to the one that serves, and to an order that is under way.        *)
NoneLeftBehind == VethHome /\ AnsweredMeansGone
=============================================================================
