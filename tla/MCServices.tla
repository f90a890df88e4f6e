----------------------------- MODULE MCServices -----------------------------
(* The services around the runs, for TLC: the channel manager, the router   *)
(* of one messenger, the Lark binding and the jobs over the sessions.  They *)
(* share no state, so each behaviour is one of them at work with the others *)
(* at rest.                                                                 *)
EXTENDS ChannelManager, ChatRouter, LarkBinding, SessionJobs

VARIABLE part   \* the service at work

mcVars == <<part, mgrVars, chatVars, larkVars, jobVars>>

MCInit ==
    /\ part \in {"manager", "router", "lark", "jobs"}
    /\ MgrInit /\ ChatInit /\ LarkInit /\ JobsInit
    /\ part # "manager" => db = [i \in Instances |-> "absent"]
    /\ part # "lark" => home = {}
    /\ part # "jobs" => kind = "memory"

MCNext ==
    \/ part = "manager" /\ MgrNext /\ UNCHANGED <<part, chatVars, larkVars, jobVars>>
    \/ part = "router" /\ ChatNext /\ UNCHANGED <<part, mgrVars, larkVars, jobVars>>
    \/ part = "lark" /\ LarkNext /\ UNCHANGED <<part, mgrVars, chatVars, jobVars>>
    \/ part = "jobs" /\ JobsNext /\ UNCHANGED <<part, mgrVars, chatVars, larkVars>>

MCSpec == MCInit /\ [][MCNext]_mcVars
=============================================================================
