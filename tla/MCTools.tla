------------------------------ MODULE MCTools ------------------------------
(* What a run's own tools do to the machine, for TLC: file changes and      *)
(* their undo, and the shell guard.  They share no state, so each behaviour *)
(* is one of them at work with the other at rest.                           *)
EXTENDS MCFileStaging, ShellGate

\* Commands: one segment that does something to a place, an upload, a pipe, a
\* program behind a wrapper.
Seg(does, on) ==
    [does |-> does, under |-> "none", on |-> on, out |-> {}, inp |-> {}, gives |-> FALSE, to |-> "none"]
Wrapped(how, s) == [s EXCEPT !.under = how]
Send == [Seg("curl", {"data"}) EXCEPT !.gives = TRUE, !.to = "ext"]
One(s) == [segs |-> <<s>>, parsed |-> TRUE, joined |-> "then"]
Two(s, t, ok, how) == [segs |-> <<s, t>>, parsed |-> ok, joined |-> how]

MCCommands ==
    {One(Seg("look", {"data"})), One(Seg("look", {"etc"})), One(Seg("sh", {"data"})), One(Send),
     One(Seg("wipe", {"data"})), One(Seg("wipe", {"mass"})), One(Seg("wipe", {"mass", "data"})),
     One(Wrapped("kept", Seg("wipe", {"mass"}))), One(Seg("wipe", {"link"})),
     Two(Seg("curl", {}), Wrapped("peeled", Seg("sh", {})), TRUE, "pipe"),
     Two(Seg("look", {"data"}), Send, TRUE, "pipe"),
     Two(Send, Seg("work", {"data"}), FALSE, "then")}

Pol(shell, other, context, judges) ==
    [shell |-> shell, upload |-> other, network |-> other,
     contexts |-> [task |-> context, channel |-> context],
     judges |-> [shell |-> judges, egress |-> judges]]
MCPolicies == {Pol("ask", "ask", "strict", TRUE), Pol("auto_all", "auto", "auto", FALSE)}

Rule(under, does) == [under |-> under, does |-> does, on |-> {}]
MCEntries == {[type |-> "prefix"] @@ Rule("none", "wipe"), [type |-> "prefix"] @@ Rule("none", "curl"),
              [type |-> "scope", on |-> {"etc"}]}
MCGrants  == {[rules |-> {Rule("none", "wipe"), Rule("none", "sh"), Rule("kept", "wipe")},
               scripts |-> {"data"}]}

VARIABLE part   \* the tool at work

mcVars == <<part, stagingVars, shellVars>>

MCInit ==
    /\ part \in {"files", "shell"}
    /\ StagingInit /\ ShellInit
    /\ part # "files" => disk[<<b>>] = Gone
    /\ part # "shell" => mode = "bwrap" /\ upload = "clean" /\ policy.shell = "ask"
    /\ mode = "bwrap" => upload = "clean"      \* nothing is scanned there

MCNext ==
    \/ part = "files" /\ StagingNext /\ UNCHANGED <<part, shellVars>>
    \/ part = "shell" /\ ShellNext /\ UNCHANGED <<part, stagingVars>>

MCSpec == MCInit /\ [][MCNext]_mcVars
=============================================================================
