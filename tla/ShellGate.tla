----------------------------- MODULE ShellGate -----------------------------
(***************************************************************************)
(* The run_command tool: what a shell command has to pass before it runs.   *)
(* shell_guard/ classifies it (safe, gray, dangerous, protected); the       *)
(* persistent allowlist, a task's run rules and scripts and the             *)
(* administrator's policy may waive the card; a gray command is shown to    *)
(* the judge; everything else asks a person.  In netns mode an upload then  *)
(* goes through egress/ (rules, judge, card, grant ticket); in bwrap mode a *)
(* command that wants the network asks for it once per session.  Several    *)
(* calls run at once, and the policy and the allowlist change while a call  *)
(* is parked on a judge or a card.                                          *)
(*                                                                         *)
(* A command is a record of its segments and how they are joined; a segment *)
(* says what its program does, what it is wrapped in (env, sudo, nice) and  *)
(* which places it names.  Files, hosts and options are kept as far as some *)
(* rule of the gate tells them apart.                                       *)
(***************************************************************************)
EXTENDS Naturals, Sequences, FiniteSets, FiniteSetsExt

CONSTANTS
  Commands,   \* the commands the model may ask for
  Policies,   \* the policy documents an administrator saves
  Entries,    \* the allowlist entries an administrator writes
  Grants,     \* what tasks are pre-authorized to run: prefix rules and scripts
  Calls,      \* run_command calls that may be in flight together
  MaxCalls,   \* bound: calls made
  MaxChanges  \* bound: policy saves, allowlist writes and file edits

VARIABLES
  mode,      \* EXEC_MODE: "netns" or "bwrap"
  policy,    \* the saved permission policy
  allow,     \* the shell_allowlist table
  network,   \* has this session been granted the network (bwrap mode)
  upload,    \* what a scan of the files to be sent would find
  call,      \* the calls in flight
  made,      \* calls made so far
  changes,   \* changes made so far
  agreed,    \* ghost: commands a person has clicked yes on
  written,   \* ghost: allowlist entries an administrator has written
  ran        \* ghost: what ran, and what was done for it before

shellVars ==
  << mode, policy, allow, network, upload, call, made, changes, agreed, written, ran >>

-----------------------------------------------------------------------------
(* What the classifier sees.                                                *)

Secret    == {"etc"}              \* /etc, the agent's own state, keys
Protected == Secret \cup {"usr"}  \* and the system directories
Harmless  == {"null"}             \* /dev/null and the standard streams
Relative  == {"link"}             \* ./link, in the session's directory a link to /etc

(* _resolve with the session's work directory, where the command will run.  *)
InWorkDir(ps) == {IF p \in Relative THEN "etc" ELSE p : p \in ps}

(* os.path.realpath in the agent's own directory.                           *)
InOwnDir(ps) == {IF p \in Relative THEN "own" ELSE p : p \in ps}

(* extract_paths: operands, redirection targets and redirected inputs.      *)
SegPaths(s) == s.on \cup s.out \cup s.inp

(* _effective_argv takes wrappers off, but stops at the value of an option: *)
(* of `nice -n 10 rm` it keeps a program named 10.                          *)
Program(s) == IF s.under = "kept" THEN "other" ELSE s.does

ReadsOnly(s) == Program(s) \in {"look", "read"}

Destructive(s) == Program(s) \in {"del", "wipe"}

Rank(level) == CASE level = "safe" -> 0 [] level = "gray" -> 1
                 [] level = "dangerous" -> 2 [] level = "protected" -> 3

(* _is_dangerous_seg: a recursive remove and its like, or a shell fed by a  *)
(* download, whose own wrappers are not taken off.                          *)
DangerousSeg(segs, i) ==
  \/ Program(segs[i]) = "wipe"
  \/ Program(segs[i]) = "sh" /\ i > 1 /\ segs[i-1].does = "curl" /\ segs[i-1].under = "none"

ClassifySeg(segs, i) ==
  LET s == segs[i]
      sensitive == InWorkDir(SegPaths(s)) \cap Protected
      danger == DangerousSeg(segs, i)
      grave == \/ sensitive \cap Secret # {}
               \/ InWorkDir(s.out) \cap Protected # {}
               \/ danger
               \/ ~ReadsOnly(s)
  IN  CASE sensitive # {} /\ grave -> "protected"
        [] sensitive # {} /\ ~grave -> "gray"
        [] sensitive = {} /\ Destructive(s) /\ "mass" \in SegPaths(s) -> "protected"
        [] OTHER -> IF danger THEN "dangerous"
                    ELSE IF Program(s) = "look" /\ s.out \subseteq Harmless THEN "safe"
                    ELSE "gray"

(* classify: the worst segment; what cannot be parsed is gray.              *)
Level(c) ==
  IF ~c.parsed THEN "gray"
  ELSE LET levels == {ClassifySeg(c.segs, i) : i \in DOMAIN c.segs}
       IN  CHOOSE l \in levels : \A other \in levels : Rank(l) >= Rank(other)

Touched(c) == IF ~c.parsed \/ Level(c) = "safe" THEN {}
            ELSE UNION {SegPaths(c.segs[i]) : i \in DOMAIN c.segs}

(* One program, no chaining, no redirection: the only shape a rule vouches  *)
(* for.                                                                     *)
Simple(c) == /\ c.parsed
             /\ Len(c.segs) = 1
             /\ c.segs[1].out = {} /\ c.segs[1].inp = {}

-----------------------------------------------------------------------------
(* The waivers.                                                             *)

(* The command text starts with the rule's: the same wrapper and program,   *)
(* and at least the rule's operands.                                        *)
StartsWith(c, rule) == /\ c.segs[1].under = rule.under /\ c.segs[1].does = rule.does
                       /\ rule.on \subseteq c.segs[1].on

(* Paths are resolved in the agent's own directory.                         *)
EntryMatches(e, c) ==
  LET ground == InOwnDir(SegPaths(c.segs[1]))
  IN  \/ e.type = "exact"  /\ e.cmd = c /\ ground \cap Protected = {}
      \/ e.type = "prefix" /\ StartsWith(c, e) /\ ground \cap Protected = {}
      \/ e.type = "scope"  /\ ground # {} /\ ground \subseteq e.on

AllowlistMatch(c) == Simple(c) /\ \E e \in allow : EntryMatches(e, c)

RunAllowlistMatch(c, rules) ==
  /\ Level(c) # "protected"
  /\ Simple(c)
  /\ c.segs[1].does # "sh"
  /\ \E r \in rules : StartsWith(c, r)

RunScriptMatch(c, scripts) ==
  /\ Level(c) # "protected"
  /\ Simple(c)
  /\ c.segs[1].does = "sh" /\ c.segs[1].under = "none"
  /\ \E p \in scripts : c.segs[1].on = {p}

ShellAuto(setting, level) ==
  \/ setting = "auto_gray" /\ level = "gray"
  \/ setting = "auto_all" /\ level \in {"gray", "dangerous"}

(* permissions.decide: a context that nobody watches is capped at gray.     *)
Decide(gate, level, context) ==
  IF context = "interactive"
  THEN IF gate = "shell" THEN ShellAuto(policy.shell, level) ELSE policy[gate] = "auto"
  ELSE /\ policy.contexts[context] \in {"follow", "auto"}
       /\ IF gate = "shell"
          THEN level = "gray" /\ (policy.contexts[context] = "auto" \/ ShellAuto(policy.shell, level))
          ELSE policy.contexts[context] = "auto" \/ policy[gate] = "auto"

JudgeEnabled(which) == policy.judges[which]

-----------------------------------------------------------------------------
(* Uploads.                                                                 *)

CurlSends(s) == s.does = "curl" /\ s.gives

CopySends(s) == s.does = "copy" /\ s.gives

External(s) == s.to = "ext"

(* parse_upload reads the text by itself: in a pipeline the last transfer   *)
(* tool, otherwise the first word of the whole command.                     *)
UploadSeg(c) ==
  LET tools == {i \in DOMAIN c.segs : c.segs[i].does \in {"curl", "copy"} /\ c.segs[i].under = "none"}
  IN  IF c.joined = "pipe" /\ tools # {} THEN c.segs[Max(tools)] ELSE c.segs[1]

Uploads(c) ==
  LET s == UploadSeg(c)
  IN  s.under = "none" /\ (CurlSends(s) \/ CopySends(s)) /\ External(s)

(* The guard leaves a lone upload to the checks below instead of asking     *)
(* twice; only where those checks exist.                                    *)
Deferred(c) == mode = "netns" /\ Simple(c) /\ Uploads(c)

Free == [at |-> "free"]

At(k, place) == [k EXCEPT !.at = place]

(* A suspect upload that the content judge did not settle: the policy, or a *)
(* card, or a refusal where nobody can be asked.                            *)
AskUpload(k) ==
  IF Decide("upload", "", k.context) THEN At([k EXCEPT !.cleared = "policy"], "grant")
  ELSE IF k.watched THEN At(k, "upload_card") ELSE Free

(* rules.assess, then the content judge where the policy enables it.        *)
Vet(k) ==
  LET seen == [k EXCEPT !.vetted = upload]
  IN  CASE upload = "block"   -> Free
        [] upload = "clean"   -> At([seen EXCEPT !.cleared = "rules"], "grant")
        [] upload = "suspect" -> IF JudgeEnabled("egress") THEN At(seen, "content_judge")
                                 ELSE AskUpload(seen)

(* _maybe_grant_network: once per session, by policy or by a card.          *)
AskNetwork(k) ==
  IF network \/ Decide("network", "", k.context) THEN At(k, "run")
  ELSE IF k.watched THEN At(k, "network_card") ELSE Free

OnwardTrusting(k) ==
  IF mode = "netns" THEN IF Uploads(k.cmd) /\ k.how # "allowlist" THEN Vet(k) ELSE At(k, "run")
  ELSE IF k.net THEN AskNetwork(k) ELSE At(k, "run")

(* Past the guard, with no await in between.                                *)
Onward(k) ==
  IF mode = "netns" THEN IF Uploads(k.cmd) THEN Vet(k) ELSE At(k, "run")
  ELSE IF k.net THEN AskNetwork(k) ELSE At(k, "run")

(* The grant_network row that a policy waiver writes on the way.            *)
NetworkAfter(k) ==
  network \/ (mode = "bwrap" /\ k.net /\ Decide("network", "", k.context))

(* prepare_backstop: the existing targets are snapshotted or hard-linked    *)
(* into the trash, as far as that succeeds.  A relative one is looked for   *)
(* in the agent's own directory and not found.                              *)
PrepareBackstop(k) == [k EXCEPT !.backed = Touched(k.cmd) \ Relative]

Waived(k, how, backed) ==
  [(IF backed THEN PrepareBackstop(k) ELSE k) EXCEPT !.how = how]

(* Ask a person: the backstop is built first, so that the card can say      *)
(* whether the command can be undone.                                       *)
AskPerson(k) == IF k.watched THEN At(PrepareBackstop(k), "card") ELSE Free

GraveBackedNot(c) == Level(c) = "protected"

(* An allowlisted command gets the backstop only above gray.                *)
GraveBacked(c) == Rank(Level(c)) >= Rank("dangerous")

(* _guard_command up to its first await.  The result is either a call still *)
(* inside the guard (judge, card, refused) or one that passed it (guard).   *)
GuardCommand(grant, k) ==
  LET c == k.cmd
      passed(how, backed) == At(Waived(k, how, backed), "passed")
  IN  CASE Level(c) = "safe" -> passed("safe", FALSE)
        [] Level(c) # "safe" /\ AllowlistMatch(c) -> passed("allowlist", GraveBacked(c))
        [] OTHER ->
             IF RunAllowlistMatch(c, grant.rules) THEN passed("rules", GraveBacked(c))
             ELSE IF RunScriptMatch(c, grant.scripts) THEN passed("script", GraveBacked(c))
             ELSE IF Decide("shell", Level(c), k.context) THEN passed("policy", Touched(c) # {})
             ELSE IF Level(c) # "gray" THEN AskPerson(k)
             ELSE IF Deferred(c) THEN passed("deferred", FALSE)
             ELSE IF JudgeEnabled("shell") THEN At(k, "judge")
             ELSE AskPerson(k)

NoGrant == [rules |-> {}, scripts |-> {}]

-----------------------------------------------------------------------------
ShellInit ==
  /\ mode \in {"netns", "bwrap"}
  /\ policy \in Policies
  /\ allow = {} /\ network = FALSE
  /\ upload \in {"clean", "suspect", "block"}
  /\ call = [k \in Calls |-> Free]
  /\ made = 0 /\ changes = 0
  /\ agreed = {} /\ written = {} /\ ran = {}

(* A call whose guard has let it pass goes on to the upload or the network  *)
(* checks in the same step.                                                 *)
Proceed(id, k) ==
  IF k.at = "passed"
  THEN /\ call' = [call EXCEPT ![id] = Onward(k)]
       /\ network' = NetworkAfter(k)
  ELSE call' = [call EXCEPT ![id] = k] /\ UNCHANGED network

quiet == << mode, policy, allow, upload, changes, written >>

(* A call from an interactive session, a channel chat or a task; only a     *)
(* task carries rules and scripts; a run without a confirmation manager or  *)
(* a sink cannot ask.                                                       *)
RunCommand(id, c, context, grant, watched, net) ==
  /\ call[id] = Free /\ made < MaxCalls
  /\ context # "task" => grant = NoGrant
  /\ net => mode = "bwrap"   \* the flag is ignored in netns mode
  /\ made' = made + 1
  /\ Proceed(id, GuardCommand(grant,
       [at |-> "guard", cmd |-> c, context |-> context, watched |-> watched, net |-> net,
        how |-> "none", backed |-> {},
        vetted |-> "no", cleared |-> "no", ticket |-> FALSE]))
  /\ UNCHANGED << quiet, agreed, ran >>

(* judge_command: any failure of the model is an "ask".                     *)
ShellJudged(id, verdict) ==
  /\ call[id].at = "judge"
  /\ Proceed(id, IF verdict = "allow"
                 THEN At(Waived(call[id], "judge", Touched(call[id].cmd) # {}), "passed")
                 ELSE AskPerson(call[id]))
  /\ UNCHANGED << quiet, agreed, made, ran >>

RememberedPrefix(c) ==
  [type |-> "prefix", under |-> c.segs[1].under, does |-> c.segs[1].does, on |-> c.segs[1].on]

(* A yes with "remember" stores this very command, never a prefix of it.    *)
Remembered(c) == [type |-> "exact", cmd |-> c]

CardClicked(id, yes, remember) ==
  /\ call[id].at = "card"
  /\ IF yes
     THEN /\ agreed' = agreed \cup {call[id].cmd}
          /\ allow' = allow \cup (IF remember THEN {Remembered(call[id].cmd)} ELSE {})
          /\ Proceed(id, At(Waived(call[id], "click", FALSE), "passed"))
     ELSE /\ ~remember
          /\ call' = [call EXCEPT ![id] = Free]
          /\ UNCHANGED << agreed, allow, network >>
  /\ UNCHANGED << mode, policy, upload, changes, written, made, ran >>

(* egress/judge.judge: allow, block, or ask (also for every failure).       *)
ContentJudged(id, verdict) ==
  /\ call[id].at = "content_judge"
  /\ call' = [call EXCEPT ![id] =
                CASE verdict = "allow" -> At([@ EXCEPT !.cleared = "judge"], "grant")
                  [] verdict = "block" -> Free
                  [] verdict = "ask"   -> AskUpload(@)]
  /\ UNCHANGED << quiet, network, agreed, made, ran >>

UploadCardClicked(id, yes) ==
  /\ call[id].at = "upload_card"
  /\ call' = [call EXCEPT ![id] = IF yes THEN At([@ EXCEPT !.cleared = "click"], "grant") ELSE Free]
  /\ UNCHANGED << quiet, network, agreed, made, ran >>

(* The ticket is asked for before the command is sent; a proxy that does    *)
(* not answer leaves the byte gate closed, and the command is sent anyway.  *)
TicketAsked(id) ==
  /\ call[id].at = "grant"
  /\ call' = [call EXCEPT ![id] = At([@ EXCEPT !.ticket = TRUE], "run")]
  /\ UNCHANGED << quiet, network, agreed, made, ran >>

(* An exception inside the upload checks refuses the command.               *)
UploadCheckFails(id) ==
  /\ call[id].at \in {"content_judge", "upload_card", "grant"}
  /\ call' = [call EXCEPT ![id] = Free]
  /\ UNCHANGED << quiet, network, agreed, made, ran >>

NetworkCardClicked(id, yes) ==
  /\ call[id].at = "network_card"
  /\ call' = [call EXCEPT ![id] = IF yes THEN At(@, "run") ELSE Free]
  /\ network' = (network \/ yes)
  /\ UNCHANGED << quiet, agreed, made, ran >>

(* _run: handed to the executor or to bubblewrap.                           *)
Runs(id) ==
  /\ call[id].at = "run"
  /\ ran' = ran \cup {[cmd |-> call[id].cmd, backed |-> call[id].backed, vetted |-> call[id].vetted,
                       cleared |-> call[id].cleared, ticket |-> call[id].ticket]}
  /\ call' = [call EXCEPT ![id] = Free]
  /\ UNCHANGED << quiet, network, agreed, made >>

Changing == changes < MaxChanges /\ changes' = changes + 1

SavePolicy(p) ==
  /\ Changing /\ policy' = p
  /\ UNCHANGED << mode, allow, network, upload, call, made, agreed, written, ran >>

AddEntry(e) ==
  /\ Changing
  /\ allow' = allow \cup {e} /\ written' = written \cup {e}
  /\ UNCHANGED << mode, policy, network, upload, call, made, agreed, ran >>

DeleteEntry(e) ==
  /\ Changing /\ e \in allow
  /\ allow' = allow \ {e}
  /\ UNCHANGED << mode, policy, network, upload, call, made, agreed, written, ran >>

(* The files to be sent are rewritten.                                      *)
EditUpload(u) ==
  /\ Changing /\ upload' = u
  /\ UNCHANGED << mode, policy, allow, network, call, made, agreed, written, ran >>

ShellNext ==
  \/ \E id \in Calls :
       \/ \E c \in Commands, x \in {"interactive", "task", "channel"},
             g \in Grants \cup {NoGrant}, w \in BOOLEAN, n \in BOOLEAN :
            RunCommand(id, c, x, g, w, n)
       \/ \E v \in {"allow", "ask"} : ShellJudged(id, v)
       \/ \E yes \in BOOLEAN, remember \in BOOLEAN : CardClicked(id, yes, remember)
       \/ \E v \in {"allow", "block", "ask"} : ContentJudged(id, v)
       \/ \E yes \in BOOLEAN : UploadCardClicked(id, yes) \/ NetworkCardClicked(id, yes)
       \/ TicketAsked(id) \/ UploadCheckFails(id) \/ Runs(id)
  \/ \E p \in Policies : SavePolicy(p)
  \/ \E e \in Entries : AddEntry(e)
  \/ \E e \in allow : DeleteEntry(e)
  \/ \E u \in {"clean", "suspect", "block"} : EditUpload(u)

-----------------------------------------------------------------------------
(* The command names protected ground as the shell will see it, and does    *)
(* more to it than look at what is no secret, or deletes /DATA as a whole.  *)
(* What a script, a quoted string or a substitution holds is not named, and *)
(* a deletion of /DATA behind an option's value (`nice -n 10 rm`) is not    *)
(* seen: the code says so of itself (skills/shell.py:490-496).              *)
OnProtected(c) ==
  /\ c.parsed
  /\ \E i \in DOMAIN c.segs :
       LET s == c.segs[i]
           ground == InWorkDir(SegPaths(s))
       IN  \/ ground \cap Secret # {}
           \/ ground \cap Protected # {} /\ s.does \notin {"look", "read"}
           \/ InWorkDir(s.out) \cap Protected # {}
           \/ "mass" \in ground /\ s.does \in {"del", "wipe"} /\ s.under # "kept"

(* An administrator has written an entry for it: one that leaves protected  *)
(* ground out, or one that names the ground.  Of a path that is relative    *)
(* neither is promised, since the list looks it up in another directory.    *)
Vouched(c, entries) ==
  /\ Simple(c)
  /\ \E e \in entries :
       LET named == SegPaths(c.segs[1]) \ Relative
       IN  \/ e.type = "exact" /\ e.cmd = c
           \/ e.type = "prefix" /\ StartsWith(c, e) /\ named \cap Protected = {}
           \/ e.type = "scope" /\ named \subseteq e.on

(* No command on protected ground runs unless a person has said yes to that *)
(* very command, or an administrator's entry vouches for it: no task rule,  *)
(* script, policy, judge or remembered click for another command reaches it *)
(* (skills/shell.py:446-518, permissions.py:203-250,                        *)
(* shell_guard/allowlist.py:41-84).                                         *)
ProtectedAsked ==
  \A r \in ran : OnProtected(r.cmd) => r.cmd \in agreed \/ Vouched(r.cmd, written)

(* A command that the classifier calls dangerous or protected never runs    *)
(* before the backstop was built of every target it names by an absolute    *)
(* path, also where a rule or the policy waived the card                    *)
(* (skills/shell.py:561-588, 659-669).                                      *)
RemovalsBacked ==
  \A r \in ran : Rank(Level(r.cmd)) >= Rank("dangerous") => Touched(r.cmd) \ Relative \subseteq r.backed

(* In netns mode a command that parse_upload takes for an upload to the     *)
(* outside runs only after its files were scanned in this very call and not *)
(* blocked, a suspect one only with the judge's, the policy's or a person's *)
(* consent, and the byte ticket is asked for first - whatever let the       *)
(* command past the guard (skills/shell.py:707-868).  A transfer that is    *)
(* wrapped or comes after another command is not taken for one.             *)
UploadVetted ==
  mode = "netns" => \A r \in ran : Uploads(r.cmd) =>
    /\ r.vetted \in {"clean", "suspect"} /\ r.ticket
    /\ r.vetted = "suspect" => r.cleared \in {"judge", "policy", "click"}

(* The guard as a whole: what a command needed has happened before it runs, *)
(* whichever of the ways past the card it took.                             *)
GuardHolds == ProtectedAsked /\ UploadVetted /\ RemovalsBacked
=============================================================================
