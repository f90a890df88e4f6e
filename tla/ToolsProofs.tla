---------------------------- MODULE ToolsProofs ----------------------------
(***************************************************************************)
(* Proofs about what a run's own tools do to the machine.                  *)
(*                                                                         *)
(* The shell guard (ShellGate): whichever way past the card a command      *)
(* takes, what it needed has happened before it runs, for any commands,    *)
(* policies, allowlist entries and task grants, and any number of calls in *)
(* flight.  What a command names is compared with what the classifier says *)
(* of it and with what an entry covers (GroundIsProtected, MatchAgreed).   *)
(*                                                                         *)
(* File staging (FileStaging): a committed batch has staged all of its     *)
(* operations, for any paths, batches, faults and number of runs.          *)
(*                                                                         *)
(* The executor of commands (ExecService), the approvals of MCP tools      *)
(* (McpApprovals) and the tools and connections that a run's calls share   *)
(* (ToolGating), for any number of processes, orders, probes, servers and  *)
(* tool calls.                                                             *)
(***************************************************************************)
EXTENDS FileStaging, ShellGate, ExecService, McpApprovals, ToolGating, FiniteSetTheorems, TLAPS

ShellSpec == ShellInit /\ [][ShellNext]_shellVars

Contexts == {"interactive", "task", "channel"}
Findings == {"clean", "suspect", "block"}
Consents == {"no", "rules", "judge", "policy", "click"}
Waivers  == {"none", "safe", "allowlist", "rules", "script", "policy", "deferred", "judge", "click"}
Waiting  == {"judge", "card"}                    \* still inside the guard
Onwards  == {"content_judge", "upload_card", "grant", "network_card", "run"}

Places == UNION {Touched(c) : c \in Commands}    \* what commands name

CallRecs == [at : {"guard", "passed"} \cup Waiting \cup Onwards,
             cmd : Commands, context : Contexts, watched : BOOLEAN, net : BOOLEAN,
             how : Waivers, backed : SUBSET Places,
             vetted : {"no"} \cup Findings, cleared : Consents, ticket : BOOLEAN]

ShellTypeOK ==
    /\ mode \in {"netns", "bwrap"}
    /\ upload \in Findings
    /\ call \in [Calls -> CallRecs \cup {Free}]

\* What the allowlist holds was written by an administrator or remembered from a yes.
AllowExplained == allow \subseteq written \cup {Remembered(c) : c \in agreed}

\* People have agreed to this very command, or an entry of theirs vouches for it.
Agreed(c, people, entries) == OnProtected(c) => c \in people \/ Vouched(c, entries)

\* What the backstop can save of a command.
Targets(c) == Touched(c) \ Relative

Backed(c, backed) == Rank(Level(c)) >= Rank("dangerous") => Targets(c) \subseteq backed

\* What the guard owes a call that it lets pass.
Justified(k, people, entries) == Agreed(k.cmd, people, entries) /\ Backed(k.cmd, k.backed)

Scanned(vetted, cleared) ==
    /\ vetted \in {"clean", "suspect"}
    /\ vetted = "suspect" => cleared \in {"judge", "policy", "click"}

\* How far the checks of an upload have come, by the place the call is at.
UploadSound(k) ==
    mode = "netns" /\ Uploads(k.cmd) =>
        /\ k.at # "network_card"
        /\ k.at \in {"content_judge", "upload_card"} => k.vetted = "suspect"
        /\ k.at \in {"grant", "run"} => Scanned(k.vetted, k.cleared)
        /\ k.at = "run" => k.ticket

InGuard(k) ==
    /\ k.at = "judge" => Level(k.cmd) = "gray"
    /\ k.at = "card" => Targets(k.cmd) \subseteq k.backed

CallSound(k, people, entries) ==
    /\ k.at \in Waiting \cup Onwards
    /\ InGuard(k)
    /\ k.at \in Onwards => Justified(k, people, entries) /\ UploadSound(k)

CallsSound == \A id \in Calls : call[id] # Free => CallSound(call[id], agreed, written)

RanSound ==
    \A r \in ran :
        /\ Agreed(r.cmd, agreed, written) /\ Backed(r.cmd, r.backed)
        /\ mode = "netns" /\ Uploads(r.cmd) => Scanned(r.vetted, r.cleared) /\ r.ticket

ShellInv == ShellTypeOK /\ AllowExplained /\ CallsSound /\ RanSound

-----------------------------------------------------------------------------
(* The guard, one call at a time.                                           *)

\* A call that is moved keeps the rest of its record.
LEMMA AtKeeps ==
    ASSUME NEW k \in CallRecs, NEW p \in {"passed"} \cup Waiting \cup Onwards
    PROVE  /\ At(k, p) \in CallRecs
           /\ At(k, p).at = p /\ At(k, p).cmd = k.cmd /\ At(k, p).backed = k.backed
           /\ At(k, p).vetted = k.vetted /\ At(k, p).cleared = k.cleared
           /\ At(k, p).ticket = k.ticket
  BY DEF At, CallRecs

\* A call in flight is not a free slot.
LEMMA InFlight ==
    ASSUME NEW k \in CallRecs PROVE k # Free
  BY DEF CallRecs, Free, Waiting, Onwards

\* No policy, in no context, waives the card of a protected command.
LEMMA NeverByPolicy ==
    ASSUME NEW x PROVE ~Decide("shell", "protected", x)
  BY DEF Decide, ShellAuto

\* The classifier's word for a command on protected ground.
LEMMA GroundIsProtected ==
    ASSUME NEW c, OnProtected(c) PROVE Level(c) = "protected"
<1> DEFINE levels == {ClassifySeg(c.segs, i) : i \in DOMAIN c.segs}
           four == {"safe", "gray", "dangerous", "protected"}
<1>1. levels \subseteq four
  BY DEF ClassifySeg
<1>2. PICK i \in DOMAIN c.segs :
        LET s == c.segs[i]
            ground == InWorkDir(SegPaths(s))
        IN  \/ ground \cap Secret # {}
            \/ ground \cap Protected # {} /\ s.does \notin {"look", "read"}
            \/ InWorkDir(s.out) \cap Protected # {}
            \/ "mass" \in ground /\ s.does \in {"del", "wipe"} /\ s.under # "kept"
  BY DEF OnProtected
<1> DEFINE s == c.segs[i]
           ground == InWorkDir(SegPaths(s))
<1>3. InWorkDir(s.out) \subseteq ground /\ Secret \subseteq Protected
      /\ ("mass" \in ground => "mass" \in SegPaths(s))
  BY DEF InWorkDir, SegPaths, Protected, Relative
<1>4. /\ s.does \notin {"look", "read"} => ~ReadsOnly(s)
      /\ s.does \in {"del", "wipe"} /\ s.under # "kept" => Destructive(s) /\ ~ReadsOnly(s)
  BY DEF ReadsOnly, Destructive, Program
<1>5. ClassifySeg(c.segs, i) = "protected"
  <2> DEFINE grave == \/ (ground \cap Protected) \cap Secret # {}
                      \/ InWorkDir(s.out) \cap Protected # {}
                      \/ DangerousSeg(c.segs, i)
                      \/ ~ReadsOnly(s)
  <2>1. ground \cap Protected # {} /\ grave => ClassifySeg(c.segs, i) = "protected"
    BY DEF ClassifySeg
  <2>2. ground \cap Protected = {} /\ Destructive(s) /\ "mass" \in SegPaths(s)
          => ClassifySeg(c.segs, i) = "protected"
    BY DEF ClassifySeg
  <2> HIDE DEF ground, s
  <2> QED
    BY <1>2, <1>3, <1>4, <2>1, <2>2 DEF ground, s
<1>6. "protected" \in levels
  BY <1>5
<1>7. Level(c) = CHOOSE l \in levels : \A other \in levels : Rank(l) >= Rank(other)
  BY DEF Level, OnProtected
<1> HIDE DEF levels
<1>8. \A other \in four : 3 >= Rank(other) /\ (Rank(other) >= 3 => other = "protected")
  BY DEF Rank
<1>9. \A other \in levels : Rank("protected") >= Rank(other)
  BY <1>1, <1>8 DEF Rank
<1>10. Level(c) \in levels /\ Rank(Level(c)) >= Rank("protected")
  BY <1>6, <1>7, <1>9
<1> QED
  BY <1>1, <1>8, <1>10 DEF Rank

\* An entry that matches vouches for the command: an administrator wrote it, or people have agreed.
LEMMA MatchAgreed ==
    ASSUME AllowExplained, NEW c, AllowlistMatch(c) PROVE Agreed(c, agreed, written)
<1>1. Simple(c) /\ \E e \in allow : EntryMatches(e, c)
  BY DEF AllowlistMatch
<1> PICK e \in allow : EntryMatches(e, c)
  BY <1>1
<1>2. CASE e \in written
  <2> DEFINE named == SegPaths(c.segs[1]) \ Relative
             ground == InOwnDir(SegPaths(c.segs[1]))
  <2>1. named \subseteq ground
    BY DEF InOwnDir, Relative
  <2>2. \/ e.type = "exact" /\ e.cmd = c
        \/ e.type = "prefix" /\ StartsWith(c, e) /\ ground \cap Protected = {}
        \/ e.type = "scope" /\ ground \subseteq e.on
    BY DEF EntryMatches
  <2> HIDE DEF ground
  <2> QED
    BY <1>1, <1>2, <2>1, <2>2 DEF Agreed, Vouched
<1>3. ASSUME NEW d \in agreed, e = Remembered(d) PROVE Agreed(c, agreed, written)
  <2>1. e.type = "exact" /\ e.cmd = d
    BY <1>3 DEF Remembered
  <2>2. d = c
    BY <2>1 DEF EntryMatches
  <2> QED
    BY <2>2 DEF Agreed
<1> QED
  BY <1>2, <1>3 DEF AllowExplained

\* Agreement is never lost: people's clicks and the written entries only grow.
LEMMA AgreedGrows ==
    ASSUME NEW c, NEW A, NEW B, NEW W, NEW V, A \subseteq B, W \subseteq V, Agreed(c, A, W)
    PROVE  Agreed(c, B, V)
  BY DEF Agreed, Vouched

\* The policy or a card settles a suspect upload, or the call is refused.
LEMMA AskUploadSound ==
    ASSUME NEW k \in CallRecs, NEW A, NEW W, Justified(k, A, W), k.vetted = "suspect"
    PROVE  \/ AskUpload(k) = Free
           \/ AskUpload(k) \in CallRecs /\ CallSound(AskUpload(k), A, W)
<1> DEFINE j == [k EXCEPT !.cleared = "policy"]
<1>1. j \in CallRecs /\ j.cmd = k.cmd /\ j.backed = k.backed /\ j.vetted = "suspect"
      /\ j.cleared = "policy"
  BY DEF CallRecs, Consents
<1> HIDE DEF j
<1>2. At(j, "grant") \in CallRecs /\ CallSound(At(j, "grant"), A, W)
  BY <1>1, AtKeeps DEF CallSound, InGuard, UploadSound, Scanned, Justified, Waiting, Onwards
<1>3. At(k, "upload_card") \in CallRecs /\ CallSound(At(k, "upload_card"), A, W)
  BY AtKeeps DEF CallSound, InGuard, UploadSound, Scanned, Justified, Waiting, Onwards
<1>4. AskUpload(k) \in {At(j, "grant"), At(k, "upload_card"), Free}
  BY DEF AskUpload, j
<1> QED
  BY <1>2, <1>3, <1>4

\* The scan refuses, clears, or leaves the upload to the judge, the policy or a card.
LEMMA VetSound ==
    ASSUME ShellTypeOK, NEW k \in CallRecs, NEW A, NEW W, Justified(k, A, W)
    PROVE  \/ Vet(k) = Free
           \/ Vet(k) \in CallRecs /\ CallSound(Vet(k), A, W)
<1> DEFINE j == [k EXCEPT !.vetted = upload]
           l == [j EXCEPT !.cleared = "rules"]
<1>1. j \in CallRecs /\ j.cmd = k.cmd /\ j.backed = k.backed /\ j.vetted = upload
  BY DEF CallRecs, ShellTypeOK
<1>2. l \in CallRecs /\ l.cmd = j.cmd /\ l.backed = j.backed /\ l.vetted = j.vetted
  BY <1>1 DEF CallRecs, Consents
<1> HIDE DEF j, l
<1>3. Justified(j, A, W) /\ Justified(l, A, W)
  BY <1>1, <1>2 DEF Justified
<1>4. CASE upload = "block"
  <2>1. Vet(k) = Free
    BY <1>4 DEF Vet
  <2> QED
    BY <2>1
<1>5. CASE upload = "clean"
  <2>1. Vet(k) = At(l, "grant")
    BY <1>5 DEF Vet, l, j
  <2> QED
    BY <1>1, <1>2, <1>3, <1>5, <2>1, AtKeeps
       DEF CallSound, InGuard, UploadSound, Scanned, Justified, Waiting, Onwards
<1>6. CASE upload = "suspect"
  <2>1. Vet(k) = At(j, "content_judge") \/ Vet(k) = AskUpload(j)
    BY <1>6 DEF Vet, j
  <2>2. At(j, "content_judge") \in CallRecs /\ CallSound(At(j, "content_judge"), A, W)
    BY <1>1, <1>3, <1>6, AtKeeps
       DEF CallSound, InGuard, UploadSound, Scanned, Justified, Waiting, Onwards
  <2>3. \/ AskUpload(j) = Free
        \/ AskUpload(j) \in CallRecs /\ CallSound(AskUpload(j), A, W)
    BY <1>1, <1>3, <1>6, AskUploadSound
  <2> QED
    BY <2>1, <2>2, <2>3
<1> QED
  BY <1>4, <1>5, <1>6 DEF ShellTypeOK, Findings

\* What the guard has let pass is sound wherever it goes next.
LEMMA OnwardSound ==
    ASSUME ShellTypeOK, NEW k \in CallRecs, NEW A, NEW W, Justified(k, A, W)
    PROVE  \/ Onward(k) = Free
           \/ Onward(k) \in CallRecs /\ CallSound(Onward(k), A, W)
<1>1. CASE Onward(k) = Vet(k)
  BY <1>1, VetSound
<1>2. CASE Onward(k) = At(k, "run") /\ ~(mode = "netns" /\ Uploads(k.cmd))
  BY <1>2, AtKeeps DEF CallSound, InGuard, UploadSound, Justified, Waiting, Onwards
<1>3. CASE mode = "bwrap" /\ Onward(k) = At(k, "network_card")
  BY <1>3, AtKeeps DEF CallSound, InGuard, UploadSound, Justified, Waiting, Onwards
<1>4. mode = "netns" \/ mode = "bwrap"
  BY DEF ShellTypeOK
<1>5. CASE mode = "netns"
  <2>1. Onward(k) = IF Uploads(k.cmd) THEN Vet(k) ELSE At(k, "run")
    BY <1>5 DEF Onward
  <2> QED
    BY <1>1, <1>2, <2>1
<1>6. CASE mode = "bwrap"
  <2>1. Onward(k) \in {At(k, "run"), At(k, "network_card"), Free}
    BY <1>6 DEF Onward, AskNetwork
  <2> QED
    BY <1>2, <1>3, <1>6, <2>1
<1> QED
  BY <1>4, <1>5, <1>6

\* The outcome of the guard for a call: refused, still waiting, or let pass.
GuardOutcome(r, A, W) ==
    \/ r = Free
    \/ /\ r \in CallRecs /\ InGuard(r)
       /\ r.at \in {"passed"} \cup Waiting
       /\ r.at = "passed" => Justified(r, A, W)

\* Asking a person builds the backstop first.
LEMMA AskPersonOutcome ==
    ASSUME NEW k \in CallRecs, NEW A, NEW W PROVE GuardOutcome(AskPerson(k), A, W)
<1> DEFINE j == PrepareBackstop(k)
<1>1. j \in CallRecs /\ j.cmd = k.cmd /\ Targets(j.cmd) \subseteq j.backed
  BY DEF CallRecs, PrepareBackstop, Targets, Places
<1> HIDE DEF j
<1>2. AskPerson(k) = At(j, "card") \/ AskPerson(k) = Free
  BY DEF AskPerson, j
<1> QED
  BY <1>1, <1>2, AtKeeps DEF GuardOutcome, InGuard, Waiting

\* A waiver lets the call pass with the backstop that the command needs.
LEMMA WaivedOutcome ==
    ASSUME NEW k \in CallRecs, NEW how \in Waivers, NEW backed \in BOOLEAN, NEW A, NEW W,
           Agreed(k.cmd, A, W), backed \/ Backed(k.cmd, k.backed)
    PROVE  GuardOutcome(At(Waived(k, how, backed), "passed"), A, W)
<1> DEFINE j == Waived(k, how, backed)
<1>1. j \in CallRecs /\ j.cmd = k.cmd /\ Backed(k.cmd, j.backed)
  <2>1. CASE backed
    BY <2>1 DEF Waived, PrepareBackstop, CallRecs, Places, Backed, Targets
  <2>2. CASE ~backed
    BY <2>2 DEF Waived, CallRecs
  <2> QED
    BY <2>1, <2>2
<1> HIDE DEF j
<1>2. At(j, "passed") \in CallRecs /\ At(j, "passed").at = "passed"
      /\ At(j, "passed").cmd = k.cmd /\ At(j, "passed").backed = j.backed
  BY <1>1, AtKeeps
<1>3. GuardOutcome(At(j, "passed"), A, W)
  BY <1>1, <1>2 DEF GuardOutcome, InGuard, Justified, Waiting
<1> QED
  BY <1>3 DEF j

\* Each way past the card leaves the command agreed to where it must be, and backed.
LEMMA GuardCommandOutcome ==
    ASSUME AllowExplained, NEW grant, NEW k \in CallRecs
    PROVE  GuardOutcome(GuardCommand(grant, k), agreed, written)
<1> DEFINE c == k.cmd
           passed(how, backed) == At(Waived(k, how, backed), "passed")
<1>1. ASSUME NEW how \in Waivers, NEW b \in BOOLEAN, Agreed(c, agreed, written),
             b \/ Backed(c, {})
      PROVE  GuardOutcome(passed(how, b), agreed, written)
  <2>1. b \/ Backed(k.cmd, k.backed)
    BY <1>1 DEF Backed
  <2> QED
    BY <1>1, <2>1, WaivedOutcome
<1>2. GuardOutcome(AskPerson(k), agreed, written)
  BY AskPersonOutcome
<1>3. Level(c) # "protected" => Agreed(c, agreed, written)
  BY GroundIsProtected DEF Agreed
<1>4. GraveBacked(c) \in BOOLEAN /\ (GraveBacked(c) \/ Backed(c, {}))
  BY DEF GraveBacked, Backed
<1>5. Touched(c) # {} \/ Backed(c, {})
  BY DEF Backed, Targets
<1>6. Level(c) = "gray" => Backed(c, {})
  BY DEF Backed, Rank
<1>7. Level(c) = "safe" => Backed(c, {})
  BY DEF Backed, Rank
<1> HIDE DEF passed
<1>8. CASE Level(c) = "safe"
  <2>1. GuardCommand(grant, k) = passed("safe", FALSE)
    BY <1>8 DEF GuardCommand, passed
  <2> QED
    BY <1>1, <1>3, <1>7, <1>8, <2>1 DEF Waivers
<1>9. CASE Level(c) # "safe" /\ AllowlistMatch(c)
  <2>1. GuardCommand(grant, k) = passed("allowlist", GraveBacked(c))
    BY <1>9 DEF GuardCommand, passed
  <2>2. Agreed(c, agreed, written)
    BY <1>9, MatchAgreed
  <2> QED
    BY <1>1, <1>4, <2>1, <2>2 DEF Waivers
<1>10. CASE Level(c) # "safe" /\ ~AllowlistMatch(c)
  <2> DEFINE rest ==
        IF RunAllowlistMatch(c, grant.rules) THEN passed("rules", GraveBacked(c))
        ELSE IF RunScriptMatch(c, grant.scripts) THEN passed("script", GraveBacked(c))
        ELSE IF Decide("shell", Level(c), k.context) THEN passed("policy", Touched(c) # {})
        ELSE IF Level(c) # "gray" THEN AskPerson(k)
        ELSE IF Deferred(c) THEN passed("deferred", FALSE)
        ELSE IF JudgeEnabled("shell") THEN At(k, "judge")
        ELSE AskPerson(k)
  <2>1. GuardCommand(grant, k) = rest
    BY <1>10 DEF GuardCommand, passed
  <2>2. CASE RunAllowlistMatch(c, grant.rules)
    BY <1>1, <1>3, <1>4, <2>1, <2>2 DEF RunAllowlistMatch, Waivers
  <2>3. CASE ~RunAllowlistMatch(c, grant.rules) /\ RunScriptMatch(c, grant.scripts)
    BY <1>1, <1>3, <1>4, <2>1, <2>3 DEF RunScriptMatch, Waivers
  <2>4. CASE /\ ~RunAllowlistMatch(c, grant.rules) /\ ~RunScriptMatch(c, grant.scripts)
             /\ Decide("shell", Level(c), k.context)
    <3>1. Level(c) # "protected"
      BY <2>4, NeverByPolicy
    <3>2. GuardOutcome(passed("policy", Touched(c) # {}), agreed, written)
      BY <1>1, <1>3, <1>5, <3>1 DEF Waivers
    <3> QED
      BY <2>1, <2>4, <3>2
  <2>5. CASE /\ ~RunAllowlistMatch(c, grant.rules) /\ ~RunScriptMatch(c, grant.scripts)
             /\ ~Decide("shell", Level(c), k.context)
             /\ Level(c) # "gray"
    BY <1>2, <2>1, <2>5
  <2>6. CASE Level(c) = "gray"
    <3>1. GuardOutcome(passed("deferred", FALSE), agreed, written)
      BY <1>1, <1>3, <1>6, <2>6 DEF Waivers
    <3>2. GuardOutcome(At(k, "judge"), agreed, written)
      BY <2>6, AtKeeps DEF GuardOutcome, InGuard, Waiting
    <3>3. GuardOutcome(passed("policy", Touched(c) # {}), agreed, written)
      BY <1>1, <1>3, <1>5, <2>6 DEF Waivers
    <3> QED
      BY <1>2, <2>1, <2>2, <2>3, <2>6, <3>1, <3>2, <3>3
  <2> QED
    BY <2>2, <2>3, <2>4, <2>5, <2>6
<1> QED
  BY <1>8, <1>9, <1>10

-----------------------------------------------------------------------------
(* The calls together.                                                      *)

\* What people have agreed to and administrators have written never shrinks.
Growing == agreed \subseteq agreed' /\ written \subseteq written'

\* A call that the step leaves alone stays sound.
LEMMA SoundGrows ==
    ASSUME Growing, mode' = mode, NEW k, CallSound(k, agreed, written)
    PROVE  CallSound(k, agreed', written')
<1>1. Agreed(k.cmd, agreed, written) => Agreed(k.cmd, agreed', written')
  BY AgreedGrows DEF Growing
<1> QED
  BY <1>1 DEF CallSound, Justified

\* One call moves to a sound place, or its slot becomes free; nothing runs.
LEMMA OneCallMoves ==
    ASSUME ShellTypeOK, CallsSound, RanSound, Growing,
           NEW id \in Calls, NEW k, call' = [call EXCEPT ![id] = k],
           \/ k = Free
           \/ k \in CallRecs /\ CallSound(k, agreed', written'),
           mode' = mode, upload' = upload, ran' = ran
    PROVE  (ShellTypeOK /\ CallsSound /\ RanSound)'
<1>1. ShellTypeOK'
  BY DEF ShellTypeOK
<1>2. CallsSound'
  <2> SUFFICES ASSUME NEW other \in Calls, call'[other] # Free
               PROVE  CallSound(call[other], agreed, written)'
    BY DEF CallsSound
  <2>1. CallSound(call'[other], agreed', written')
    <3>1. CASE other = id
      BY <3>1 DEF ShellTypeOK
    <3>2. CASE other # id
      <4>1. call'[other] = call[other]
        BY <3>2 DEF ShellTypeOK
      <4>2. CallSound(call[other], agreed, written)
        BY <4>1 DEF CallsSound
      <4> QED
        BY <4>1, <4>2, SoundGrows
    <3> QED
      BY <3>1, <3>2
  <2> QED
    BY <2>1 DEF CallSound, UploadSound
<1>3. RanSound'
  <2> SUFFICES ASSUME NEW r \in ran
               PROVE  Agreed(r.cmd, agreed, written) => Agreed(r.cmd, agreed', written')
    BY DEF RanSound
  <2> QED
    BY AgreedGrows DEF Growing
<1> QED
  BY <1>1, <1>2, <1>3

\* The outcome of the guard takes effect: a call that passed goes on in the same step.
LEMMA Proceeds ==
    ASSUME ShellTypeOK, CallsSound, RanSound, Growing,
           NEW id \in Calls, NEW k, GuardOutcome(k, agreed', written'), Proceed(id, k),
           mode' = mode, upload' = upload, ran' = ran
    PROVE  (ShellTypeOK /\ CallsSound /\ RanSound)'
<1>1. CASE k.at = "passed"
  <2>1. k \in CallRecs /\ Justified(k, agreed', written')
    BY <1>1 DEF GuardOutcome, Free
  <2>2. \/ Onward(k) = Free
        \/ Onward(k) \in CallRecs /\ CallSound(Onward(k), agreed', written')
    BY <2>1, OnwardSound
  <2>3. call' = [call EXCEPT ![id] = Onward(k)]
    BY <1>1 DEF Proceed
  <2> QED
    BY <2>2, <2>3, OneCallMoves
<1>2. CASE k.at # "passed"
  <2>1. call' = [call EXCEPT ![id] = k]
    BY <1>2 DEF Proceed
  <2>2. \/ k = Free
        \/ k \in CallRecs /\ CallSound(k, agreed', written')
    BY <1>2 DEF GuardOutcome, CallSound, Waiting, Onwards
  <2> QED
    BY <2>1, <2>2, OneCallMoves
<1> QED
  BY <1>1, <1>2

\* What a call at a place is, by the invariant.
LEMMA AtPlace ==
    ASSUME ShellTypeOK, CallsSound, NEW id \in Calls, NEW p \in Waiting \cup Onwards,
           call[id].at = p
    PROVE  call[id] \in CallRecs /\ CallSound(call[id], agreed, written)
<1>1. call[id] # Free
  BY DEF Free, Waiting, Onwards
<1> QED
  BY <1>1 DEF ShellTypeOK, CallsSound

\* The steps that leave the allowlist's history alone.
LEMMA ExplainedSteady ==
    ASSUME AllowExplained, UNCHANGED <<allow, agreed, written>> PROVE AllowExplained'
  BY DEF AllowExplained

Sound == ShellTypeOK /\ CallsSound /\ RanSound

\* A call with the guard's outcome: refused, waiting or past the card.
LEMMA RunCommandStep ==
    ASSUME ShellInv, NEW id \in Calls, NEW c \in Commands, NEW x \in Contexts, NEW grant,
           NEW watched \in BOOLEAN, NEW net \in BOOLEAN,
           RunCommand(id, c, x, grant, watched, net)
    PROVE  ShellInv'
<1> DEFINE k == [at |-> "guard", cmd |-> c, context |-> x, watched |-> watched, net |-> net,
                 how |-> "none", backed |-> {},
                 vetted |-> "no", cleared |-> "no", ticket |-> FALSE]
<1>1. k \in CallRecs
  BY DEF CallRecs, Waivers, Consents
<1>2. /\ Proceed(id, GuardCommand(grant, k))
      /\ UNCHANGED <<mode, allow, upload, written, agreed, ran>>
  BY DEF RunCommand, quiet
<1> HIDE DEF k
<1>3. GuardOutcome(GuardCommand(grant, k), agreed', written')
  BY <1>1, <1>2, GuardCommandOutcome DEF ShellInv
<1>4. Growing
  BY <1>2 DEF Growing
<1>5. Sound'
  BY <1>2, <1>3, <1>4, Proceeds DEF ShellInv, Sound
<1>6. AllowExplained'
  BY <1>2, ExplainedSteady DEF ShellInv
<1> QED
  BY <1>5, <1>6 DEF ShellInv, Sound

\* The judge lets a gray command pass, or hands it to a person.
LEMMA ShellJudgedStep ==
    ASSUME ShellInv, NEW id \in Calls, NEW v, ShellJudged(id, v)
    PROVE  ShellInv'
<1> DEFINE k == call[id]
           r == IF v = "allow" THEN At(Waived(k, "judge", Touched(k.cmd) # {}), "passed")
                ELSE AskPerson(k)
<1>1. /\ Proceed(id, r) /\ k.at = "judge"
      /\ UNCHANGED <<mode, allow, upload, written, agreed, ran>>
  BY DEF ShellJudged, quiet
<1>2. k \in CallRecs /\ CallSound(k, agreed, written)
  BY <1>1, AtPlace DEF ShellInv, Waiting
<1>3. Level(k.cmd) = "gray"
  BY <1>1, <1>2 DEF CallSound, InGuard
<1> HIDE DEF k
<1>4. GuardOutcome(AskPerson(k), agreed', written')
  BY <1>2, AskPersonOutcome
<1>5. GuardOutcome(At(Waived(k, "judge", Touched(k.cmd) # {}), "passed"), agreed', written')
  <2>1. Agreed(k.cmd, agreed', written')
    BY <1>3, GroundIsProtected DEF Agreed
  <2>2. (Touched(k.cmd) # {}) \/ Backed(k.cmd, k.backed)
    BY DEF Backed, Targets
  <2>3. "judge" \in Waivers /\ (Touched(k.cmd) # {}) \in BOOLEAN
    BY DEF Waivers
  <2> QED
    BY <1>2, <2>1, <2>2, <2>3, WaivedOutcome
<1>6. GuardOutcome(r, agreed', written')
  BY <1>4, <1>5
<1>7. Growing
  BY <1>1 DEF Growing
<1> HIDE DEF r
<1>8. Sound'
  BY <1>1, <1>6, <1>7, Proceeds DEF ShellInv, Sound
<1>9. AllowExplained'
  BY <1>1, ExplainedSteady DEF ShellInv
<1> QED
  BY <1>8, <1>9 DEF ShellInv, Sound

\* A yes agrees to this very command, and remembers nothing else.
LEMMA CardClickedStep ==
    ASSUME ShellInv, NEW id \in Calls, NEW yes \in BOOLEAN, NEW remember \in BOOLEAN,
           CardClicked(id, yes, remember)
    PROVE  ShellInv'
<1> DEFINE k == call[id]
<1>1. k.at = "card" /\ UNCHANGED <<mode, upload, written, ran>>
  BY DEF CardClicked
<1>2. k \in CallRecs /\ CallSound(k, agreed, written)
  BY <1>1, AtPlace DEF ShellInv, Waiting
<1>3. Targets(k.cmd) \subseteq k.backed
  BY <1>1, <1>2 DEF CallSound, InGuard, CallRecs
<1>4. CASE yes
  <2>1. /\ agreed' = agreed \cup {k.cmd}
        /\ allow' = allow \cup (IF remember THEN {Remembered(k.cmd)} ELSE {})
        /\ Proceed(id, At(Waived(k, "click", FALSE), "passed"))
    BY <1>4 DEF CardClicked
  <2> HIDE DEF k
  <2>2. GuardOutcome(At(Waived(k, "click", FALSE), "passed"), agreed', written')
    <3>1. Agreed(k.cmd, agreed', written')
      BY <2>1 DEF Agreed
    <3>2. Backed(k.cmd, k.backed)
      BY <1>3 DEF Backed
    <3>3. "click" \in Waivers
      BY DEF Waivers
    <3> QED
      BY <1>2, <1>3, <3>1, <3>2, <3>3, WaivedOutcome
  <2>3. Growing
    BY <1>1, <2>1 DEF Growing
  <2>4. Sound'
    BY <1>1, <2>1, <2>2, <2>3, Proceeds DEF ShellInv, Sound
  <2>5. AllowExplained'
    BY <1>1, <2>1 DEF ShellInv, AllowExplained
  <2> QED
    BY <2>4, <2>5 DEF ShellInv, Sound
<1>5. CASE ~yes
  <2>1. /\ call' = [call EXCEPT ![id] = Free]
        /\ UNCHANGED <<agreed, allow>>
    BY <1>5 DEF CardClicked
  <2>2. Growing
    BY <1>1, <2>1 DEF Growing
  <2>3. Sound'
    BY <1>1, <2>1, <2>2, OneCallMoves DEF ShellInv, Sound
  <2>4. AllowExplained'
    BY <1>1, <2>1, ExplainedSteady DEF ShellInv
  <2> QED
    BY <2>3, <2>4 DEF ShellInv, Sound
<1> QED
  BY <1>4, <1>5

\* A call past the guard takes its next check; only its own slot changes.
LEMMA CheckTaken ==
    ASSUME ShellInv, NEW id \in Calls, NEW k, call' = [call EXCEPT ![id] = k],
           \/ k = Free
           \/ k \in CallRecs /\ CallSound(k, agreed, written),
           UNCHANGED <<mode, allow, upload, written, agreed, ran>>
    PROVE  ShellInv'
<1>1. Growing
  BY DEF Growing
<1>2. Sound'
  BY <1>1, OneCallMoves DEF ShellInv, Sound
<1>3. AllowExplained'
  BY ExplainedSteady DEF ShellInv
<1> QED
  BY <1>2, <1>3 DEF ShellInv, Sound

\* The content judge clears a suspect upload, refuses it, or leaves it to a person.
LEMMA ContentJudgedStep ==
    ASSUME ShellInv, NEW id \in Calls, NEW v \in {"allow", "block", "ask"}, ContentJudged(id, v)
    PROVE  ShellInv'
<1> DEFINE k == call[id]
           j == [k EXCEPT !.cleared = "judge"]
<1>1. k.at = "content_judge" /\ UNCHANGED <<mode, allow, upload, written, agreed, ran>>
  BY DEF ContentJudged, quiet
<1>2. k \in CallRecs /\ CallSound(k, agreed, written)
  BY <1>1, AtPlace DEF ShellInv, Onwards
<1>3. Justified(k, agreed, written) /\ UploadSound(k)
  BY <1>1, <1>2 DEF CallSound, Onwards
<1>4. call' = [call EXCEPT ![id] = CASE v = "allow" -> At(j, "grant")
                                      [] v = "block" -> Free
                                      [] v = "ask"   -> AskUpload(k)]
  BY DEF ContentJudged
<1> HIDE DEF k
<1>5. j \in CallRecs /\ j.cmd = k.cmd /\ j.backed = k.backed /\ j.vetted = k.vetted
      /\ j.cleared = "judge"
  BY <1>2 DEF CallRecs, Consents
<1> HIDE DEF j
<1>6. CASE v = "allow"
  <2>1. call' = [call EXCEPT ![id] = At(j, "grant")]
    BY <1>4, <1>6
  <2>2. At(j, "grant") \in CallRecs /\ CallSound(At(j, "grant"), agreed, written)
    BY <1>1, <1>3, <1>5, AtKeeps
       DEF CallSound, InGuard, UploadSound, Scanned, Justified, Waiting, Onwards
  <2> QED
    BY <1>1, <2>1, <2>2, CheckTaken
<1>7. CASE v = "block"
  <2>1. call' = [call EXCEPT ![id] = Free]
    BY <1>4, <1>7
  <2> QED
    BY <1>1, <2>1, CheckTaken
<1>8. CASE v = "ask"
  <2>1. call' = [call EXCEPT ![id] = AskUpload(k)]
    BY <1>4, <1>8
  <2>2. \/ AskUpload(k) = Free
        \/ AskUpload(k) \in CallRecs /\ CallSound(AskUpload(k), agreed, written)
    <3>1. CASE mode = "netns" /\ Uploads(k.cmd)
      BY <1>1, <1>2, <1>3, <3>1, AskUploadSound DEF UploadSound
    <3>2. CASE ~(mode = "netns" /\ Uploads(k.cmd))
      <4> DEFINE l == [k EXCEPT !.cleared = "policy"]
      <4>1. l \in CallRecs /\ l.cmd = k.cmd /\ l.backed = k.backed
        BY <1>2 DEF CallRecs, Consents
      <4>2. AskUpload(k) \in {At(l, "grant"), At(k, "upload_card"), Free}
        BY DEF AskUpload
      <4> HIDE DEF l
      <4>3. At(l, "grant") \in CallRecs /\ CallSound(At(l, "grant"), agreed, written)
        BY <1>3, <3>2, <4>1, AtKeeps
           DEF CallSound, InGuard, UploadSound, Justified, Waiting, Onwards
      <4>4. At(k, "upload_card") \in CallRecs /\ CallSound(At(k, "upload_card"), agreed, written)
        BY <1>2, <1>3, <3>2, AtKeeps
           DEF CallSound, InGuard, UploadSound, Justified, Waiting, Onwards
      <4> QED
        BY <4>2, <4>3, <4>4
    <3> QED
      BY <3>1, <3>2
  <2> QED
    BY <1>1, <2>1, <2>2, CheckTaken
<1> QED
  BY <1>6, <1>7, <1>8

\* A yes to the upload clears it; a no refuses the command.
LEMMA UploadCardStep ==
    ASSUME ShellInv, NEW id \in Calls, NEW yes \in BOOLEAN, UploadCardClicked(id, yes)
    PROVE  ShellInv'
<1> DEFINE k == call[id]
           j == [k EXCEPT !.cleared = "click"]
<1>1. k.at = "upload_card" /\ UNCHANGED <<mode, allow, upload, written, agreed, ran>>
  BY DEF UploadCardClicked, quiet
<1>2. k \in CallRecs /\ CallSound(k, agreed, written)
  BY <1>1, AtPlace DEF ShellInv, Onwards
<1>3. Justified(k, agreed, written) /\ UploadSound(k)
  BY <1>1, <1>2 DEF CallSound, Onwards
<1>4. call' = [call EXCEPT ![id] = IF yes THEN At(j, "grant") ELSE Free]
  BY DEF UploadCardClicked
<1> HIDE DEF k
<1>5. j \in CallRecs /\ j.cmd = k.cmd /\ j.backed = k.backed /\ j.vetted = k.vetted
      /\ j.cleared = "click"
  BY <1>2 DEF CallRecs, Consents
<1> HIDE DEF j
<1>6. At(j, "grant") \in CallRecs /\ CallSound(At(j, "grant"), agreed, written)
  BY <1>1, <1>3, <1>5, AtKeeps
     DEF CallSound, InGuard, UploadSound, Scanned, Justified, Waiting, Onwards
<1>7. PICK r : call' = [call EXCEPT ![id] = r] /\ r \in {At(j, "grant"), Free}
  BY <1>4
<1> QED
  BY <1>1, <1>6, <1>7, CheckTaken

\* The ticket is asked for before the command is sent.
LEMMA TicketStep ==
    ASSUME ShellInv, NEW id \in Calls, TicketAsked(id) PROVE ShellInv'
<1> DEFINE k == call[id]
           j == [k EXCEPT !.ticket = TRUE]
<1>1. k.at = "grant" /\ UNCHANGED <<mode, allow, upload, written, agreed, ran>>
  BY DEF TicketAsked, quiet
<1>2. k \in CallRecs /\ CallSound(k, agreed, written)
  BY <1>1, AtPlace DEF ShellInv, Onwards
<1>3. Justified(k, agreed, written) /\ UploadSound(k)
  BY <1>1, <1>2 DEF CallSound, Onwards
<1>4. call' = [call EXCEPT ![id] = At(j, "run")]
  BY DEF TicketAsked
<1> HIDE DEF k
<1>5. j \in CallRecs /\ j.cmd = k.cmd /\ j.backed = k.backed /\ j.vetted = k.vetted
      /\ j.cleared = k.cleared /\ j.ticket
  BY <1>2 DEF CallRecs
<1> HIDE DEF j
<1>6. At(j, "run") \in CallRecs /\ CallSound(At(j, "run"), agreed, written)
  BY <1>1, <1>3, <1>5, AtKeeps
     DEF CallSound, InGuard, UploadSound, Scanned, Justified, Waiting, Onwards
<1> QED
  BY <1>1, <1>4, <1>6, CheckTaken

\* The network is asked for in bwrap mode only, where nothing vets an upload.
LEMMA NetworkCardStep ==
    ASSUME ShellInv, NEW id \in Calls, NEW yes \in BOOLEAN, NetworkCardClicked(id, yes)
    PROVE  ShellInv'
<1> DEFINE k == call[id]
<1>1. k.at = "network_card" /\ UNCHANGED <<mode, allow, upload, written, agreed, ran>>
  BY DEF NetworkCardClicked, quiet
<1>2. k \in CallRecs /\ CallSound(k, agreed, written)
  BY <1>1, AtPlace DEF ShellInv, Onwards
<1>3. Justified(k, agreed, written) /\ UploadSound(k)
  BY <1>1, <1>2 DEF CallSound, Onwards
<1>4. call' = [call EXCEPT ![id] = IF yes THEN At(k, "run") ELSE Free]
  BY DEF NetworkCardClicked
<1> HIDE DEF k
<1>5. At(k, "run") \in CallRecs /\ CallSound(At(k, "run"), agreed, written)
  BY <1>1, <1>2, <1>3, AtKeeps DEF CallSound, InGuard, UploadSound, Justified, Waiting, Onwards
<1>6. PICK r : call' = [call EXCEPT ![id] = r] /\ r \in {At(k, "run"), Free}
  BY <1>4
<1> QED
  BY <1>1, <1>5, <1>6, CheckTaken

\* What runs has had everything the guard owes it.
LEMMA RunsStep ==
    ASSUME ShellInv, NEW id \in Calls, Runs(id) PROVE ShellInv'
<1> DEFINE k == call[id]
           r == [cmd |-> k.cmd, backed |-> k.backed, vetted |-> k.vetted,
                 cleared |-> k.cleared, ticket |-> k.ticket]
<1>1. /\ k.at = "run" /\ UNCHANGED <<mode, allow, upload, written, agreed>>
      /\ call' = [call EXCEPT ![id] = Free] /\ ran' = ran \cup {r}
  BY DEF Runs, quiet
<1>2. CallSound(k, agreed, written)
  BY <1>1, AtPlace DEF ShellInv, Onwards
<1>3. ShellTypeOK'
  BY <1>1 DEF ShellInv, ShellTypeOK
<1>4. AllowExplained'
  BY <1>1, ExplainedSteady DEF ShellInv
<1>5. CallsSound'
  <2> SUFFICES ASSUME NEW other \in Calls, call'[other] # Free
               PROVE  CallSound(call[other], agreed, written)'
    BY DEF CallsSound
  <2>1. call'[other] = call[other] /\ call[other] # Free
    BY <1>1 DEF ShellInv, ShellTypeOK
  <2>2. CallSound(call[other], agreed, written)
    BY <2>1 DEF ShellInv, CallsSound
  <2> QED
    BY <1>1, <2>1, <2>2 DEF CallSound, UploadSound
<1>6. /\ Agreed(k.cmd, agreed, written) /\ Backed(k.cmd, k.backed)
      /\ mode = "netns" /\ Uploads(k.cmd) => Scanned(k.vetted, k.cleared) /\ k.ticket
  BY <1>1, <1>2 DEF CallSound, Justified, UploadSound, Onwards
<1>7. r.cmd = k.cmd /\ r.backed = k.backed /\ r.vetted = k.vetted /\ r.cleared = k.cleared
      /\ r.ticket = k.ticket
  OBVIOUS
<1> HIDE DEF r, k
<1>8. RanSound'
  <2> SUFFICES ASSUME NEW q \in ran \cup {r}
               PROVE  /\ Agreed(q.cmd, agreed, written) /\ Backed(q.cmd, q.backed)
                      /\ mode = "netns" /\ Uploads(q.cmd) => Scanned(q.vetted, q.cleared) /\ q.ticket
    BY <1>1 DEF RanSound
  <2>1. CASE q \in ran
    BY <2>1 DEF ShellInv, RanSound
  <2>2. CASE q = r
    BY <1>6, <1>7, <2>2
  <2> QED
    BY <2>1, <2>2
<1> QED
  BY <1>3, <1>4, <1>5, <1>8 DEF ShellInv

\* The calls in flight do not notice that the policy, the allowlist or the files change.
LEMMA ChangesStep ==
    ASSUME ShellInv,
           \/ \E p \in Policies : SavePolicy(p)
           \/ \E e \in Entries : AddEntry(e)
           \/ \E e \in allow : DeleteEntry(e)
           \/ \E u \in Findings : EditUpload(u)
           \/ UNCHANGED shellVars
    PROVE  ShellInv'
<1>1. /\ UNCHANGED <<mode, call, agreed, ran>> /\ upload' \in Findings
      /\ written \subseteq written'
  BY DEF SavePolicy, AddEntry, DeleteEntry, EditUpload, shellVars, ShellInv, ShellTypeOK
<1>2. AllowExplained'
  BY DEF SavePolicy, AddEntry, DeleteEntry, EditUpload, shellVars, ShellInv, AllowExplained
<1>3. ShellTypeOK'
  BY <1>1 DEF ShellInv, ShellTypeOK
<1>4. Growing
  BY <1>1 DEF Growing
<1>5. CallsSound'
  <2> SUFFICES ASSUME NEW id \in Calls, call[id] # Free
               PROVE  CallSound(call[id], agreed, written)'
    BY <1>1 DEF CallsSound
  <2>1. CallSound(call[id], agreed', written')
    BY <1>1, <1>4, SoundGrows DEF ShellInv, CallsSound
  <2> QED
    BY <1>1, <2>1 DEF CallSound, UploadSound
<1>6. RanSound'
  <2> SUFFICES ASSUME NEW r \in ran
               PROVE  Agreed(r.cmd, agreed, written) => Agreed(r.cmd, agreed', written')
    BY <1>1 DEF ShellInv, RanSound
  <2> QED
    BY <1>4, AgreedGrows DEF Growing
<1> QED
  BY <1>2, <1>3, <1>5, <1>6 DEF ShellInv

-----------------------------------------------------------------------------
\* Every reachable state of the guard satisfies the invariant.
LEMMA ShellInductive == ShellSpec => []ShellInv
<1>1. ShellInit => ShellInv
  BY DEF ShellInit, ShellInv, ShellTypeOK, AllowExplained, CallsSound, RanSound, Findings
<1>2. ShellInv /\ [ShellNext]_shellVars => ShellInv'
  <2> SUFFICES ASSUME ShellInv, [ShellNext]_shellVars PROVE ShellInv'
    OBVIOUS
  <2>1. CASE \E p \in Policies : SavePolicy(p)
    BY <2>1, ChangesStep
  <2>2. CASE \E e \in Entries : AddEntry(e)
    BY <2>2, ChangesStep
  <2>3. CASE \E e \in allow : DeleteEntry(e)
    BY <2>3, ChangesStep
  <2>4. CASE \E u \in {"clean", "suspect", "block"} : EditUpload(u)
    BY <2>4, ChangesStep DEF Findings
  <2>5. CASE UNCHANGED shellVars
    BY <2>5, ChangesStep
  <2>6. ASSUME NEW id \in Calls, UploadCheckFails(id) PROVE ShellInv'
    <3>1. /\ call' = [call EXCEPT ![id] = Free]
          /\ UNCHANGED <<mode, allow, upload, written, agreed, ran>>
      BY <2>6 DEF UploadCheckFails, quiet
    <3> QED
      BY <3>1, CheckTaken
  <2>7. ASSUME NEW id \in Calls, NEW c \in Commands, NEW x \in {"interactive", "task", "channel"},
               NEW g \in Grants \cup {NoGrant}, NEW w \in BOOLEAN, NEW n \in BOOLEAN,
               RunCommand(id, c, x, g, w, n)
        PROVE  ShellInv'
    BY <2>7, RunCommandStep DEF Contexts
  <2>8. ASSUME NEW id \in Calls, NEW v \in {"allow", "ask"}, ShellJudged(id, v) PROVE ShellInv'
    BY <2>8, ShellJudgedStep
  <2>9. ASSUME NEW id \in Calls, NEW yes \in BOOLEAN, NEW remember \in BOOLEAN,
               CardClicked(id, yes, remember)
        PROVE  ShellInv'
    BY <2>9, CardClickedStep
  <2>10. ASSUME NEW id \in Calls, NEW v \in {"allow", "block", "ask"}, ContentJudged(id, v)
         PROVE  ShellInv'
    BY <2>10, ContentJudgedStep
  <2>11. ASSUME NEW id \in Calls, NEW yes \in BOOLEAN,
                UploadCardClicked(id, yes) \/ NetworkCardClicked(id, yes)
         PROVE  ShellInv'
    BY <2>11, UploadCardStep, NetworkCardStep
  <2>12. ASSUME NEW id \in Calls, TicketAsked(id) \/ Runs(id) PROVE ShellInv'
    BY <2>12, TicketStep, RunsStep
  <2>13. CASE \E id \in Calls, c \in Commands, x \in {"interactive", "task", "channel"},
                 g \in Grants \cup {NoGrant}, w \in BOOLEAN, n \in BOOLEAN :
               RunCommand(id, c, x, g, w, n)
    BY <2>7, <2>13, Zenon
  <2>14. CASE \E id \in Calls :
              \/ \E v \in {"allow", "ask"} : ShellJudged(id, v)
              \/ \E yes \in BOOLEAN, remember \in BOOLEAN : CardClicked(id, yes, remember)
              \/ \E v \in {"allow", "block", "ask"} : ContentJudged(id, v)
              \/ \E yes \in BOOLEAN : UploadCardClicked(id, yes) \/ NetworkCardClicked(id, yes)
              \/ TicketAsked(id) \/ UploadCheckFails(id) \/ Runs(id)
    BY <2>6, <2>8, <2>9, <2>10, <2>11, <2>12, <2>14, Zenon
  <2>15. ShellNext \/ UNCHANGED shellVars
    OBVIOUS
  <2> QED
    BY <2>1, <2>2, <2>3, <2>4, <2>5, <2>13, <2>14, <2>15, Zenon DEF ShellNext
<1> QED
  BY <1>1, <1>2, PTL DEF ShellSpec

\* No command on protected ground runs without a person's yes to it or an administrator's
\* entry that vouches for it, no command taken for an upload leaves unvetted, and what a grave
\* command names by an absolute path was backed up first - whichever of the ways past the card it took (skills/shell.py:446-868).
THEOREM GuardAlwaysHolds == ShellSpec => []GuardHolds
<1>1. ShellInv => GuardHolds
  <2> SUFFICES ASSUME ShellInv, NEW r \in ran
               PROVE  /\ OnProtected(r.cmd) => r.cmd \in agreed \/ Vouched(r.cmd, written)
                      /\ Rank(Level(r.cmd)) >= Rank("dangerous") => Targets(r.cmd) \subseteq r.backed
                      /\ mode = "netns" /\ Uploads(r.cmd) => Scanned(r.vetted, r.cleared) /\ r.ticket
    BY DEF GuardHolds, ProtectedAsked, RemovalsBacked, UploadVetted, Scanned, Targets
  <2> QED
    BY DEF ShellInv, RanSound, Agreed, Backed
<1> QED
  BY <1>1, ShellInductive, PTL

(***************************************************************************)
(* File staging.  A batch is committed by a fold over its operations and   *)
(* an undo by a fold over its rows; a fold is a recursive function, so     *)
(* what it returns needs an induction.  That is obtained from the          *)
(* pigeonhole theorem of FiniteSetTheorems: were some m not in X, the      *)
(* successor would map the numbers of X below m into themselves, one to    *)
(* one and so onto them, and nothing is mapped to 0.                       *)
(***************************************************************************)

\* A set of numbers that holds 0 and the successor of each of its members is Nat.
LEMMA NatInductive ==
  ASSUME NEW X \in SUBSET Nat, 0 \in X, \A n \in X : n + 1 \in X
  PROVE  X = Nat
<1> SUFFICES ASSUME NEW m \in Nat, m \notin X PROVE FALSE
  OBVIOUS
<1> DEFINE S == {k \in 0 .. m : k \in X}
           f == [k \in S |-> k + 1]
<1>1. IsFiniteSet(S)
  <2>1. IsFiniteSet(0 .. m)
    BY FS_Interval
  <2> QED BY <2>1, FS_Subset
<1>2. f \in Injection(S, S)
  BY DEF Injection, IsInjective
<1>3. f \in Surjection(S, S)
  BY <1>1, <1>2, FS_Injection
<1>4. 0 \in S
  OBVIOUS
<1>5. \E k \in S : f[k] = 0
  BY <1>3, <1>4 DEF Surjection
<1> QED
  BY <1>5

\* A bound that is attained is the maximum.
LEMMA MaxIs ==
  ASSUME NEW n \in Nat, NEW s \in SUBSET (1 .. n), n \in s
  PROVE  Max(s) = n
<1>1. \E x \in s : \A y \in s : x >= y
  OBVIOUS
<1>2. Max(s) \in s /\ \A y \in s : Max(s) >= y
  BY <1>1, Zenon DEF Max
<1>3. Max(s) \in 1 .. n /\ Max(s) >= n
  BY <1>2
<1> QED
  BY <1>3

UndoBase == [disk |-> disk, rows |-> rows, failed |-> FALSE, halt |-> FALSE]

\* f lists the states an undo goes through.
UndoSteps(f, N, rowOrder, bad, stops) ==
    /\ f[0] = UndoBase
    /\ f[N] = Undo(rowOrder, bad, stops)
    /\ \A n \in 1 .. N : f[n] = UndoRow(f[n - 1], rowOrder[n], bad, stops)

\* An undo goes through one state after each row.
LEMMA UndoFold ==
  ASSUME NEW N \in Nat, NEW rowOrder, DOMAIN rowOrder = 1 .. N, NEW bad, NEW stops
  PROVE  \E f : UndoSteps(f, N, rowOrder, bad, stops)
<1> DEFINE Eq(it, n) == it = [s \in SUBSET (1 .. n) |->
                                IF s = {} THEN UndoBase
                                ELSE UndoRow(it[s \ {Max(s)}], rowOrder[Max(s)], bad, stops)]
           X == {n \in Nat : \E it : Eq(it, n)}
<1>1. 0 \in X
  <2> DEFINE it == [s \in SUBSET (1 .. 0) |-> UndoBase]
  <2>1. \A s \in SUBSET (1 .. 0) : s = {}
    OBVIOUS
  <2>2. Eq(it, 0)
    BY <2>1
  <2> QED BY <2>2
<1>2. ASSUME NEW n \in X PROVE n + 1 \in X
  <2>1. PICK g : Eq(g, n)
    BY <1>2
  <2> DEFINE it == [s \in SUBSET (1 .. n + 1) |->
                      IF n + 1 \in s THEN UndoRow(g[s \ {n + 1}], rowOrder[n + 1], bad, stops)
                      ELSE g[s]]
  <2>2. ASSUME NEW s \in SUBSET (1 .. n + 1)
        PROVE  it[s] = IF s = {} THEN UndoBase
                       ELSE UndoRow(it[s \ {Max(s)}], rowOrder[Max(s)], bad, stops)
    <3>1. CASE n + 1 \in s
      <4>1. Max(s) = n + 1
        BY <3>1, MaxIs
      <4>2. s \ {n + 1} \in SUBSET (1 .. n + 1) /\ n + 1 \notin s \ {n + 1}
        OBVIOUS
      <4>3. it[s \ {n + 1}] = g[s \ {n + 1}]
        BY <4>2
      <4> QED BY <3>1, <4>1, <4>3
    <3>2. CASE n + 1 \notin s
      <4>1. s \in SUBSET (1 .. n)
        BY <3>2
      <4>2. it[s] = g[s]
        BY <3>2
      <4>3. g[s] = IF s = {} THEN UndoBase
                       ELSE UndoRow(g[s \ {Max(s)}], rowOrder[Max(s)], bad, stops)
        BY <2>1, <4>1
      <4>4. s \ {Max(s)} \in SUBSET (1 .. n + 1) /\ n + 1 \notin s \ {Max(s)}
        BY <3>2
      <4>5. it[s \ {Max(s)}] = g[s \ {Max(s)}]
        BY <4>4
      <4> QED BY <4>2, <4>3, <4>5
    <3> QED BY <3>1, <3>2
  <2>3. Eq(it, n + 1)
    BY <2>2, Zenon
  <2> HIDE DEF it
  <2>4. n + 1 \in Nat
    OBVIOUS
  <2>5. \E h : Eq(h, n + 1)
    BY <2>3, Zenon
  <2> HIDE DEF Eq
  <2> QED BY <2>4, <2>5, Zenon
<1>3. PICK g : Eq(g, N)
  <2> HIDE DEF Eq
  <2>1. X = Nat
    BY <1>1, <1>2, NatInductive
  <2> QED BY <2>1
<1> DEFINE it == CHOOSE iter : Eq(iter, N)
<1>4. Eq(it, N)
  BY <1>3, Zenon
<1>5. Undo(rowOrder, bad, stops) = it[1 .. N]
  BY Zenon DEF Undo, FoldLeft, MapThenFoldSet, UndoBase
<1> HIDE DEF it
<1>6. \A s \in SUBSET (1 .. N) :
         it[s] = IF s = {} THEN UndoBase ELSE UndoRow(it[s \ {Max(s)}], rowOrder[Max(s)], bad, stops)
  BY <1>4
<1> DEFINE f == [n \in 0 .. N |-> it[1 .. n]]
<1>7. f[0] = UndoBase
  <2>1. 1 .. 0 \in SUBSET (1 .. N) /\ 1 .. 0 = {}
    OBVIOUS
  <2>2. it[1 .. 0] = UndoBase
    BY <1>6, <2>1, Zenon
  <2> QED BY <2>2
<1>8. f[N] = Undo(rowOrder, bad, stops)
  BY <1>5
<1>9. ASSUME NEW n \in 1 .. N PROVE f[n] = UndoRow(f[n - 1], rowOrder[n], bad, stops)
  <2>1. 1 .. n \in SUBSET (1 .. N) /\ 1 .. n # {}
    <3>1. 1 .. n \in SUBSET (1 .. N)
      OBVIOUS
    <3>2. 1 \in 1 .. n
      OBVIOUS
    <3> QED BY <3>1, <3>2
  <2>2. Max(1 .. n) = n
    BY MaxIs
  <2>3. (1 .. n) \ {n} = 1 .. n - 1
    OBVIOUS
  <2>4. it[1 .. n] = UndoRow(it[1 .. n - 1], rowOrder[n], bad, stops)
    BY <1>6, <2>1, <2>2, <2>3, Zenon
  <2> QED BY <2>4
<1> HIDE DEF f
<1> QED
  BY <1>7, <1>8, <1>9 DEF UndoSteps

\* The columns of a row of staged_changes.
RowFields == {"run", "seq", "op", "path", "dst", "snap", "tar", "batch", "st"}

\* What a row was staged for.
Label(r) == <<r.batch, r.op, r.path, r.dst>>

\* q is the list of rows, but for the state of each.
SameBatches(q) ==
    /\ \E S : q \in Seq(S)
    /\ Len(q) = Len(rows)
    /\ \A i \in 1 .. Len(rows) : DOMAIN q[i] = RowFields /\ Label(q[i]) = Label(rows[i])

RowsInv ==
    /\ \E S : rows \in Seq(S)
    /\ \A i \in 1 .. Len(rows) : DOMAIN rows[i] = RowFields /\ rows[i].batch \in 0 .. Len(batches)
    /\ \E S : batches \in Seq(S)

\* Undoing a row leaves every row in its batch.
LEMMA UndoRowKeeps ==
  ASSUME NEW s, DOMAIN s = {"disk", "rows", "failed", "halt"}, SameBatches(s.rows),
         NEW i \in 1 .. Len(rows), NEW bad, NEW stops
  PROVE  LET u == UndoRow(s, i, bad, stops)
         IN  DOMAIN u = {"disk", "rows", "failed", "halt"} /\ SameBatches(u.rows)
<1> DEFINE u == UndoRow(s, i, bad, stops)
           res == IF i \in bad THEN Raise(s.disk, "os") ELSE ReplayReverse(s.disk, rows[i])
<1> SUFFICES DOMAIN u = {"disk", "rows", "failed", "halt"} /\ SameBatches(u.rows)
  OBVIOUS
<1>1. \/ u = s
      \/ u = [s EXCEPT !.disk = res.disk, !.rows[i].st = "reverted"]
      \/ u = [s EXCEPT !.failed = TRUE, !.halt = stops /\ res.err = "notempty"]
  <2> HIDE DEF res
  <2>1. u = CASE s.halt -> s
              [] ~s.halt /\ res.err = "none" -> [s EXCEPT !.disk = res.disk, !.rows[i].st = "reverted"]
              [] OTHER -> [s EXCEPT !.failed = TRUE, !.halt = stops /\ res.err = "notempty"]
    BY DEF UndoRow, res
  <2> HIDE DEF u
  <2> QED BY <2>1
<1> HIDE DEF u, res
<1>2. CASE u = s
  BY <1>2
<1>3. CASE u = [s EXCEPT !.failed = TRUE, !.halt = stops /\ res.err = "notempty"]
  BY <1>3
<1>4. CASE u = [s EXCEPT !.disk = res.disk, !.rows[i].st = "reverted"]
  <2> DEFINE q == [s.rows EXCEPT ![i] = [s.rows[i] EXCEPT !.st = "reverted"]]
  <2>1. DOMAIN u = {"disk", "rows", "failed", "halt"} /\ u.rows = q
    BY <1>4
  <2>2. PICK S : s.rows \in Seq(S)
    BY DEF SameBatches
  <2>3. q \in Seq(S \cup {[s.rows[i] EXCEPT !.st = "reverted"]}) /\ Len(q) = Len(s.rows)
    BY <2>2 DEF SameBatches
  <2>4. Len(q) = Len(rows) /\ \A k \in 1 .. Len(rows) : DOMAIN q[k] = RowFields /\ Label(q[k]) = Label(rows[k])
    BY <2>2, <2>3 DEF SameBatches, RowFields, Label
  <2> QED
    BY <2>1, <2>3, <2>4 DEF SameBatches
<1> QED
  BY <1>1, <1>2, <1>3, <1>4

\* So does a whole undo, by induction over its rows.
LEMMA UndoKeeps ==
  ASSUME RowsInv, NEW is \in SUBSET (DOMAIN rows), NEW rowOrder \in SetToSeqs(is), NEW bad, NEW stops
  PROVE  SameBatches(Undo(rowOrder, bad, stops).rows)
<1> DEFINE N == Cardinality(is)
<1>1. N \in Nat /\ rowOrder \in [1 .. N -> 1 .. Len(rows)]
  <2>1. is \in SUBSET (1 .. Len(rows)) /\ Len(rows) \in Nat
    BY DEF RowsInv
  <2>2. IsFiniteSet(1 .. Len(rows))
    BY <2>1, FS_Interval
  <2>3. N \in Nat
    BY <2>1, <2>2, FS_Subset, FS_CardinalityType
  <2> QED
    BY <2>1, <2>3 DEF SetToSeqs
<1> HIDE DEF N
<1>2. PICK f : UndoSteps(f, N, rowOrder, bad, stops)
  <2>1. N \in Nat /\ DOMAIN rowOrder = 1 .. N
    BY <1>1
  <2> QED
    BY <2>1, UndoFold
<1> DEFINE Good(n) == DOMAIN f[n] = {"disk", "rows", "failed", "halt"} /\ SameBatches(f[n].rows)
           X == {n \in Nat : n <= N => Good(n)}
<1>3. 0 \in X
  BY <1>2 DEF UndoSteps, UndoBase, SameBatches, RowsInv
<1>4. ASSUME NEW n \in X PROVE n + 1 \in X
  <2> SUFFICES ASSUME n + 1 <= N PROVE Good(n + 1)
    OBVIOUS
  <2>1. Good(n) /\ n \in Nat
    BY <1>1
  <2>2. f[n + 1] = UndoRow(f[n], rowOrder[n + 1], bad, stops)
    BY <1>1, <1>2, <2>1 DEF UndoSteps
  <2>3. rowOrder[n + 1] \in 1 .. Len(rows)
    BY <1>1, <2>1
  <2> QED
    BY <2>1, <2>2, <2>3, UndoRowKeeps
<1> HIDE DEF Good
<1>5. Good(N)
  <2>1. X = Nat
    BY <1>3, <1>4, NatInductive
  <2> QED
    BY <1>1, <2>1
<1> QED
  BY <1>2, <1>5 DEF Good, UndoSteps

CommitBase == [disk |-> disk, rows |-> rows, snaps |-> snaps, halt |-> FALSE]

\* The fold of a batch, written out: a batch is a pair of operations.
LEMMA CommitFold ==
  ASSUME NEW ops, DOMAIN ops = 1 .. 2, NEW b, NEW refused
  PROVE  FoldLeft(LAMBDA t, o : CommitOp(b, refused, t, o), CommitBase, ops)
           = CommitOp(b, refused, CommitOp(b, refused, CommitBase, ops[1]), ops[2])
<1> DEFINE Eq(it) == it = [s \in SUBSET (1 .. 2) |->
                             IF s = {} THEN CommitBase
                             ELSE CommitOp(b, refused, it[s \ {Max(s)}], ops[Max(s)])]
           first == CommitOp(b, refused, CommitBase, ops[1])
           g == [s \in SUBSET (1 .. 2) |->
                   IF s = {} THEN CommitBase
                   ELSE IF s = {1} THEN first
                   ELSE IF s = {2} THEN CommitOp(b, refused, CommitBase, ops[2])
                   ELSE CommitOp(b, refused, first, ops[2])]
<1>1. /\ Max({1}) = 1 /\ Max({2}) = 2 /\ Max({1, 2}) = 2
      /\ 1 .. 2 = {1, 2} /\ {1} \ {1} = {} /\ {2} \ {2} = {} /\ {1, 2} \ {2} = {1}
  <2>1. {1} \in SUBSET (1 .. 1) /\ {2} \in SUBSET (1 .. 2) /\ {1, 2} \in SUBSET (1 .. 2)
    OBVIOUS
  <2> QED
    BY <2>1, MaxIs
<1>2. \A s \in SUBSET (1 .. 2) : s = {} \/ s = {1} \/ s = {2} \/ s = {1, 2}
  BY <1>1
<1>3. Eq(g)
  <2> SUFFICES ASSUME NEW s \in SUBSET (1 .. 2)
               PROVE  g[s] = IF s = {} THEN CommitBase
                             ELSE CommitOp(b, refused, g[s \ {Max(s)}], ops[Max(s)])
    BY Zenon
  <2>1. {} \in SUBSET (1 .. 2) /\ {1} \in SUBSET (1 .. 2)
    OBVIOUS
  <2>2. g[{}] = CommitBase /\ g[{1}] = first
    BY <2>1
  <2> HIDE DEF first
  <2>3. CASE s = {}
    BY <2>2, <2>3
  <2>4. CASE s = {1}
    BY <1>1, <2>2, <2>4 DEF first
  <2>5. CASE s = {2}
    BY <1>1, <2>2, <2>5
  <2>6. CASE s = {1, 2}
    BY <1>1, <2>2, <2>6
  <2> QED
    BY <1>2, <2>3, <2>4, <2>5, <2>6
<1> DEFINE it == CHOOSE iter : Eq(iter)
<1>4. Eq(it)
  BY <1>3, Zenon
<1>5. FoldLeft(LAMBDA t, o : CommitOp(b, refused, t, o), CommitBase, ops) = it[1 .. 2]
  BY Zenon DEF FoldLeft, MapThenFoldSet
<1> HIDE DEF it, g
<1>6. {} \in SUBSET (1 .. 2) /\ {1} \in SUBSET (1 .. 2) /\ {1, 2} \in SUBSET (1 .. 2)
  OBVIOUS
<1>9. \A s \in SUBSET (1 .. 2) :
         it[s] = IF s = {} THEN CommitBase ELSE CommitOp(b, refused, it[s \ {Max(s)}], ops[Max(s)])
  BY <1>4, Zenon
<1>10. {1} # {} /\ {1, 2} # {}
  OBVIOUS
<1>7. it[{}] = CommitBase /\ it[{1}] = first
  BY <1>1, <1>6, <1>9, <1>10, Zenon
<1>8. it[{1, 2}] = CommitOp(b, refused, first, ops[2])
  <2>1. it[{1, 2}] = CommitOp(b, refused, it[{1, 2} \ {Max({1, 2})}], ops[Max({1, 2})])
    BY <1>6, <1>9, <1>10, Zenon
  <2>2. Max({1, 2}) = 2 /\ {1, 2} \ {Max({1, 2})} = {1}
    BY <1>1
  <2> HIDE DEF first
  <2> QED
    BY <1>7, <2>1, <2>2, Zenon
<1>11. 1 .. 2 = {1, 2}
  BY <1>1
<1> QED
  BY <1>5, <1>8, <1>11, Zenon

StateFields == {"disk", "rows", "snaps", "halt"}

\* u is s after operation o of batch b was staged.
OpDone(u, s, o, b) ==
    /\ DOMAIN u = StateFields /\ u.halt = FALSE /\ u.disk = Effect(s.disk, o)
    /\ \E r : DOMAIN r = RowFields /\ r.batch = b /\ Stages(r, o) /\ u.rows = Append(s.rows, r)

\* An operation whose check passes is staged, and its row is the last one.
LEMMA OpStaged ==
  ASSUME NEW s, DOMAIN s = StateFields, s.halt = FALSE,
         NEW o \in Operations, Valid(s.disk, o), NEW b, NEW refused, o \notin refused
  PROVE  OpDone(CommitOp(b, refused, s, o), s, o, b)
<1> DEFINE t == [disk |-> s.disk, rows |-> s.rows, snaps |-> s.snaps]
           u == CommitOp(b, refused, s, o)
           w == CASE o.op = "mkdir" -> StageMkdir(t, o.path, b)
                  [] o.op = "rename" -> StageRename(t, o.path, o.dst, b)
                  [] o.op = "delete" -> StageDelete(t, o.path, b)
<1>1. u = [disk |-> w.disk, rows |-> w.rows, snaps |-> w.snaps, halt |-> FALSE]
  <2> HIDE DEF w, t
  <2>1. u = CASE s.halt -> s
              [] ~s.halt /\ ~Valid(s.disk, o) -> [s EXCEPT !.halt = o.op = "rename"]
              [] ~s.halt /\ Valid(s.disk, o) /\ o \in refused -> [s EXCEPT !.halt = TRUE]
              [] OTHER -> [disk |-> w.disk, rows |-> w.rows, snaps |-> w.snaps, halt |-> FALSE]
    BY Zenon DEF CommitOp, w, t
  <2> HIDE DEF u
  <2> QED BY <2>1
<1> HIDE DEF u
<1>7. t.disk = s.disk /\ t.rows = s.rows /\ DOMAIN t = {"disk", "rows", "snaps"}
  OBVIOUS
<1> HIDE DEF t
<1> DEFINE OpOk(op) == IF o.op = "delete" THEN op \in {"delete_file", "delete_dir"} ELSE op = o.op
<1>2. w.disk = Effect(s.disk, o) /\ \E op, snap, tar : OpOk(op) /\ w.rows = Record(t, op, o.path, o.dst, snap, tar, b)
  <2>1. CASE \E p \in Files : o = MkdirOp(p)
    <3>1. PICK p \in Files : o = MkdirOp(p)
      BY <2>1
    <3>2. o.op = "mkdir" /\ o.path = p /\ o.dst = None
      BY <3>1 DEF MkdirOp
    <3>3. w = StageMkdir(t, p, b)
      BY <3>2
    <3>5. Effect(s.disk, o) = [s.disk EXCEPT ![p] = Dir]
      BY <3>2 DEF Effect
    <3> HIDE DEF w
    <3>4. w.rows = Record(t, "mkdir", p, None, 0, FALSE, b) /\ w.disk = [t.disk EXCEPT ![p] = Dir]
      BY <1>7, <3>3 DEF StageMkdir
    <3>6. w.disk = Effect(s.disk, o)
      BY <1>7, <3>4, <3>5
    <3>7. \E op, snap, tar : OpOk(op) /\ w.rows = Record(t, op, o.path, o.dst, snap, tar, b)
      BY <3>2, <3>4, Zenon
    <3> QED
      BY <3>6, <3>7
  <2>2. CASE \E p, q \in Files : o = RenameOp(p, q)
    <3>1. PICK p \in Files, q \in Files : o = RenameOp(p, q)
      BY <2>2
    <3>2. o.op = "rename" /\ o.path = p /\ o.dst = q
      BY <3>1 DEF RenameOp
    <3>3. w = StageRename(t, p, q, b)
      BY <3>2
    <3>4. w.rows = Record(t, "rename", p, q, 0, FALSE, b) /\ w.disk = Moved(t.disk, p, q)
      BY <1>7, <3>3 DEF StageRename
    <3>5. Effect(s.disk, o) = Moved(s.disk, p, q)
      BY <3>2 DEF Effect
    <3> HIDE DEF w
    <3>6. w.disk = Effect(s.disk, o)
      BY <1>7, <3>4, <3>5
    <3>7. \E op, snap, tar : OpOk(op) /\ w.rows = Record(t, op, o.path, o.dst, snap, tar, b)
      BY <3>2, <3>4, Zenon
    <3> QED
      BY <3>6, <3>7
  <2>3. CASE \E p \in Files : o = DeleteOp(p)
    <3>1. PICK p \in Files : o = DeleteOp(p)
      BY <2>3
    <3>2. o.op = "delete" /\ o.path = p /\ o.dst = None
      BY <3>1 DEF DeleteOp
    <3>3. w = StageDelete(t, p, b)
      BY <3>2
    <3> DEFINE tar == t.disk[p] = Dir
               snap == CASE ~tar -> FileSnap(t, p)
                         [] tar /\ Inside(t.disk, p) # {} -> Len(t.rows) + 1
                         [] OTHER -> 0
               op == IF tar THEN "delete_dir" ELSE "delete_file"
    <3>8. w = [disk |-> Removed(t.disk, p), snaps |-> Taken(t, p, snap),
               rows |-> Record(t, op, p, None, snap, tar, b)]
      BY <3>3, Zenon DEF StageDelete
    <3>9. OpOk(op)
      BY <3>2
    <3> HIDE DEF w, tar, snap, op, OpOk
    <3>4. w.rows = Record(t, op, p, None, snap, tar, b) /\ w.disk = Removed(t.disk, p)
      BY <3>8
    <3>5. Effect(s.disk, o) = Removed(s.disk, p)
      BY <3>2 DEF Effect
    <3> HIDE DEF w
    <3>6. w.disk = Effect(s.disk, o)
      BY <1>7, <3>4, <3>5
    <3>7. \E k, n, g : OpOk(k) /\ w.rows = Record(t, k, o.path, o.dst, n, g, b)
      BY <3>2, <3>4, <3>9, Zenon
    <3> QED
      BY <3>6, <3>7
  <2>4. \/ \E p \in Files : o = MkdirOp(p)
        \/ \E p, q \in Files : o = RenameOp(p, q)
        \/ \E p \in Files : o = DeleteOp(p)
    BY DEF Operations
  <2> QED
    BY <2>1, <2>2, <2>3, <2>4, Zenon
<1>4. \E r : DOMAIN r = RowFields /\ r.batch = b /\ Stages(r, o) /\ w.rows = Append(s.rows, r)
  <2>1. PICK op, snap, tar : OpOk(op) /\ w.rows = Record(t, op, o.path, o.dst, snap, tar, b)
    BY <1>2
  <2> DEFINE r == [run |-> live, seq |-> NextSeq(t), op |-> op, path |-> o.path, dst |-> o.dst,
                   snap |-> snap, tar |-> tar, batch |-> b, st |-> "pending"]
  <2>2. w.rows = Append(s.rows, r)
    BY <1>7, <2>1 DEF Record
  <2>3. DOMAIN r = RowFields /\ r.batch = b /\ Stages(r, o)
    BY <2>1 DEF RowFields, Stages
  <2> QED
    BY <2>2, <2>3
<1> HIDE DEF w
<1> QED
  BY <1>1, <1>2, <1>4 DEF StateFields, u, OpDone

\* A refused one ends the batch, and after that nothing more is staged.
LEMMA OpRefused ==
  ASSUME NEW s, DOMAIN s = StateFields, s.halt \in BOOLEAN, NEW o, NEW b, NEW refused,
         s.halt \/ (Valid(s.disk, o) /\ o \in refused)
  PROVE  LET u == CommitOp(b, refused, s, o)
         IN  DOMAIN u = StateFields /\ u.halt = TRUE /\ u.rows = s.rows
<1> DEFINE u == CommitOp(b, refused, s, o)
<1>2. s.halt => u = s
  BY Zenon DEF CommitOp
<1>4. ~s.halt => u = [s EXCEPT !.halt = TRUE]
  BY Zenon DEF CommitOp
<1> HIDE DEF u
<1>3. DOMAIN u = StateFields /\ u.halt = TRUE /\ u.rows = s.rows
  BY <1>2, <1>4 DEF StateFields
<1> QED
  BY <1>3 DEF u

CommitEnd(ops, refused) ==
    CommitOp(Len(batches) + 1, refused, CommitOp(Len(batches) + 1, refused, CommitBase, ops[1]), ops[2])

\* What is remembered of a batch.
Told(ops, end) ==
    [ops |-> ops, from |-> Len(rows), told |-> IF end.halt THEN "failed" ELSE "staged"]

\* Committing a batch stages what its two operations lead to.
LEMMA CommitIs ==
  ASSUME NEW ops \in Operations \X Operations, CommitBatch(ops)
  PROVE  \E refused : /\ rows' = CommitEnd(ops, refused).rows
                      /\ batches' = Append(batches, Told(ops, CommitEnd(ops, refused)))
<1> DEFINE b == Len(batches) + 1
<1>1. DOMAIN ops = 1 .. 2
  OBVIOUS
<1>2. PICK refused \in Faulty(Range(Tail(ops))) :
        LET s == CommitRun(ops, refused)
        IN  /\ Stage([disk |-> s.disk, rows |-> s.rows, snaps |-> s.snaps])
            /\ batches' = Append(batches, Told(ops, s))
  BY Zenon DEF CommitBatch, Told
<1>3. CommitRun(ops, refused) = CommitEnd(ops, refused)
  <2>1. CommitRun(ops, refused) = FoldLeft(LAMBDA t, o : CommitOp(b, refused, t, o), CommitBase, ops)
    BY Zenon DEF CommitRun, CommitBase
  <2> QED
    BY <1>1, <2>1, CommitFold, Zenon DEF CommitEnd
<1> DEFINE s == CommitEnd(ops, refused)
<1>4. /\ Stage([disk |-> s.disk, rows |-> s.rows, snaps |-> s.snaps])
      /\ batches' = Append(batches, Told(ops, s))
  BY <1>2, <1>3, Zenon DEF Told
<1> HIDE DEF s
<1>5. rows' = s.rows
  BY <1>4 DEF Stage, Become
<1> QED
  BY <1>4, <1>5 DEF s

\* What BatchWhole says of batch b in the rows q, with t remembered of it.
Whole(q, t, b, n) ==
    /\ n \in 0 .. 2 /\ t.from \in Nat /\ t.from + n <= Len(q) /\ Len(t.ops) = 2
    /\ {i \in 1 .. Len(q) : q[i].batch = b} = t.from + 1 .. t.from + n
    /\ \A k \in 1 .. n : Stages(q[t.from + k], t.ops[k])
    /\ t.told = "staged" <=> n = 2

BatchesWhole == \A b \in 1 .. Len(batches) : \E n : Whole(rows, batches[b], b, n)

\* A card that is open stands for a batch of the plan.
CardKnown == card = <<>> \/ card \in Plans

StagingInv == RowsInv /\ CardKnown /\ BatchesWhole

StagingSpec == StagingInit /\ [][StagingNext]_stagingVars

\* A step that moves no row from one batch to another.
LEMMA SameBatchesStep ==
  ASSUME StagingInv, SameBatches(rows'), batches' = batches
  PROVE  RowsInv' /\ BatchesWhole'
<1>0. Len(rows) \in Nat
  BY DEF StagingInv, RowsInv
<1>1. \A i \in 1 .. Len(rows) : /\ DOMAIN rows'[i] = RowFields /\ rows'[i].batch = rows[i].batch
                                /\ rows'[i].op = rows[i].op /\ rows'[i].path = rows[i].path
                                /\ rows'[i].dst = rows[i].dst
  BY DEF SameBatches, Label
<1>2. Len(rows') = Len(rows) /\ \E S : rows' \in Seq(S)
  BY DEF SameBatches
<1>3. RowsInv'
  BY <1>1, <1>2 DEF StagingInv, RowsInv
<1>4. \A b : {i \in 1 .. Len(rows') : rows'[i].batch = b} = {i \in 1 .. Len(rows) : rows[i].batch = b}
  BY <1>1, <1>2
<1>5. \A i \in 1 .. Len(rows) : \A o : Stages(rows[i], o) => Stages(rows'[i], o)
  BY <1>1 DEF Stages
<1>6. ASSUME NEW b \in 1 .. Len(batches) PROVE \E n : Whole(rows', batches[b], b, n)
  <2>1. PICK n : Whole(rows, batches[b], b, n)
    BY DEF StagingInv, BatchesWhole
  <2> DEFINE t == batches[b]
  <2>2. /\ n \in 0 .. 2 /\ t.from \in Nat /\ t.from + n <= Len(rows) /\ Len(t.ops) = 2
        /\ {i \in 1 .. Len(rows) : rows[i].batch = b} = t.from + 1 .. t.from + n
        /\ \A k \in 1 .. n : Stages(rows[t.from + k], t.ops[k])
        /\ t.told = "staged" <=> n = 2
    BY <2>1 DEF Whole
  <2> HIDE DEF t
  <2>3. \A k \in 1 .. n : t.from + k \in 1 .. Len(rows)
    BY <1>0, <2>2
  <2>4. \A k \in 1 .. n : Stages(rows'[t.from + k], t.ops[k])
    BY <1>5, <2>2, <2>3
  <2>5. {i \in 1 .. Len(rows') : rows'[i].batch = b} = t.from + 1 .. t.from + n
    BY <1>4, <2>2
  <2>6. t.from + n <= Len(rows')
    BY <1>2, <2>2
  <2>7. Whole(rows', t, b, n)
    BY <2>2, <2>4, <2>5, <2>6, Zenon DEF Whole
  <2> QED
    BY <2>7 DEF t
<1> QED
  BY <1>3, <1>6 DEF BatchesWhole

\* A step that adds n rows for a batch that was given out just now, or one row
\* outside every batch.
LEMMA GrowStep ==
  ASSUME StagingInv, NEW n \in Nat, NEW S, rows' \in Seq(S), Len(rows') = Len(rows) + n,
         \A i \in 1 .. Len(rows) : rows'[i] = rows[i],
         \A k \in 1 .. n : DOMAIN rows'[Len(rows) + k] = RowFields,
         \/ \A k \in 1 .. n : rows'[Len(rows) + k].batch = 0
         \/ \A k \in 1 .. n : rows'[Len(rows) + k].batch = Len(batches) + 1
  PROVE  /\ \A i \in 1 .. Len(rows') : /\ DOMAIN rows'[i] = RowFields
                                       /\ rows'[i].batch \in 0 .. Len(batches) + 1
         /\ (\A k \in 1 .. n : rows'[Len(rows) + k].batch = 0) =>
              \A i \in 1 .. Len(rows') : rows'[i].batch \in 0 .. Len(batches)
         /\ \A b \in 1 .. Len(batches) : \E m : Whole(rows', batches[b], b, m)
         /\ (\A k \in 1 .. n : rows'[Len(rows) + k].batch = Len(batches) + 1) =>
              {i \in 1 .. Len(rows') : rows'[i].batch = Len(batches) + 1} = Len(rows) + 1 .. Len(rows) + n
<1>0. /\ Len(rows) \in Nat /\ Len(batches) \in Nat
      /\ \A i \in 1 .. Len(rows) : DOMAIN rows[i] = RowFields /\ rows[i].batch \in 0 .. Len(batches)
  BY DEF StagingInv, RowsInv
<1> DEFINE l == Len(rows)
<1>1. \A i \in 1 .. Len(rows') : i \in 1 .. l \/ (i - l \in 1 .. n /\ i = l + (i - l))
  BY <1>0
<1>2. \A i \in 1 .. Len(rows') : i \in 1 .. l \/ \E k \in 1 .. n : i = l + k
  BY <1>1
<1>8. /\ \A i \in 1 .. l : rows'[i] = rows[i]
      /\ \A k \in 1 .. n : DOMAIN rows'[l + k] = RowFields
      /\ \A k \in 1 .. n : rows'[l + k].batch = 0 \/ rows'[l + k].batch = Len(batches) + 1
      /\ l \in Nat /\ Len(rows') = l + n
  BY <1>0
<1>9. \A i \in 1 .. l : DOMAIN rows[i] = RowFields /\ rows[i].batch \in 0 .. Len(batches)
  BY <1>0
<1> HIDE DEF l
<1>10. /\ \A i \in 1 .. l : DOMAIN rows'[i] = RowFields /\ rows'[i].batch \in 0 .. Len(batches)
       /\ \A k \in 1 .. n : DOMAIN rows'[l + k] = RowFields /\ rows'[l + k].batch \in 0 .. Len(batches) + 1
  <2>1. 0 \in 0 .. Len(batches) + 1 /\ Len(batches) + 1 \in 0 .. Len(batches) + 1
    BY <1>0
  <2>2. \A k \in 1 .. n : rows'[l + k].batch \in 0 .. Len(batches) + 1
    BY <1>8, <2>1, Zenon
  <2> QED
    BY <1>8, <1>9, <2>2, Zenon
<1>3. \A i \in 1 .. Len(rows') : DOMAIN rows'[i] = RowFields /\ rows'[i].batch \in 0 .. Len(batches) + 1
  <2>1. \A x \in 0 .. Len(batches) : x \in 0 .. Len(batches) + 1
    BY <1>0
  <2>2. \A i \in 1 .. l : DOMAIN rows'[i] = RowFields /\ rows'[i].batch \in 0 .. Len(batches) + 1
    BY <1>10, <2>1, Zenon
  <2> QED
    BY <1>2, <1>10, <2>2, Zenon
<1>4. ASSUME \A k \in 1 .. n : rows'[l + k].batch = 0
      PROVE  \A i \in 1 .. Len(rows') : rows'[i].batch \in 0 .. Len(batches)
  <2>1. 0 \in 0 .. Len(batches)
    BY <1>0
  <2> QED
    BY <1>2, <1>4, <1>10, <2>1, Zenon
<1>5. ASSUME NEW b \in 1 .. Len(batches)
      PROVE {i \in 1 .. Len(rows') : rows'[i].batch = b} = {i \in 1 .. l : rows[i].batch = b}
  <2>4. b # 0 /\ b # Len(batches) + 1
    BY <1>0
  <2>1. \A k \in 1 .. n : rows'[l + k].batch # b
    BY <1>8, <2>4, Zenon
  <2>2. \A i \in 1 .. Len(rows') : rows'[i].batch = b => i \in 1 .. l
    BY <1>2, <2>1, Zenon
  <2>3. 1 .. l \subseteq 1 .. Len(rows')
    BY <1>8
  <2> QED
    BY <1>8, <2>2, <2>3, Zenon
<1>6. ASSUME NEW b \in 1 .. Len(batches)
      PROVE  \E m : Whole(rows', batches[b], b, m)
  <2>1. PICK m : Whole(rows, batches[b], b, m)
    BY DEF StagingInv, BatchesWhole
  <2> DEFINE t == batches[b]
  <2>2. /\ m \in 0 .. 2 /\ t.from \in Nat /\ t.from + m <= l /\ Len(t.ops) = 2
        /\ t.told = "staged" <=> m = 2
        /\ {i \in 1 .. l : rows[i].batch = b} = t.from + 1 .. t.from + m
        /\ \A k \in 1 .. m : Stages(rows[t.from + k], t.ops[k])
    BY <2>1 DEF Whole, l
  <2> HIDE DEF t
  <2>7. m \in Nat /\ t.from \in Nat /\ t.from + m <= l /\ l \in Nat
    BY <1>8, <2>2
  <2>8. \A k \in 1 .. m : k \in Nat /\ k >= 1 /\ k <= m
    BY <2>7
  <2>3. \A k \in 1 .. m : t.from + k \in 1 .. l
    BY <2>7, <2>8
  <2>4. \A k \in 1 .. m : Stages(rows'[t.from + k], t.ops[k])
    BY <1>8, <2>2, <2>3, Zenon
  <2>5. t.from + m <= Len(rows')
    BY <1>8, <2>2
  <2>6. {i \in 1 .. Len(rows') : rows'[i].batch = b} = t.from + 1 .. t.from + m
    BY <1>5, <2>2, Zenon
  <2>9. Whole(rows', t, b, m)
    BY <2>2, <2>4, <2>5, <2>6, Zenon DEF Whole
  <2> QED
    BY <2>9 DEF t
<1>7. ASSUME \A k \in 1 .. n : rows'[l + k].batch = Len(batches) + 1
      PROVE  {i \in 1 .. Len(rows') : rows'[i].batch = Len(batches) + 1} = l + 1 .. l + n
  <2>1. \A i \in 1 .. l : rows'[i].batch # Len(batches) + 1
    BY <1>0, <1>10
  <2>2. \A i \in l + 1 .. l + n : i - l \in 1 .. n /\ i = l + (i - l) /\ i \in 1 .. Len(rows')
    BY <1>8
  <2>3. \A i \in l + 1 .. l + n : rows'[i].batch = Len(batches) + 1
    BY <1>7, <2>2, Zenon
  <2>4. \A i \in 1 .. Len(rows') : i \in 1 .. l \/ i \in l + 1 .. l + n
    BY <1>8
  <2> QED
    BY <2>1, <2>2, <2>3, <2>4
<1> QED
  BY <1>3, <1>4, <1>6, <1>7, Zenon DEF l

\* A step that adds a row outside every batch.
LEMMA AppendStep ==
  ASSUME StagingInv, NEW r, DOMAIN r = RowFields, r.batch = 0, rows' = Append(rows, r), batches' = batches
  PROVE  RowsInv' /\ BatchesWhole'
<1>0. PICK S : rows \in Seq(S)
  BY DEF StagingInv, RowsInv
<1>1. /\ rows' \in Seq(S \cup {r}) /\ Len(rows') = Len(rows) + 1 /\ Len(rows) \in Nat
      /\ rows'[Len(rows) + 1] = r
      /\ \A i \in 1 .. Len(rows) : rows'[i] = rows[i]
  BY <1>0
<1>2. \A k \in 1 .. 1 : rows'[Len(rows) + k] = r
  BY <1>1
<1>3. /\ \A i \in 1 .. Len(rows') : /\ DOMAIN rows'[i] = RowFields /\ rows'[i].batch \in 0 .. Len(batches)
      /\ \A b \in 1 .. Len(batches) : \E m : Whole(rows', batches[b], b, m)
  BY <1>1, <1>2, GrowStep
<1>4. RowsInv'
  BY <1>1, <1>3 DEF StagingInv, RowsInv
<1> QED
  BY <1>3, <1>4, Zenon DEF BatchesWhole

\* A step that adds a batch with the rows of its first n operations.
LEMMA BatchStep ==
  ASSUME StagingInv, NEW n \in 0 .. 2, NEW S, rows' \in Seq(S), Len(rows') = Len(rows) + n,
         \A i \in 1 .. Len(rows) : rows'[i] = rows[i],
         NEW t, t.from = Len(rows), Len(t.ops) = 2, t.told = "staged" <=> n = 2,
         \A k \in 1 .. n : /\ DOMAIN rows'[Len(rows) + k] = RowFields
                           /\ rows'[Len(rows) + k].batch = Len(batches) + 1
                           /\ Stages(rows'[Len(rows) + k], t.ops[k]),
         batches' = Append(batches, t)
  PROVE  RowsInv' /\ BatchesWhole'
<1>1. PICK T : batches \in Seq(T)
  BY DEF StagingInv, RowsInv
<1>2. /\ batches' \in Seq(T \cup {t}) /\ Len(batches) \in Nat /\ Len(batches') = Len(batches) + 1
      /\ batches'[Len(batches) + 1] = t /\ \A b \in 1 .. Len(batches) : batches'[b] = batches[b]
  BY <1>1
<1>3. /\ \A i \in 1 .. Len(rows') : /\ DOMAIN rows'[i] = RowFields
                                    /\ rows'[i].batch \in 0 .. Len(batches) + 1
      /\ \A b \in 1 .. Len(batches) : \E m : Whole(rows', batches[b], b, m)
      /\ {i \in 1 .. Len(rows') : rows'[i].batch = Len(batches) + 1} = Len(rows) + 1 .. Len(rows) + n
  <2>1. n \in Nat
    OBVIOUS
  <2> QED
    BY <2>1, GrowStep, Zenon
<1>4. RowsInv'
  BY <1>2, <1>3 DEF RowsInv
<1>5. Len(rows) \in Nat
  BY DEF StagingInv, RowsInv
<1>7. Whole(rows', t, Len(batches) + 1, n)
  <2>1. t.from \in Nat /\ t.from + n <= Len(rows')
    BY <1>5
  <2>2. {i \in 1 .. Len(rows') : rows'[i].batch = Len(batches) + 1} = t.from + 1 .. t.from + n
    BY <1>3
  <2>3. \A k \in 1 .. n : Stages(rows'[t.from + k], t.ops[k])
    OBVIOUS
  <2> QED
    BY <2>1, <2>2, <2>3, Zenon DEF Whole
<1>8. ASSUME NEW b \in 1 .. Len(batches') PROVE \E m : Whole(rows', batches'[b], b, m)
  <2>1. b \in 1 .. Len(batches) \/ b = Len(batches) + 1
    BY <1>2
  <2> QED
    BY <1>2, <1>3, <1>7, <2>1, Zenon
<1> QED
  BY <1>4, <1>8, Zenon DEF BatchesWhole

\* commit after a preflight that passed: neither operation is skipped, since the
\* check repeated for each is the one the preflight made on the same tree; one
\* that is refused ends the batch.
LEMMA CommitStep ==
  ASSUME StagingInv, NEW ops \in Plans, Preflight(ops), CommitBatch(ops)
  PROVE  RowsInv' /\ BatchesWhole'
<1> DEFINE b == Len(batches) + 1
<1>1. ops \in Operations \X Operations /\ ops[1] \in Operations /\ ops[2] \in Operations /\ Len(ops) = 2
  BY PlansAssumption
<1>2. PICK refused : /\ rows' = CommitEnd(ops, refused).rows
                     /\ batches' = Append(batches, Told(ops, CommitEnd(ops, refused)))
  BY <1>1, CommitIs
<1> DEFINE one == CommitOp(b, refused, CommitBase, ops[1])
           two == CommitOp(b, refused, one, ops[2])
           t == Told(ops, two)
<1>3. rows' = two.rows /\ batches' = Append(batches, t)
  BY <1>2 DEF CommitEnd
<1>9. t.from = Len(rows) /\ t.ops = ops /\ t.told = IF two.halt THEN "failed" ELSE "staged"
  BY DEF Told
<1> HIDE DEF two, t
<1>4. /\ DOMAIN CommitBase = StateFields /\ CommitBase.halt = FALSE
      /\ CommitBase.disk = disk /\ CommitBase.rows = rows
  BY DEF CommitBase, StateFields
<1>5. Valid(disk, ops[1]) /\ Valid(Effect(disk, ops[1]), ops[2])
  BY DEF Preflight
<1> HIDE DEF b
<1>10. PICK S : rows \in Seq(S)
  BY DEF StagingInv, RowsInv
<1> HIDE DEF one
<1>6. CASE ops[1] \in refused
  <2>1. DOMAIN one = StateFields /\ one.halt = TRUE /\ one.rows = rows
    BY <1>4, <1>5, <1>6, OpRefused DEF one
  <2>2. two.halt = TRUE /\ two.rows = one.rows
    BY <2>1, OpRefused DEF two
  <2> QED
    BY <1>1, <1>3, <1>9, <1>10, <2>1, <2>2, BatchStep
<1>7. CASE ops[1] \notin refused /\ ops[2] \in refused
  <2>1. OpDone(one, CommitBase, ops[1], b)
    BY <1>1, <1>4, <1>5, <1>7, OpStaged DEF one
  <2>2. DOMAIN one = StateFields /\ one.halt = FALSE /\ Valid(one.disk, ops[2])
    BY <1>4, <1>5, <2>1 DEF OpDone
  <2>3. two.halt = TRUE /\ two.rows = one.rows
    BY <1>7, <2>2, OpRefused DEF two
  <2>4. PICK r : DOMAIN r = RowFields /\ r.batch = b /\ Stages(r, ops[1]) /\ rows' = Append(rows, r)
    BY <1>3, <1>4, <2>1, <2>3 DEF OpDone
  <2>5. /\ rows' \in Seq(S \cup {r}) /\ Len(rows') = Len(rows) + 1 /\ rows'[Len(rows) + 1] = r
        /\ \A i \in 1 .. Len(rows) : rows'[i] = rows[i]
    BY <1>10, <2>4
  <2>6. \A k \in 1 .. 1 : rows'[Len(rows) + k] = r /\ k = 1
    BY <2>5
  <2>7. \A k \in 1 .. 1 : /\ DOMAIN rows'[Len(rows) + k] = RowFields
                          /\ rows'[Len(rows) + k].batch = b
                          /\ Stages(rows'[Len(rows) + k], ops[k])
    BY <2>4, <2>6
  <2>8. t.from = Len(rows) /\ Len(t.ops) = 2 /\ t.ops = ops /\ (t.told = "staged" <=> 1 = 2)
    BY <1>1, <1>9, <2>3
  <2> QED
    BY <1>3, <2>5, <2>7, <2>8, BatchStep DEF b
<1>8. CASE ops[1] \notin refused /\ ops[2] \notin refused
  <2>1. OpDone(one, CommitBase, ops[1], b)
    BY <1>1, <1>4, <1>5, <1>8, OpStaged DEF one
  <2>2. DOMAIN one = StateFields /\ one.halt = FALSE /\ Valid(one.disk, ops[2])
    BY <1>4, <1>5, <2>1 DEF OpDone
  <2>3. OpDone(two, one, ops[2], b)
    BY <1>1, <1>8, <2>2, OpStaged DEF two
  <2>4. PICK r1, r2 : /\ DOMAIN r1 = RowFields /\ r1.batch = b /\ Stages(r1, ops[1])
                      /\ DOMAIN r2 = RowFields /\ r2.batch = b /\ Stages(r2, ops[2])
                      /\ rows' = Append(Append(rows, r1), r2)
    BY <1>3, <1>4, <2>1, <2>3 DEF OpDone
  <2>5. /\ rows' \in Seq(S \cup {r1, r2}) /\ Len(rows') = Len(rows) + 2
        /\ rows'[Len(rows) + 1] = r1 /\ rows'[Len(rows) + 2] = r2
        /\ \A i \in 1 .. Len(rows) : rows'[i] = rows[i]
    BY <1>10, <2>4
  <2>6. \A k \in 1 .. 2 : k = 1 \/ k = 2
    OBVIOUS
  <2>7. two.halt = FALSE
    BY <2>3 DEF OpDone
  <2>8. \A k \in 1 .. 2 : /\ DOMAIN rows'[Len(rows) + k] = RowFields
                          /\ rows'[Len(rows) + k].batch = b
                          /\ Stages(rows'[Len(rows) + k], ops[k])
    BY <2>4, <2>5, <2>6
  <2> QED
    BY <1>1, <1>3, <1>9, <2>5, <2>7, <2>8, BatchStep DEF b
<1> QED
  BY <1>6, <1>7, <1>8

\* One operation outside a batch adds one row, which belongs to no batch.
LEMMA StageRow ==
  ASSUME NEW s, Stage(s), NEW op, NEW p, NEW dst, NEW snap, NEW tar,
         s.rows = Record(Now, op, p, dst, snap, tar, 0)
  PROVE  \E r : DOMAIN r = RowFields /\ r.batch = 0 /\ rows' = Append(rows, r)
<1>1. rows' = Record(Now, op, p, dst, snap, tar, 0)
  BY DEF Stage, Become
<1>2. Now.rows = rows
  BY DEF Now
<1> QED
  BY <1>1, <1>2 DEF Record, RowFields

\* A file that is written or created makes a row of its own.
LEMMA WriteStep ==
  ASSUME StagingInv, NEW p \in Files, WriteFile(p)
  PROVE  StagingInv'
<1> DEFINE snap == IF Now.disk[p] = Gone THEN 0 ELSE FileSnap(Now, p)
           s == StageWrite(Now, p)
<1>1. Stage(s) /\ UNCHANGED <<card, faults, batches>>
  BY DEF WriteFile
<1>2. s.rows = Record(Now, "write", p, None, snap, FALSE, 0)
  BY DEF StageWrite
<1> HIDE DEF s, snap
<1>3. \E r : DOMAIN r = RowFields /\ r.batch = 0 /\ rows' = Append(rows, r)
  BY <1>1, <1>2, StageRow
<1> QED
  BY <1>1, <1>3, AppendStep DEF StagingInv, CardKnown

\* So does a directory that is made.
LEMMA MkdirStep ==
  ASSUME StagingInv, NEW p \in Files, Mkdir(p)
  PROVE  StagingInv'
<1> DEFINE s == StageMkdir(Now, p, 0)
<1>1. Stage(s) /\ UNCHANGED <<card, faults, batches>>
  BY DEF Mkdir
<1>2. s.rows = Record(Now, "mkdir", p, None, 0, FALSE, 0)
  BY DEF StageMkdir, Now
<1> HIDE DEF s
<1>3. \E r : DOMAIN r = RowFields /\ r.batch = 0 /\ rows' = Append(rows, r)
  BY <1>1, <1>2, StageRow
<1> QED
  BY <1>1, <1>3, AppendStep DEF StagingInv, CardKnown

\* So does a move.
LEMMA RenameStep ==
  ASSUME StagingInv, NEW p \in Files, NEW t \in Files, Rename(p, t)
  PROVE  StagingInv'
<1> DEFINE s == StageRename(Now, p, t, 0)
<1>1. Stage(s) /\ UNCHANGED <<card, faults, batches>>
  BY DEF Rename
<1>2. s.rows = Record(Now, "rename", p, t, 0, FALSE, 0)
  BY DEF StageRename, Now
<1> HIDE DEF s
<1>3. \E r : DOMAIN r = RowFields /\ r.batch = 0 /\ rows' = Append(rows, r)
  BY <1>1, <1>2, StageRow
<1> QED
  BY <1>1, <1>3, AppendStep DEF StagingInv, CardKnown

\* So does a deletion.
LEMMA DeleteStep ==
  ASSUME StagingInv, NEW p \in Files, NEW rec \in BOOLEAN, DeletePath(p, rec)
  PROVE  StagingInv'
<1> DEFINE t == Now
           tar == t.disk[p] = Dir
           snap == CASE ~tar -> FileSnap(t, p)
                     [] tar /\ Inside(t.disk, p) # {} -> Len(t.rows) + 1
                     [] OTHER -> 0
           op == IF tar THEN "delete_dir" ELSE "delete_file"
           s == StageDelete(t, p, 0)
<1>1. Stage(s) /\ UNCHANGED <<card, faults, batches>>
  BY DEF DeletePath
<1>2. s = [disk |-> Removed(t.disk, p), snaps |-> Taken(t, p, snap),
           rows |-> Record(t, op, p, None, snap, tar, 0)]
  BY Zenon DEF StageDelete
<1> HIDE DEF s, tar, snap, op
<1>4. s.rows = Record(Now, op, p, None, snap, tar, 0)
  BY <1>2
<1>3. \E r : DOMAIN r = RowFields /\ r.batch = 0 /\ rows' = Append(rows, r)
  BY <1>1, <1>4, StageRow
<1> QED
  BY <1>1, <1>3, AppendStep DEF StagingInv, CardKnown

\* A revert changes the state of rows and nothing else of them.
LEMMA UndoStep ==
  ASSUME StagingInv, NEW is \in SUBSET (DOMAIN rows), NEW rowOrder \in Newest(is), NEW bad, NEW stops,
         rows' = Undo(rowOrder, bad, stops).rows, card' = card, batches' = batches
  PROVE  StagingInv'
<1>1. rowOrder \in SetToSeqs(is)
  BY DEF Newest
<1>2. SameBatches(rows')
  BY <1>1, UndoKeeps DEF StagingInv
<1> QED
  BY <1>2, SameBatchesStep DEF StagingInv, CardKnown

\* A step that leaves rows and batches alone keeps the invariant.
LEMMA RowsSame ==
  ASSUME StagingInv, rows' = rows, batches' = batches, card' = card \/ card' = <<>>
  PROVE  StagingInv'
<1>1. RowsInv'
  BY DEF StagingInv, RowsInv
<1>2. BatchesWhole'
  BY Zenon DEF StagingInv, BatchesWhole
<1>3. CardKnown'
  BY DEF StagingInv, CardKnown
<1> QED
  BY <1>1, <1>2, <1>3 DEF StagingInv

\* Committing a session or sweeping orphans rewrites the state of rows only.
LEMMA MarkStep ==
  ASSUME StagingInv, NEW M \in SUBSET DOMAIN rows, NEW st,
         rows' = [i \in DOMAIN rows |-> IF i \in M THEN [rows[i] EXCEPT !.st = st] ELSE rows[i]],
         batches' = batches, card' = card \/ card' = <<>>
  PROVE  StagingInv'
<1>1. PICK S : rows \in Seq(S)
  BY DEF StagingInv, RowsInv
<1>2. DOMAIN rows = 1 .. Len(rows) /\ Len(rows) \in Nat
  BY <1>1
<1>3. rows' \in Seq({rows'[i] : i \in 1 .. Len(rows)}) /\ Len(rows') = Len(rows)
  BY <1>2
<1>4. \A i \in 1 .. Len(rows) : DOMAIN rows[i] = RowFields
  BY DEF StagingInv, RowsInv
<1>5. \A i \in 1 .. Len(rows) : DOMAIN rows'[i] = RowFields /\ Label(rows'[i]) = Label(rows[i])
  BY <1>2, <1>4 DEF RowFields, Label
<1>6. SameBatches(rows')
  BY <1>3, <1>5 DEF SameBatches
<1> QED
  BY <1>6, SameBatchesStep DEF StagingInv, CardKnown

\* No row and no batch at the start.
LEMMA StagingInvInit == StagingInit => StagingInv
<1> SUFFICES ASSUME StagingInit PROVE StagingInv
  OBVIOUS
<1>1. rows = <<>> /\ batches = <<>> /\ card = <<>>
  BY DEF StagingInit
<1>2. rows \in Seq({}) /\ batches \in Seq({}) /\ Len(rows) = 0 /\ Len(batches) = 0
  BY <1>1
<1> QED
  BY <1>1, <1>2 DEF StagingInv, RowsInv, CardKnown, BatchesWhole

\* Every step keeps batches whole.
LEMMA StagingInvStep == StagingInv /\ [StagingNext]_stagingVars => StagingInv'
<1> SUFFICES ASSUME StagingInv, [StagingNext]_stagingVars PROVE StagingInv'
  OBVIOUS
<1>1. CASE StartRun
  BY <1>1, RowsSame DEF StartRun
<1>2. CASE EndRun
  BY <1>2, RowsSame DEF EndRun
<1>3. CASE \E p \in Files : WriteFile(p) \/ Mkdir(p)
  BY <1>3, WriteStep, MkdirStep
<1>4. CASE \E p \in Shared : EditFile(p)
  BY <1>4, RowsSame DEF EditFile
<1>5. CASE \E p, t \in Files : p # t /\ Rename(p, t)
  BY <1>5, RenameStep
<1>6. CASE \E p \in Files, rec \in BOOLEAN : DeletePath(p, rec)
  BY <1>6, DeleteStep
<1>18. CASE \E p \in Files : RemovalTorn(p)
  BY <1>18, RowsSame DEF RemovalTorn
<1>7. ASSUME NEW ops \in Plans, RunBatch(ops) PROVE StagingInv'
  BY <1>7, CommitStep DEF RunBatch, StagingInv, CardKnown
<1>8. ASSUME NEW ops \in Plans, AskBatch(ops) PROVE StagingInv'
  <2>1. rows' = rows /\ batches' = batches /\ card' = ops
    BY <1>8 DEF AskBatch
  <2> QED
    <3>1. RowsInv'
      BY <2>1 DEF StagingInv, RowsInv
    <3>2. BatchesWhole'
      BY <2>1, Zenon DEF StagingInv, BatchesWhole
    <3> QED
      BY <2>1, <3>1, <3>2 DEF StagingInv, CardKnown
<1>9. CASE BatchGranted
  <2>1. card \in Plans
    BY <1>9 DEF BatchGranted, StagingInv, CardKnown
  <2> QED
    BY <1>9, <2>1, CommitStep DEF BatchGranted, StagingInv, CardKnown
<1>10. CASE BatchRefused
  BY <1>10, RowsSame DEF BatchRefused
<1>11. ASSUME NEW r \in 1 .. runs, RevertRun(r) PROVE StagingInv'
  <2>1. card' = card /\ batches' = batches
    BY <1>11 DEF RevertRun
  <2>2. CASE rows' = rows
    BY <2>1, <2>2, RowsSame
  <2>3. CASE \E rowOrder \in Newest(Pending(r)), bad \in Faulty(Pending(r)) :
                rows' = Undo(rowOrder, bad, FALSE).rows
    <3>1. Pending(r) \in SUBSET (DOMAIN rows)
      BY DEF Pending
    <3> QED
      BY <2>1, <2>3, <3>1, UndoStep
  <2> QED
    BY <1>11, <2>2, <2>3, Zenon DEF RevertRun
<1>12. ASSUME NEW is \in SUBSET DOMAIN rows, RevertRows(is) PROVE StagingInv'
  <2>1. card' = card /\ batches' = batches
    BY <1>12 DEF RevertRows
  <2>2. \E rowOrder \in Newest(is), bad \in Faulty(is) : rows' = Undo(rowOrder, bad, TRUE).rows
    BY <1>12, Zenon DEF RevertRows
  <2> QED
    BY <2>1, <2>2, UndoStep
<1>13. CASE \E b \in DOMAIN batches : RevertBatch(b)
  <2>1. PICK b : RevertRows({i \in DOMAIN rows : rows[i].batch = b /\ rows[i].st = "pending"})
    BY <1>13, Zenon DEF RevertBatch
  <2> QED
    BY <1>12, <2>1
<1>14. CASE CommitSession
  <2> DEFINE M == {i \in DOMAIN rows : rows[i].st = "pending"}
  <2>1. rows' = [i \in DOMAIN rows |-> IF i \in M THEN [rows[i] EXCEPT !.st = "committed"] ELSE rows[i]]
    BY <1>14 DEF CommitSession
  <2>2. card' = card /\ batches' = batches /\ M \in SUBSET DOMAIN rows
    BY <1>14 DEF CommitSession
  <2> HIDE DEF M
  <2> QED
    BY <2>1, <2>2, MarkStep
<1>15. CASE StagingRestart
  <2> DEFINE M == {i \in DOMAIN rows : /\ rows[i].st = "pending" /\ rows[i].op \notin {"mkdir", "rename"}
                                      /\ rows[i].snap # 0 /\ rows[i].snap \notin DOMAIN snaps}
  <2>1. rows' = [i \in DOMAIN rows |-> IF i \in M THEN [rows[i] EXCEPT !.st = "orphan"] ELSE rows[i]]
    BY <1>15 DEF StagingRestart
  <2>2. card' = <<>> /\ batches' = batches /\ M \in SUBSET DOMAIN rows
    BY <1>15 DEF StagingRestart
  <2> HIDE DEF M
  <2> QED
    BY <2>1, <2>2, MarkStep
<1>16. CASE UNCHANGED stagingVars
  BY <1>16, RowsSame DEF stagingVars
<1>17. ASSUME NEW is \in SUBSET DOMAIN rows, RevertItems(is) PROVE StagingInv'
  BY <1>12, <1>17 DEF RevertItems
<1> QED
  BY <1>1, <1>2, <1>3, <1>4, <1>5, <1>6, <1>7, <1>8, <1>9, <1>10, <1>11, <1>13,
     <1>14, <1>15, <1>16, <1>17, <1>18 DEF StagingNext

\* For any files, plans, failures and number of runs: a batch that was answered as
\* staged has its rows, one for each operation and in their order, and one that
\* failed midway has those of the operations before the one that raised, whatever
\* the tools, the user, reverts and restarts do around it.
THEOREM BatchWholeHolds == StagingSpec => []BatchWhole
<1>1. StagingInv => BatchWhole
  <2> SUFFICES ASSUME StagingInv, NEW b \in DOMAIN batches
               PROVE  \E n \in 0 .. Len(batches[b].ops) :
                        /\ {i \in DOMAIN rows : rows[i].batch = b} = batches[b].from + 1 .. batches[b].from + n
                        /\ \A k \in 1 .. n : Stages(rows[batches[b].from + k], batches[b].ops[k])
                        /\ batches[b].told = "staged" <=> n = Len(batches[b].ops)
    BY DEF BatchWhole
  <2>1. DOMAIN batches = 1 .. Len(batches) /\ DOMAIN rows = 1 .. Len(rows)
    BY DEF StagingInv, RowsInv
  <2>2. PICK n : Whole(rows, batches[b], b, n)
    BY <2>1 DEF StagingInv, BatchesWhole
  <2> QED
    BY <2>1, <2>2 DEF Whole
<1> QED
  BY <1>1, StagingInvInit, StagingInvStep, PTL DEF StagingSpec

-----------------------------------------------------------------------------
(* The executor.                                                           *)

ExecSpec == ExecInit /\ [][ExecNext]_execVars

Living == {"begun", "apart", "named", "inside", "serving"}
OrderStages == {"new", "running", "answered", "listening", "bridged", "ending", "lost"}

ExecTypeOK ==
    /\ boot \in {"off", "cleaned", "spawned", "read", "wired", "on", "closed"}
    /\ execProc \in Pids \cup {NoPid}
    /\ stage \in [Pids -> Living \cup {"foreign", "dead"}]
    /\ pidFile \in Pids \cup {NoPid} /\ sockFile \in Pids \cup {NoPid}
    /\ veth \in Pids \cup {NoPid}
    /\ order \in [Orders -> [at : OrderStages, process : BOOLEAN]]

\* The one process that lives as an executor is the one the agent spawned; it is
\* inside only with the veth, and the agent has gone on from the pid file only
\* with the pid of its own.
ExecutorInv ==
    /\ \A p \in Pids : stage[p] \in Living => p = execProc
    /\ \A p \in Pids : stage[p] \in {"inside", "serving"} => veth = p
    /\ boot \in {"off", "cleaned", "closed"} => execProc = NoPid /\ veth = NoPid
    /\ boot = "read" => pidFile = execProc
    /\ veth # NoPid => veth = execProc

\* A process or a socket belongs to a request under way, or to an earlier boot.
OrdersInv ==
    \A o \in Orders :
        /\ order[o].at \in {"new", "answered"} => ~order[o].process
        /\ boot # "off" /\ o \in leftovers => order[o].at \in {"listening", "bridged", "ending", "lost"}

ExecInv == ExecTypeOK /\ ExecutorInv /\ OrdersInv

\* The invariant of the executor holds at the start.
LEMMA ExecInitInv == ExecInit => ExecInv
  BY DEF ExecInit, ExecInv, ExecTypeOK, ExecutorInv, OrdersInv, Living, OrderStages, NewOrder

\* It implies that nothing is left behind.
LEMMA ExecInvSound == ExecInv => NoneLeftBehind
<1> SUFFICES ASSUME ExecInv PROVE NoneLeftBehind
  OBVIOUS
<1>1. VethHome
  BY DEF ExecInv, ExecTypeOK, ExecutorInv, VethHome, Serving
<1>2. AnsweredMeansGone
  BY DEF ExecInv, OrdersInv, AnsweredMeansGone
<1> QED
  BY <1>1, <1>2 DEF NoneLeftBehind
Machines == << boot, execProc, stage, pidFile, sockFile, veth >>

\* A request's own steps: what it is, and what it leaves on disk.
LEMMA OrderStepKeeps ==
    ASSUME ExecInv, NEW o \in Orders, NEW v \in [at : OrderStages, process : BOOLEAN],
           order' = [order EXCEPT ![o] = v], UNCHANGED Machines,
           v.at \in {"new", "answered"} => ~v.process,
           \/ leftovers' = leftovers /\ order[o].at \in {"new", "running", "answered"}
           \/ leftovers' = leftovers /\ v.at \in {"listening", "bridged", "ending", "lost"}
           \/ leftovers' = leftovers \cup {o} /\ v.at = "listening"
           \/ leftovers' = leftovers \ {o}
    PROVE  ExecInv'
<1>1. ExecTypeOK'
  BY DEF ExecInv, ExecTypeOK, Machines
<1>2. ExecutorInv'
  BY DEF ExecInv, ExecutorInv, Machines
<1>3. ASSUME NEW u \in Orders
      PROVE  /\ (order[u].at \in {"new", "answered"} => ~order[u].process)'
             /\ (boot # "off" /\ u \in leftovers => order[u].at \in {"listening", "bridged", "ending", "lost"})'
  <2>1. order'[u] = IF u = o THEN v ELSE order[u]
    BY DEF ExecInv, ExecTypeOK
  <2> QED
    BY <2>1 DEF ExecInv, OrdersInv, Machines
<1> QED
  BY <1>1, <1>2, <1>3 DEF ExecInv, OrdersInv

\* A step of one order keeps it.
LEMMA OrdersKeep ==
    ASSUME ExecInv, NEW o \in Orders,
           \/ RunShell(o) \/ ShellTimesOut(o) \/ ShellExits(o)
           \/ StartMcp(o) \/ StartMcpFails(o) \/ ClientConnects(o)
           \/ BridgeEnds(o) \/ ServerDies(o) \/ BridgeCleans(o) \/ AskAgain(o)
    PROVE  ExecInv'
<1> DEFINE R == [at : OrderStages, process : BOOLEAN]
<1>0. order[o] \in R /\ UNCHANGED Machines
  BY DEF ExecInv, ExecTypeOK, Machines, RunShell, ShellTimesOut, ShellExits, StartMcp, StartMcpFails,
     ClientConnects, BridgeEnds, ServerDies, BridgeCleans, AskAgain, still, files
<1>1. CASE RunShell(o)
  <2>1. [at |-> "running", process |-> TRUE] \in R
    BY DEF OrderStages
  <2> QED
    BY <1>0, <1>1, <2>1, OrderStepKeeps DEF RunShell, Step
<1>2. CASE ShellTimesOut(o) \/ ShellExits(o) \/ StartMcpFails(o)
  <2>1. [at |-> "answered", process |-> FALSE] \in R
    BY DEF OrderStages
  <2> QED
    BY <1>0, <1>2, <2>1, OrderStepKeeps DEF ShellTimesOut, TimeoutKillsGroup, ShellExits, StartMcpFails, Step
<1>3. CASE StartMcp(o)
  <2>1. [at |-> "listening", process |-> TRUE] \in R
    BY DEF OrderStages
  <2> QED
    BY <1>0, <1>3, <2>1, OrderStepKeeps DEF StartMcp, Step
<1>4. CASE ClientConnects(o) \/ BridgeEnds(o)
  <2> PICK a \in {"bridged", "ending"} : order' = [order EXCEPT ![o] = [order[o] EXCEPT !.at = a]]
    BY <1>4 DEF ClientConnects, BridgeEnds, Step
  <2>1. [order[o] EXCEPT !.at = a] \in R /\ [order[o] EXCEPT !.at = a].at = a
    BY <1>0 DEF OrderStages
  <2>2. leftovers' = leftovers
    BY <1>4 DEF ClientConnects, BridgeEnds
  <2> QED
    BY <1>0, <2>1, <2>2, OrderStepKeeps
<1>5. CASE ServerDies(o)
  <2> DEFINE v == [order[o] EXCEPT !.process = FALSE]
  <2>1. v \in R /\ v.at = order[o].at /\ ~v.process
    BY <1>0
  <2>2. /\ leftovers' = leftovers /\ order' = [order EXCEPT ![o] = v]
        /\ order[o].at \in {"listening", "bridged", "lost"}
    BY <1>5 DEF ServerDies
  <2> HIDE DEF v
  <2> QED
    BY <1>0, <2>1, <2>2, OrderStepKeeps
<1>6. CASE BridgeCleans(o)
  <2>1. [at |-> "answered", process |-> FALSE] \in R
    BY DEF OrderStages
  <2> QED
    BY <1>0, <1>6, <2>1, OrderStepKeeps DEF BridgeCleans, Reaped, Step
<1>7. CASE AskAgain(o)
  <2> DEFINE v == [order[o] EXCEPT !.at = "new"]
  <2>1. v \in R /\ v.at = "new" /\ v.process = order[o].process
    BY <1>0 DEF OrderStages
  <2>2. /\ leftovers' = leftovers /\ order' = [order EXCEPT ![o] = v] /\ order[o].at = "answered"
    BY <1>7 DEF AskAgain
  <2>3. ~order[o].process
    BY <2>2 DEF ExecInv, OrdersInv
  <2> HIDE DEF v
  <2> QED
    BY <1>0, <2>1, <2>2, <2>3, OrderStepKeeps
<1> QED
  BY <1>1, <1>2, <1>3, <1>4, <1>5, <1>6, <1>7

\* An executor that is torn down is dead, and no interface or proxy remains.
LEMMA TeardownKeeps ==
    ASSUME ExecInv, NEW next \in {"closed", "off"}, Teardown(next)
    PROVE  ExecutorInv' /\ stage' \in [Pids -> Living \cup {"foreign", "dead"}]
<1>1. ASSUME NEW p \in Pids PROVE stage'[p] \in {"foreign", "dead"}
  BY DEF ExecInv, ExecTypeOK, ExecutorInv, Teardown
<1>2. \A p \in Pids : stage'[p] \notin Living
  BY <1>1 DEF Living
<1> QED
  BY <1>1, <1>2 DEF ExecInv, ExecTypeOK, ExecutorInv, Teardown, Living

\* Orders that lose their executor are in a state of orders that the invariant allows.
LEMMA AbandonedKeeps ==
    ASSUME ExecInv, order' = Abandoned, leftovers' = leftovers
    PROVE  /\ order' \in [Orders -> [at : OrderStages, process : BOOLEAN]]
           /\ (boot = "off" => boot' = "off") => OrdersInv'
<1>1. ASSUME NEW o \in Orders
      PROVE  /\ order'[o] \in [at : OrderStages, process : BOOLEAN]
             /\ order'[o].at \in {"new", "lost"}
             /\ order'[o].at = "new" => ~order'[o].process /\ order[o].at = "new"
  <2>1. order[o] \in [at : OrderStages, process : BOOLEAN]
    BY DEF ExecInv, ExecTypeOK
  <2>2. order'[o] = IF order[o].at = "new" THEN NewOrder ELSE [order[o] EXCEPT !.at = "lost"]
    BY DEF Abandoned
  <2>3. CASE order[o].at = "new"
    BY <2>2, <2>3 DEF NewOrder, OrderStages
  <2>4. CASE order[o].at # "new"
    BY <2>1, <2>2, <2>4 DEF OrderStages
  <2> QED
    BY <2>3, <2>4
<1>2. order' \in [Orders -> [at : OrderStages, process : BOOLEAN]]
  BY <1>1 DEF Abandoned
<1>3. ASSUME boot = "off" => boot' = "off" PROVE OrdersInv'
  BY <1>1, <1>3 DEF ExecInv, OrdersInv
<1> QED
  BY <1>2, <1>3

\* A step of the start-up that leaves the requests alone.
LEMMA BootKeeps ==
    ASSUME ExecInv, UNCHANGED orderState, boot = "off" => boot' = "off"
    PROVE  OrdersInv' /\ order' \in [Orders -> [at : OrderStages, process : BOOLEAN]]
  BY DEF ExecInv, ExecTypeOK, OrdersInv, orderState
\* A step of the executor's own, or of the agent about it: process p of the agent
\* moves from one stage to another, and what it needs for it is there.
LEMMA ExecutorMoves ==
    ASSUME ExecInv, NEW p \in Pids, NEW to \in Living \cup {"dead"}, stage[p] \in Living,
           stage' = [stage EXCEPT ![p] = to], UNCHANGED << boot, execProc >>,
           pidFile' \in {pidFile, p}, sockFile' \in {sockFile, p},
           to \in {"inside", "serving"} => veth = p /\ veth' = veth,
           veth' = veth \/ (veth = p /\ veth' = NoPid /\ to = "dead")
    PROVE  /\ ExecutorInv' /\ UNCHANGED << boot, execProc >>
           /\ stage' \in [Pids -> Living \cup {"foreign", "dead"}]
           /\ pidFile' \in Pids \cup {NoPid} /\ sockFile' \in Pids \cup {NoPid}
           /\ veth' \in Pids \cup {NoPid}
<1>1. p = execProc /\ execProc # NoPid
  BY PidsAssumption DEF ExecInv, ExecutorInv
<1>2. \A q \in Pids : stage'[q] = IF q = p THEN to ELSE stage[q]
  BY DEF ExecInv, ExecTypeOK
<1>3. \A q \in Pids : stage[q] \in Living => q = p
  BY <1>1 DEF ExecInv, ExecutorInv
<1>4. \A q \in Pids : stage'[q] \in Living => q = execProc
  BY <1>1, <1>2, <1>3
<1>5. \A q \in Pids : stage'[q] \in {"inside", "serving"} => veth' = q
  BY <1>2, <1>3, PidsAssumption DEF ExecInv, ExecutorInv, Living
<1>6. ExecutorInv'
  BY <1>1, <1>4, <1>5 DEF ExecInv, ExecutorInv
<1> QED
  BY <1>6 DEF ExecInv, ExecTypeOK

\* Every step keeps the invariant.
LEMMA ExecNextKeeps == ExecInv /\ [ExecNext]_execVars => ExecInv'
<1> SUFFICES ASSUME ExecInv, [ExecNext]_execVars PROVE ExecInv'
  OBVIOUS
<1>1. ASSUME NEW failed \in BOOLEAN, CleanStale(failed) PROVE ExecInv'
  <2>1. OrdersInv' /\ order' = order
    BY <1>1 DEF CleanStale, ExecInv, OrdersInv
  <2>2. ExecutorInv' /\ ExecTypeOK'
    BY <1>1 DEF CleanStale, ExecInv, ExecutorInv, ExecTypeOK
  <2> QED
    BY <2>1, <2>2 DEF ExecInv
<1>2. ASSUME NEW p \in Pids, SpawnExecutor(p) PROVE ExecInv'
  <2>1. execProc = NoPid /\ veth = NoPid /\ boot = "cleaned"
    BY <1>2 DEF SpawnExecutor, ExecInv, ExecutorInv
  <2>2. \A q \in Pids : stage[q] \notin Living
    BY <2>1, PidsAssumption DEF ExecInv, ExecutorInv
  <2>3. /\ boot' = "spawned" /\ execProc' = p /\ stage' = [stage EXCEPT ![p] = "begun"]
        /\ UNCHANGED << pidFile, sockFile, veth >> /\ UNCHANGED orderState
    BY <1>2 DEF SpawnExecutor, files
  <2>4. \A q \in Pids : stage'[q] = IF q = p THEN "begun" ELSE stage[q]
    BY <2>3 DEF ExecInv, ExecTypeOK
  <2>5. stage' \in [Pids -> Living \cup {"foreign", "dead"}]
    BY <2>3 DEF ExecInv, ExecTypeOK, Living
  <2>6. ExecutorInv'
    BY <2>1, <2>2, <2>3, <2>4 DEF ExecutorInv, Living
  <2> QED
    BY <2>1, <2>3, <2>5, <2>6, BootKeeps DEF ExecInv, ExecTypeOK
<1>3. ASSUME NEW failed \in BOOLEAN, ReadPidFile(failed) PROVE ExecInv'
  <2>0. UNCHANGED orderState /\ UNCHANGED << pidFile, sockFile >> /\ boot = "spawned"
    BY <1>3 DEF ReadPidFile, files
  <2>1. CASE Teardown("closed")
    BY <2>0, <2>1, TeardownKeeps, BootKeeps DEF ExecInv, ExecTypeOK, Teardown
  <2>2. CASE pidFile = execProc /\ boot' = "read" /\ UNCHANGED << execProc, stage, veth, proxy >>
    BY <2>0, <2>2, BootKeeps DEF ExecInv, ExecTypeOK, ExecutorInv
  <2> QED
    BY <1>3, <2>1, <2>2 DEF ReadPidFile, PidIsOurs
<1>4. ASSUME NEW failed \in BOOLEAN, CreateNetns(failed) PROVE ExecInv'
  <2>0. UNCHANGED orderState /\ UNCHANGED << pidFile, sockFile >> /\ boot = "read"
    BY <1>4 DEF CreateNetns, files
  <2>1. CASE Teardown("closed")
    BY <2>0, <2>1, TeardownKeeps, BootKeeps DEF ExecInv, ExecTypeOK, Teardown
  <2>2. CASE boot' = "wired" /\ veth' = pidFile /\ UNCHANGED << execProc, stage, proxy >>
    <3>1. pidFile = execProc
      BY <2>0 DEF ExecInv, ExecutorInv
    <3>2. ExecutorInv'
      BY <2>0, <2>2, <3>1 DEF ExecInv, ExecutorInv, Living
    <3> QED
      BY <2>0, <2>2, <3>2, BootKeeps DEF ExecInv, ExecTypeOK
  <2> QED
    BY <1>4, <2>1, <2>2 DEF CreateNetns
<1>5. ASSUME NEW failed \in BOOLEAN, SpawnProxy(failed) PROVE ExecInv'
  <2>0. UNCHANGED orderState /\ UNCHANGED << pidFile, sockFile >> /\ boot = "wired"
    BY <1>5 DEF SpawnProxy, files
  <2>1. CASE Teardown("closed")
    BY <2>0, <2>1, TeardownKeeps, BootKeeps DEF ExecInv, ExecTypeOK, Teardown
  <2>2. CASE boot' = "on" /\ UNCHANGED << execProc, stage, veth >>
    BY <2>0, <2>2, BootKeeps DEF ExecInv, ExecTypeOK, ExecutorInv
  <2> QED
    BY <1>5, <2>1, <2>2 DEF SpawnProxy
<1>6. CASE Shutdown
  <2>1. Teardown("off") /\ order' = Abandoned /\ leftovers' = leftovers /\ boot' = "off"
        /\ UNCHANGED << pidFile, sockFile >>
    BY <1>6 DEF Shutdown, files, Teardown
  <2> QED
    BY <2>1, TeardownKeeps, AbandonedKeeps DEF ExecInv, ExecTypeOK, Teardown
<1>7. CASE Kill
  <2>1. OrdersInv' /\ order' \in [Orders -> [at : OrderStages, process : BOOLEAN]]
    BY <1>7 DEF Kill, OrdersInv, NewOrder, OrderStages
  <2>2. ExecutorInv'
    BY <1>7 DEF Kill, ExecutorInv, Living
  <2> QED
    BY <1>7, <2>1, <2>2 DEF Kill, files, ExecInv, ExecTypeOK
<1>8. ASSUME NEW p \in Pids,
             Unshare(p) \/ WritePidFile(p) \/ IfaceAppears(p) \/ IfaceTimeout(p) \/ Listen(p)
      PROVE  ExecInv'
  <2>1. UNCHANGED << boot, execProc, veth >> /\ UNCHANGED orderState
    BY <1>8 DEF Unshare, WritePidFile, IfaceAppears, IfaceTimeout, Listen
  <2>2. pidFile' \in {pidFile, p} /\ sockFile' \in {sockFile, p}
    BY <1>8 DEF Unshare, WritePidFile, IfaceAppears, IfaceTimeout, Listen, files
  <2>3. \E to \in Living \cup {"dead"} :
          /\ stage[p] \in Living /\ stage' = [stage EXCEPT ![p] = to]
          /\ to \in {"inside", "serving"} => veth = p
    <3>1. CASE Unshare(p) \/ WritePidFile(p)
      BY <3>1 DEF Unshare, WritePidFile, Moves, Living
    <3>2. CASE IfaceAppears(p) \/ IfaceTimeout(p)
      BY <3>2 DEF IfaceAppears, IfaceTimeout, Moves, Living
    <3>3. CASE Listen(p)
      BY <3>3 DEF Listen, Moves, Living, ExecInv, ExecutorInv
    <3> QED
      BY <1>8, <3>1, <3>2, <3>3
  <2>4. /\ ExecutorInv' /\ stage' \in [Pids -> Living \cup {"foreign", "dead"}]
        /\ pidFile' \in Pids \cup {NoPid} /\ sockFile' \in Pids \cup {NoPid}
        /\ veth' \in Pids \cup {NoPid}
    BY <2>1, <2>2, <2>3, ExecutorMoves
  <2> QED
    BY <2>1, <2>4, BootKeeps DEF ExecInv, ExecTypeOK
<1>9. ASSUME NEW p \in Pids, ExecutorDies(p) PROVE ExecInv'
  <2>1. /\ stage[p] \in Living /\ stage' = [stage EXCEPT ![p] = "dead"] /\ UNCHANGED << boot, execProc >>
        /\ pidFile' = pidFile /\ sockFile' = sockFile
        /\ veth' = veth \/ (veth = p /\ veth' = NoPid)
        /\ order' = Abandoned /\ leftovers' = leftovers
    BY <1>9 DEF ExecutorDies, files, Living
  <2>2. /\ ExecutorInv' /\ stage' \in [Pids -> Living \cup {"foreign", "dead"}]
        /\ veth' \in Pids \cup {NoPid}
    BY <2>1, ExecutorMoves DEF Living
  <2> QED
    BY <2>1, <2>2, AbandonedKeeps DEF ExecInv, ExecTypeOK
<1>10. CASE UNCHANGED execVars
  BY <1>10 DEF execVars, ExecInv, ExecTypeOK, ExecutorInv, OrdersInv
<1> QED
  BY <1>1, <1>2, <1>3, <1>4, <1>5, <1>6, <1>7, <1>8, <1>9, <1>10, OrdersKeep DEF ExecNext

\* Whatever dies or times out, the veth is in the namespace of the agent's own
\* executor, and an answered request leaves no process and no socket
\* (main.py:868-897, netns/executor.py:305-381).
THEOREM NoneLeftBehindHolds == ExecSpec => []NoneLeftBehind
  BY ExecInitInv, ExecNextKeeps, ExecInvSound, PTL DEF ExecSpec

-----------------------------------------------------------------------------
(* Approvals of MCP tools.                                                 *)

ApprovalsSpec == ApprovalsInit /\ [][ApprovalsNext]_mcpVars

RuntimeRows == [fp : Nat, list : Nat, listed : Nat, empty : Nat,
                state : {"none", "probing", "failed", "ok"}]
Listings    == [listed : Nat, list : Nat]
ProbeStates == [at : {"idle", "read", "dial"}, config : Nat, list : Nat]
Approvals   == [fp : Nat, list : Nat, seen : {"never", "now", "long ago"}]
McpRunSet   == [on : BOOLEAN, config : Nat, listed : Nat, ok : SUBSET ApprovalNames,
                list : Nat, token : BOOLEAN]

ApprTypeOK ==
    /\ config \in Nat /\ saves \in Nat /\ raced \in BOOLEAN
    /\ row \in RuntimeRows /\ body \in Listings /\ cache \in Listings
    /\ probing \in [Probes -> ProbeStates]
    /\ appr \in [ApprovalNames -> Approvals]
    /\ mcpRun \in McpRunSet

\* The row and the bodies are of one save, and a cached listing with the time of
\* the bodies is the bodies.
ListingInv ==
    /\ row.listed = body.listed /\ row.list = body.list
    /\ body.listed <= saves /\ cache.listed <= saves
    /\ cache.listed # 0 /\ cache.listed = body.listed => cache.list = body.list

\* The user said yes to name n for settings c and, unless it is all tools, schema l.
SaidYes(yes, n, c, l) == \E x \in yes : x[1] = n /\ x[2] = c /\ (n = "*" \/ x[3] = l)

\* As long as nothing has raced: probes, the row and the run are about the settings
\* and the listing of now, and every approval, recorded or taken by the run, is one
\* the user gave.
ProbesCurrent == \A p \in Probes : probing[p] # NoProbe => probing[p].config = config
RowCurrent    == row.fp # 0 => row.fp = config
RunCurrent    == mcpRun.on => /\ mcpRun.config = config /\ mcpRun.listed = row.listed
                              /\ mcpRun.list # 0 => mcpRun.list = row.list
RunConsented  == mcpRun.on => \A n \in mcpRun.ok : SaidYes(consent, n, config, row.list)
ApprConsented == \A n \in ApprovalNames : appr[n].fp # 0 => SaidYes(consent, n, appr[n].fp, appr[n].list)

WaivedInRun ==
    waived # NoCallYet => /\ mcpRun.on /\ mcpRun.list # 0 /\ mcpRun.ok # {}
                          /\ waived = [config |-> mcpRun.config, list |-> mcpRun.list]

ApprInv ==
    /\ ApprTypeOK /\ ListingInv /\ WaivedInRun
    /\ ~raced => ProbesCurrent /\ RowCurrent /\ RunCurrent /\ RunConsented /\ ApprConsented

\* The records of what is not there are of the types of those that are.
LEMMA ApprBlank ==
    /\ NoRuntime \in RuntimeRows /\ NoBody \in Listings /\ NoProbe \in ProbeStates
    /\ NoAppr \in Approvals /\ NoMcpRun \in McpRunSet
<1>1. NoRuntime \in RuntimeRows /\ NoBody \in Listings
  BY DEF NoRuntime, NoBody, RuntimeRows, Listings
<1>2. NoProbe \in ProbeStates /\ NoAppr \in Approvals
  BY DEF NoProbe, NoAppr, ProbeStates, Approvals
<1>3. NoMcpRun \in McpRunSet
  BY DEF NoMcpRun, McpRunSet
<1> QED
  BY <1>1, <1>2, <1>3

\* The invariant of approvals holds at the start.
LEMMA ApprInitInv == ApprovalsInit => ApprInv
<1> SUFFICES ASSUME ApprovalsInit PROVE ApprInv
  OBVIOUS
<1>1. ApprTypeOK
  BY ApprBlank DEF ApprovalsInit, ApprTypeOK
<1>2. ListingInv
  BY DEF ApprovalsInit, ListingInv, NoRuntime, NoBody
<1>3. WaivedInRun
  BY DEF ApprovalsInit, WaivedInRun
<1>4. ~mcpRun.on
  BY DEF ApprovalsInit, NoMcpRun
<1>5. ProbesCurrent /\ RowCurrent /\ RunCurrent /\ RunConsented
  BY <1>4 DEF ApprovalsInit, ProbesCurrent, RowCurrent, RunCurrent, RunConsented, NoRuntime
<1>6. ApprConsented
  BY DEF ApprovalsInit, ApprConsented, NoAppr
<1> QED
  BY <1>1, <1>2, <1>3, <1>5, <1>6 DEF ApprInv

\* It implies that a run uses unasked only what was agreed to.
LEMMA ApprInvSound == ApprInv => ConsentHolds
<1> SUFFICES ASSUME ApprInv, waived # NoCallYet, ~raced
             PROVE  \E x \in consent : x[2] = waived.config /\ (x[1] = "*" \/ x[3] = waived.list)
  BY DEF ConsentHolds
<1>1. /\ mcpRun.on /\ mcpRun.list # 0 /\ mcpRun.ok # {}
      /\ waived.config = mcpRun.config /\ waived.list = mcpRun.list
  BY DEF ApprInv, WaivedInRun
<1>2. PICK n \in mcpRun.ok : SaidYes(consent, n, config, row.list)
  BY <1>1 DEF ApprInv, RunConsented
<1>3. mcpRun.config = config /\ mcpRun.list = row.list
  BY <1>1 DEF ApprInv, RunCurrent
<1> QED
  BY <1>1, <1>2, <1>3 DEF SaidYes

\* A wider set of answers says all the narrower one said.
LEMMA SaidYesWider ==
    ASSUME NEW yes, NEW more, yes \subseteq more, NEW n, NEW c, NEW l, SaidYes(yes, n, c, l)
    PROVE  SaidYes(more, n, c, l)
  BY DEF SaidYes

\* What was agreed to just now has been agreed to.
LEMMA SaidYesNow ==
    ASSUME NEW yes, NEW n, NEW c, NEW l PROVE SaidYes(yes \cup {<<n, c, l>>}, n, c, l)
<1> DEFINE x == <<n, c, l>>
<1>1. x[1] = n /\ x[2] = c /\ x[3] = l
  OBVIOUS
<1> HIDE DEF x
<1>2. SaidYes(yes \cup {x}, n, c, l)
  BY <1>1 DEF SaidYes
<1> QED
  BY <1>2 DEF x

\* Every step keeps the types.
LEMMA ApprTypes == ApprTypeOK /\ [ApprovalsNext]_mcpVars => ApprTypeOK'
<1> SUFFICES ASSUME ApprTypeOK, [ApprovalsNext]_mcpVars PROVE ApprTypeOK'
  OBVIOUS
<1>1. CASE EditServer
  <2>1. raced' \in BOOLEAN
    BY <1>1, Zenon DEF EditServer
  <2> QED
    BY <1>1, <2>1, ApprBlank DEF EditServer, EditedRow, Agent, ApprTypeOK
<1>2. CASE NimoRestarts
  <2>1. row' \in RuntimeRows
    BY <1>2 DEF NimoRestarts, ApprTypeOK, RuntimeRows
  <2>2. mcpRun' \in McpRunSet
    BY <1>2 DEF NimoRestarts, ApprTypeOK, McpRunSet
  <2> QED
    BY <1>2, <2>1, <2>2, ApprBlank DEF NimoRestarts, ApprTypeOK
<1>3. ASSUME NEW p \in Probes, ProbeReads(p) \/ ProbeClaims(p) \/ ProbeFails(p) PROVE ApprTypeOK'
  <2>1. row' \in RuntimeRows
    BY <1>3 DEF ProbeReads, ProbeClaims, ProbeFails, ApprTypeOK, RuntimeRows
  <2>2. probing' \in [Probes -> ProbeStates]
    <3>1. [at |-> "read", config |-> config, list |-> 0] \in ProbeStates
          /\ [probing[p] EXCEPT !.at = "dial"] \in ProbeStates
      BY DEF ApprTypeOK, ProbeStates
    <3> QED
      BY <1>3, <3>1, ApprBlank DEF ProbeReads, ProbeClaims, ProbeFails, ApprTypeOK
  <2>3. UNCHANGED <<config, body, appr, cache, mcpRun, saves, raced>>
    BY <1>3 DEF ProbeReads, ProbeClaims, ProbeFails, Agent
  <2> QED
    BY <2>1, <2>2, <2>3 DEF ApprTypeOK
<1>4. ASSUME NEW p \in Probes, NEW list \in Lists, ProbeSaves(p, list) PROVE ApprTypeOK'
  <2>1. list \in Nat /\ saves + 1 \in Nat /\ row.empty \in Nat /\ probing[p].config \in Nat
    BY VersionsAssumption DEF Lists, ApprTypeOK, RuntimeRows, ProbeStates
  <2>2. row' \in RuntimeRows
    <3> DEFINE empty == IF list = 0 THEN row.empty + 1 ELSE 0
    <3>1. empty \in Nat
      BY <2>1
    <3> HIDE DEF empty
    <3>2. [fp |-> probing[p].config, list |-> list, listed |-> saves + 1, empty |-> empty,
           state |-> "ok"] \in RuntimeRows
      BY <2>1, <3>1 DEF RuntimeRows
    <3>3. [row EXCEPT !.empty = empty, !.state = "ok"] \in RuntimeRows
      BY <3>1 DEF ApprTypeOK, RuntimeRows
    <3> QED
      BY <1>4, <3>2, <3>3 DEF ProbeSaves, empty
  <2>3. appr' \in [ApprovalNames -> Approvals]
    BY <1>4 DEF ProbeSaves, ApprTypeOK, Approvals
  <2>4. body' \in Listings
    BY <1>4, <2>1 DEF ProbeSaves, ApprTypeOK, Listings
  <2>5. saves' = saves + 1 /\ raced' \in BOOLEAN /\ UNCHANGED <<config, cache, mcpRun>>
        /\ probing' = [probing EXCEPT ![p] = NoProbe]
    BY <1>4 DEF ProbeSaves, Agent
  <2> QED
    BY <2>1, <2>2, <2>3, <2>4, <2>5, ApprBlank DEF ApprTypeOK
<1>5. ASSUME NEW n \in ApprovalNames, ApprovalLapses(n) \/ RevokeInSettings(n) PROVE ApprTypeOK'
  <2>1. [appr[n] EXCEPT !.seen = "long ago"] \in Approvals
    BY DEF ApprTypeOK, Approvals
  <2>2. appr' \in [ApprovalNames -> Approvals]
    BY <1>5, <2>1, ApprBlank DEF ApprovalLapses, RevokeInSettings, ApprTypeOK
  <2> QED
    BY <1>5, <2>2 DEF ApprovalLapses, RevokeInSettings, Agent, ApprTypeOK
<1>6. \A n \in ApprovalNames : Recorded(n) \in Approvals
  BY DEF Recorded, ApprTypeOK, RuntimeRows, Approvals
<1>7. ASSUME NEW n \in ApprovalNames, ApproveInSettings(n) PROVE ApprTypeOK'
  BY <1>6, <1>7 DEF ApproveInSettings, Agent, ApprTypeOK
<1>8. CASE McpRunStarts
  <2>1. row.listed \in Nat
    BY DEF ApprTypeOK, RuntimeRows
  <2>2. EffectiveApprovals \in SUBSET ApprovalNames
    BY DEF EffectiveApprovals
  <2>3. mcpRun' \in McpRunSet
    BY <1>8, <2>1, <2>2 DEF McpRunStarts, ApprTypeOK, McpRunSet
  <2> QED
    BY <1>8, <2>3 DEF McpRunStarts, ApprTypeOK
<1>9. CASE McpToolsLoaded
  <2>1. cache.list \in Nat /\ body.list \in Nat
    BY DEF ApprTypeOK, Listings
  <2>2. PICK l \in Nat : mcpRun' = [mcpRun EXCEPT !.list = l]
    BY <1>9, <2>1 DEF McpToolsLoaded
  <2>3. mcpRun' \in McpRunSet
    BY <2>2 DEF ApprTypeOK, McpRunSet
  <2> QED
    BY <1>9, <2>3 DEF McpToolsLoaded, ApprTypeOK
<1>10. CASE CallWaived \/ McpRunEnds
  BY <1>10, ApprBlank DEF CallWaived, McpRunEnds, Agent, ApprTypeOK
<1>11. CASE CallRemembered
  <2>1. appr' \in [ApprovalNames -> Approvals]
    BY <1>6, <1>11 DEF CallRemembered, PutApproval, ApprovalNames, ApprTypeOK
  <2>2. mcpRun' \in McpRunSet
    BY <1>11 DEF CallRemembered, ApprTypeOK, McpRunSet, ApprovalNames
  <2> QED
    BY <1>11, <2>1, <2>2 DEF CallRemembered, ApprTypeOK
<1>12. CASE UNCHANGED mcpVars
  BY <1>12 DEF mcpVars, ApprTypeOK
<1> QED
  BY <1>1, <1>2, <1>3, <1>4, <1>5, <1>7, <1>8, <1>9, <1>10, <1>11, <1>12 DEF ApprovalsNext

\* A save replaces the listing in the row and in the bodies, or in neither.
LEMMA SaveIsWhole ==
    ASSUME ApprTypeOK, NEW p \in Probes, NEW list \in Lists, ProbeSaves(p, list)
    PROVE  \/ /\ row'.fp = probing[p].config /\ row'.listed = saves + 1 /\ row'.list = list
              /\ body' = [listed |-> saves + 1, list |-> list]
           \/ /\ row'.fp = row.fp /\ row'.listed = row.listed /\ row'.list = row.list
              /\ body' = body
<1> DEFINE empty == IF list = 0 THEN row.empty + 1 ELSE 0
<1>1. \/ /\ row' = [fp |-> probing[p].config, list |-> list, listed |-> saves + 1, empty |-> empty,
                    state |-> "ok"]
         /\ body' = [listed |-> saves + 1, list |-> list]
      \/ row' = [row EXCEPT !.empty = empty, !.state = "ok"] /\ body' = body
  BY Zenon DEF ProbeSaves
<1> HIDE DEF empty
<1>2. row \in RuntimeRows
  BY DEF ApprTypeOK
<1>3. LET r == [row EXCEPT !.empty = empty, !.state = "ok"]
      IN  r.fp = row.fp /\ r.listed = row.listed /\ r.list = row.list
  BY <1>2 DEF RuntimeRows
<1>4. CASE row' = [fp |-> probing[p].config, list |-> list, listed |-> saves + 1, empty |-> empty,
                   state |-> "ok"]
           /\ body' = [listed |-> saves + 1, list |-> list]
  BY <1>4
<1>5. CASE row' = [row EXCEPT !.empty = empty, !.state = "ok"] /\ body' = body
  BY <1>3, <1>5, Zenon
<1> QED
  BY <1>1, <1>4, <1>5, Zenon

\* Every step keeps listings with the version they were read at.
LEMMA ListingStays == ApprTypeOK /\ ListingInv /\ [ApprovalsNext]_mcpVars => ListingInv'
<1> SUFFICES ASSUME ApprTypeOK, ListingInv, [ApprovalsNext]_mcpVars PROVE ListingInv'
  OBVIOUS
<1>0. saves \in Nat /\ body.listed \in Nat /\ cache.listed \in Nat
  BY DEF ApprTypeOK, Listings
<1>1. CASE row'.listed = row.listed /\ row'.list = row.list /\ UNCHANGED <<body, cache, saves>>
  BY <1>1 DEF ListingInv
<1>2. CASE EditServer
  BY <1>0, <1>2 DEF EditServer, EditedRow, NoRuntime, NoBody, Agent, ListingInv
<1>3. CASE NimoRestarts
  BY <1>1, <1>3 DEF NimoRestarts, ApprTypeOK, RuntimeRows
<1>4. ASSUME NEW p \in Probes, ProbeReads(p) \/ ProbeClaims(p) \/ ProbeFails(p) PROVE ListingInv'
  BY <1>1, <1>4 DEF ProbeReads, ProbeClaims, ProbeFails, Agent, ApprTypeOK, RuntimeRows
<1>5. ASSUME NEW p \in Probes, NEW list \in Lists, ProbeSaves(p, list) PROVE ListingInv'
  <2>1. saves' = saves + 1 /\ cache' = cache
    BY <1>5 DEF ProbeSaves, Agent
  <2>2. CASE row'.listed = saves + 1 /\ row'.list = list /\ body' = [listed |-> saves + 1, list |-> list]
    BY <1>0, <2>1, <2>2 DEF ListingInv
  <2>3. CASE row'.listed = row.listed /\ row'.list = row.list /\ body' = body
    BY <1>0, <2>1, <2>3 DEF ListingInv
  <2> QED
    BY <1>5, <2>2, <2>3, SaveIsWhole
<1>6. ASSUME NEW n \in ApprovalNames, ApprovalLapses(n) \/ ApproveInSettings(n) \/ RevokeInSettings(n)
      PROVE  ListingInv'
  BY <1>1, <1>6 DEF ApprovalLapses, ApproveInSettings, RevokeInSettings, Agent
<1>7. CASE McpToolsLoaded
  BY <1>0, <1>7 DEF McpToolsLoaded, ListingInv
<1>8. CASE McpRunStarts \/ McpRunEnds \/ CallWaived \/ CallRemembered \/ UNCHANGED mcpVars
  BY <1>1, <1>8 DEF McpRunStarts, McpRunEnds, CallWaived, CallRemembered, Agent, mcpVars
<1> QED
  BY <1>2, <1>3, <1>4, <1>5, <1>6, <1>7, <1>8 DEF ApprovalsNext

\* Every step keeps the last unasked call one that the run's snapshot allows.
LEMMA WaivedStays == ApprTypeOK /\ WaivedInRun /\ [ApprovalsNext]_mcpVars => WaivedInRun'
<1> SUFFICES ASSUME ApprTypeOK, WaivedInRun, [ApprovalsNext]_mcpVars PROVE WaivedInRun'
  OBVIOUS
<1>1. CASE UNCHANGED <<waived, mcpRun>>
  BY <1>1 DEF WaivedInRun
<1>2. CASE waived' = NoCallYet
  BY <1>2 DEF WaivedInRun, NoCallYet
<1>3. CASE NimoRestarts
  <2>1. waived' = waived /\ mcpRun' = [mcpRun EXCEPT !.token = FALSE]
    BY <1>3 DEF NimoRestarts, Ghosts
  <2>2. mcpRun'.on = mcpRun.on /\ mcpRun'.list = mcpRun.list /\ mcpRun'.ok = mcpRun.ok
        /\ mcpRun'.config = mcpRun.config
    BY <2>1 DEF ApprTypeOK, McpRunSet
  <2> QED
    BY <2>1, <2>2 DEF WaivedInRun
<1>4. CASE McpToolsLoaded
  <2>1. waived' = waived /\ mcpRun.list = 0
    BY <1>4 DEF McpToolsLoaded, Ghosts
  <2> QED
    BY <1>2, <2>1 DEF WaivedInRun
<1>5. CASE CallWaived
  BY <1>5 DEF CallWaived, Agent, Waives, WaivedInRun
<1>6. CASE CallRemembered
  <2>1. waived' = waived /\ mcpRun' = [mcpRun EXCEPT !.ok = @ \cup {"tool"}] /\ ~Waives
    BY <1>6 DEF CallRemembered
  <2>2. mcpRun'.on = mcpRun.on /\ mcpRun'.list = mcpRun.list /\ mcpRun'.ok = mcpRun.ok \cup {"tool"}
        /\ mcpRun'.config = mcpRun.config
    BY <2>1 DEF ApprTypeOK, McpRunSet
  <2> QED
    BY <2>1, <2>2 DEF WaivedInRun
<1>7. CASE EditServer \/ \E p \in Probes : \/ ProbeReads(p) \/ ProbeClaims(p) \/ ProbeFails(p)
                                          \/ \E list \in Lists : ProbeSaves(p, list)
  BY <1>1, <1>7 DEF EditServer, ProbeReads, ProbeClaims, ProbeFails, ProbeSaves, Agent, Ghosts
<1>8. CASE \E n \in ApprovalNames : ApprovalLapses(n) \/ ApproveInSettings(n) \/ RevokeInSettings(n)
  BY <1>1, <1>8 DEF ApprovalLapses, ApproveInSettings, RevokeInSettings, Agent, Ghosts
<1>9. CASE McpRunStarts \/ McpRunEnds \/ UNCHANGED mcpVars
  BY <1>1, <1>2, <1>9 DEF McpRunStarts, McpRunEnds, mcpVars
<1> QED
  BY <1>3, <1>4, <1>5, <1>6, <1>7, <1>8, <1>9 DEF ApprovalsNext

Current == ProbesCurrent /\ RowCurrent /\ RunCurrent /\ RunConsented /\ ApprConsented

\* A probe that reads, claims or fails stays with the settings as they are, as long as nothing raced.
LEMMA CurrentInOpen ==
    ASSUME ApprTypeOK, Current, ~raced', NEW p \in Probes,
           ProbeReads(p) \/ ProbeClaims(p) \/ ProbeFails(p)
    PROVE  Current'
<1>1. /\ row'.fp = row.fp /\ row'.listed = row.listed /\ row'.list = row.list
      /\ UNCHANGED <<config, mcpRun, appr, consent>>
  BY DEF ProbeReads, ProbeClaims, ProbeFails, Agent, Ghosts, ApprTypeOK, RuntimeRows
<1>2. RowCurrent' /\ RunCurrent' /\ RunConsented' /\ ApprConsented'
  BY <1>1 DEF Current, RowCurrent, RunCurrent, RunConsented, ApprConsented
<1>3. ASSUME NEW q \in Probes, probing'[q] # NoProbe PROVE probing'[q].config = config
  <2>1. CASE q # p
    <3>1. probing'[q] = probing[q]
      BY <2>1 DEF ProbeReads, ProbeClaims, ProbeFails, ApprTypeOK
    <3> QED
      BY <1>3, <3>1 DEF Current, ProbesCurrent
  <2>2. CASE q = p /\ ProbeReads(p)
    BY <2>2 DEF ProbeReads, ApprTypeOK
  <2>3. CASE q = p /\ ProbeClaims(p)
    <3>1. probing[p] # NoProbe /\ probing'[p] = [probing[p] EXCEPT !.at = "dial"]
      BY <1>3, <2>3 DEF ProbeClaims, ApprTypeOK, NoProbe
    <3>2. probing'[p].config = probing[p].config
      BY <3>1 DEF ApprTypeOK, ProbeStates
    <3> QED
      BY <2>3, <3>1, <3>2 DEF Current, ProbesCurrent
  <2>4. CASE q = p /\ ProbeFails(p)
    BY <1>3, <2>4 DEF ProbeFails, ApprTypeOK
  <2> QED
    BY <2>1, <2>2, <2>3, <2>4
<1>4. ProbesCurrent'
  BY <1>1, <1>3 DEF ProbesCurrent
<1> QED
  BY <1>2, <1>4 DEF Current

\* One that saves does so for them.
LEMMA CurrentSaved ==
    ASSUME ApprTypeOK, Current, ~raced', NEW p \in Probes, NEW list \in Lists, ProbeSaves(p, list)
    PROVE  Current'
<1>1. ~mcpRun.on /\ mcpRun' = mcpRun /\ config' = config /\ consent' = consent
  BY DEF ProbeSaves, Agent, Ghosts
<1>2. RunCurrent' /\ RunConsented'
  BY <1>1 DEF RunCurrent, RunConsented
<1>3. probing[p].config = config
  BY DEF ProbeSaves, Current, ProbesCurrent, NoProbe
<1>4. row'.fp \in {row.fp, config}
  BY <1>3, SaveIsWhole
<1>5. RowCurrent'
  BY <1>1, <1>4 DEF Current, RowCurrent
<1>6. ProbesCurrent'
  BY <1>1 DEF ProbeSaves, ApprTypeOK, Current, ProbesCurrent
<1>7. \A n \in ApprovalNames : appr'[n].fp = appr[n].fp /\ appr'[n].list = appr[n].list
  BY DEF ProbeSaves, ApprTypeOK, Approvals
<1>8. ApprConsented'
  BY <1>1, <1>7 DEF Current, ApprConsented
<1> QED
  BY <1>2, <1>5, <1>6, <1>8 DEF Current

\* An edit that raced with nothing finds no probe and no run under way.
LEMMA CurrentEdited ==
    ASSUME ApprTypeOK, Current, ~raced', EditServer
    PROVE  Current'
<1>1. /\ ~mcpRun.on /\ mcpRun' = mcpRun /\ consent' = consent /\ appr' = appr /\ probing' = probing
      /\ \A p \in Probes : probing[p] = NoProbe
  BY DEF EditServer, Agent, Ghosts
<1>2. row'.fp = 0
  BY DEF EditServer, EditedRow, NoRuntime
<1> QED
  BY <1>1, <1>2 DEF Current, ProbesCurrent, RowCurrent, RunCurrent, RunConsented, ApprConsented

\* The user's answers on the settings page.
LEMMA CurrentAnswered ==
    ASSUME ApprTypeOK, Current, ~raced', NEW n \in ApprovalNames,
           ApprovalLapses(n) \/ ApproveInSettings(n) \/ RevokeInSettings(n)
    PROVE  Current'
<1>1. UNCHANGED <<config, row, probing, mcpRun>>
  BY DEF ApprovalLapses, ApproveInSettings, RevokeInSettings, Agent
<1>2. ProbesCurrent' /\ RowCurrent' /\ RunCurrent'
  BY <1>1 DEF Current, ProbesCurrent, RowCurrent, RunCurrent
<1>3. ASSUME consent \subseteq consent' PROVE RunConsented'
  BY <1>1, <1>3, SaidYesWider DEF Current, RunConsented
<1>4. CASE ApprovalLapses(n)
  <2>1. \A m \in ApprovalNames : appr'[m].fp = appr[m].fp /\ appr'[m].list = appr[m].list
    BY <1>4 DEF ApprovalLapses, ApprTypeOK, Approvals
  <2>2. consent' = consent
    BY <1>4 DEF ApprovalLapses, Ghosts
  <2> QED
    BY <1>2, <1>3, <2>1, <2>2 DEF Current, ApprConsented
<1>5. CASE ApproveInSettings(n)
  <2>1. consent' = consent \cup {<<n, config, row.list>>} /\ appr' = [appr EXCEPT ![n] = Recorded(n)]
    BY <1>5 DEF ApproveInSettings
  <2>2. SaidYes(consent', n, config, row.list)
    BY <2>1, SaidYesNow
  <2>3. ASSUME NEW m \in ApprovalNames, appr'[m].fp # 0
        PROVE  SaidYes(consent', m, appr'[m].fp, appr'[m].list)
    <3>1. CASE m = n
      <4>1. appr'[m].fp = row.fp /\ (m = "*" \/ appr'[m].list = row.list)
        BY <2>1, <3>1 DEF Recorded, ApprTypeOK
      <4>2. row.fp = config
        BY <2>3, <4>1 DEF Current, RowCurrent
      <4> QED
        BY <2>2, <3>1, <4>1, <4>2 DEF SaidYes
    <3>2. CASE m # n
      <4>1. appr'[m] = appr[m]
        BY <2>1, <3>2 DEF ApprTypeOK
      <4> QED
        BY <2>1, <2>3, <4>1, SaidYesWider DEF Current, ApprConsented
    <3> QED
      BY <3>1, <3>2
  <2> QED
    BY <1>2, <1>3, <2>1, <2>3 DEF Current, ApprConsented
<1>6. CASE RevokeInSettings(n)
  <2>1. ~mcpRun.on /\ consent' = {x \in consent : x[1] # n} /\ appr' = [appr EXCEPT ![n] = NoAppr]
    BY <1>6 DEF RevokeInSettings
  <2>2. RunConsented'
    BY <1>1, <2>1 DEF RunConsented
  <2>3. ASSUME NEW m \in ApprovalNames, appr'[m].fp # 0
        PROVE  SaidYes(consent', m, appr'[m].fp, appr'[m].list)
    <3>1. m # n /\ appr'[m] = appr[m]
      BY <2>1, <2>3 DEF ApprTypeOK, NoAppr
    <3>2. SaidYes(consent, m, appr[m].fp, appr[m].list)
      BY <2>3, <3>1 DEF Current, ApprConsented
    <3> QED
      BY <2>1, <3>1, <3>2 DEF SaidYes
  <2> QED
    BY <1>2, <2>2, <2>3 DEF Current, ApprConsented
<1> QED
  BY <1>4, <1>5, <1>6
\* The run's steps.
LEMMA CurrentRun ==
    ASSUME ApprTypeOK, ListingInv, Current, ~raced',
           NimoRestarts \/ McpRunStarts \/ McpToolsLoaded \/ CallWaived \/ CallRemembered \/ McpRunEnds
    PROVE  Current'
<1> DEFINE kept == mcpRun'.on = mcpRun.on /\ mcpRun'.config = mcpRun.config
                   /\ mcpRun'.listed = mcpRun.listed
<1>1. CASE NimoRestarts
  <2>1. kept /\ mcpRun'.ok = mcpRun.ok /\ mcpRun'.list = mcpRun.list
    BY <1>1 DEF NimoRestarts, ApprTypeOK, McpRunSet
  <2>2. row'.fp = row.fp /\ row'.list = row.list /\ row'.listed = row.listed
    BY <1>1 DEF NimoRestarts, ApprTypeOK, RuntimeRows
  <2>3. UNCHANGED <<config, appr, consent>> /\ probing' = [p \in Probes |-> NoProbe]
    BY <1>1 DEF NimoRestarts, Ghosts
  <2> QED
    BY <2>1, <2>2, <2>3 DEF Current, ProbesCurrent, RowCurrent, RunCurrent, RunConsented, ApprConsented
<1>2. CASE McpRunStarts
  <2>1. UNCHANGED <<config, row, probing, appr, consent>>
    BY <1>2 DEF McpRunStarts
  <2>2. mcpRun'.config = config /\ mcpRun'.listed = row.listed /\ mcpRun'.ok = EffectiveApprovals
        /\ mcpRun'.list = 0
    BY <1>2 DEF McpRunStarts
  <2>3. ASSUME NEW n \in EffectiveApprovals PROVE SaidYes(consent, n, config, row.list)
    <3>1. n \in ApprovalNames /\ appr[n].fp # 0 /\ appr[n].fp = row.fp
          /\ (n = "*" \/ appr[n].list = row.list)
      BY DEF EffectiveApprovals
    <3>2. SaidYes(consent, n, appr[n].fp, appr[n].list) /\ row.fp = config
      BY <3>1 DEF Current, ApprConsented, RowCurrent
    <3> QED
      BY <3>1, <3>2 DEF SaidYes
  <2>4. ProbesCurrent' /\ RowCurrent' /\ ApprConsented'
    BY <2>1 DEF Current, ProbesCurrent, RowCurrent, ApprConsented
  <2>5. RunCurrent' /\ RunConsented'
    BY <2>1, <2>2, <2>3 DEF RunCurrent, RunConsented
  <2> QED
    BY <2>4, <2>5 DEF Current
<1>3. CASE McpToolsLoaded
  <2>1. UNCHANGED <<config, row, probing, appr, consent>> /\ mcpRun.on
    BY <1>3 DEF McpToolsLoaded, Ghosts
  <2>2. mcpRun.listed = row.listed /\ mcpRun.config = config
    BY <2>1 DEF Current, RunCurrent
  <2>3. PICK l : mcpRun' = [mcpRun EXCEPT !.list = l] /\ l = row.list
    BY <1>3, <2>2 DEF McpToolsLoaded, Cached, ListingInv
  <2>4. kept /\ mcpRun'.ok = mcpRun.ok /\ mcpRun'.list = row.list
    BY <2>3 DEF ApprTypeOK, McpRunSet
  <2> QED
    BY <2>1, <2>2, <2>4 DEF Current, ProbesCurrent, RowCurrent, RunCurrent, RunConsented, ApprConsented
<1>4. CASE CallWaived
  <2>1. UNCHANGED <<config, row, probing, appr, consent, mcpRun>>
    BY <1>4 DEF CallWaived, Agent
  <2> QED
    BY <2>1 DEF Current, ProbesCurrent, RowCurrent, RunCurrent, RunConsented, ApprConsented
<1>5. CASE CallRemembered
  <2>1. /\ UNCHANGED <<config, row, probing>> /\ mcpRun.on /\ mcpRun.list # 0
        /\ mcpRun' = [mcpRun EXCEPT !.ok = @ \cup {"tool"}]
        /\ consent' = consent \cup {<<"tool", mcpRun.config, mcpRun.list>>}
        /\ appr' = appr \/ appr' = [appr EXCEPT !["tool"] = Recorded("tool")]
    BY <1>5 DEF CallRemembered, PutApproval
  <2>2. kept /\ mcpRun'.ok = mcpRun.ok \cup {"tool"} /\ mcpRun'.list = mcpRun.list
    BY <2>1 DEF ApprTypeOK, McpRunSet
  <2>3. mcpRun.config = config /\ mcpRun.list = row.list
    BY <2>1 DEF Current, RunCurrent
  <2>4. SaidYes(consent', "tool", config, row.list)
    BY <2>1, <2>3, SaidYesNow
  <2>5. ProbesCurrent' /\ RowCurrent' /\ RunCurrent'
    BY <2>1, <2>2 DEF Current, ProbesCurrent, RowCurrent, RunCurrent
  <2>6. ASSUME NEW n \in mcpRun.ok \cup {"tool"} PROVE SaidYes(consent', n, config, row.list)
    <3>1. CASE n \in mcpRun.ok
      BY <2>1, <3>1, SaidYesWider DEF Current, RunConsented
    <3> QED
      BY <2>4, <2>6, <3>1
  <2>7. RunConsented'
    BY <2>1, <2>2, <2>6 DEF RunConsented
  <2>8. ASSUME NEW m \in ApprovalNames, appr'[m].fp # 0
        PROVE  SaidYes(consent', m, appr'[m].fp, appr'[m].list)
    <3>1. CASE m = "tool" /\ appr' # appr
      <4>1. appr'[m].fp = row.fp /\ appr'[m].list = row.list
        BY <2>1, <3>1 DEF Recorded, ApprTypeOK, ApprovalNames
      <4>2. row.fp = config
        BY <2>8, <4>1 DEF Current, RowCurrent
      <4> QED
        BY <2>4, <3>1, <4>1, <4>2
    <3>2. CASE m # "tool" \/ appr' = appr
      <4>1. appr'[m] = appr[m]
        BY <2>1, <3>2 DEF ApprTypeOK
      <4> QED
        BY <2>1, <2>8, <4>1, SaidYesWider DEF Current, ApprConsented
    <3> QED
      BY <3>1, <3>2
  <2>9. ApprConsented'
    BY <2>8 DEF ApprConsented
  <2> QED
    BY <2>5, <2>7, <2>9 DEF Current
<1>6. CASE McpRunEnds
  <2>1. UNCHANGED <<config, row, probing, appr, consent>> /\ ~mcpRun'.on
    BY <1>6 DEF McpRunEnds, NoMcpRun
  <2> QED
    BY <2>1 DEF Current, ProbesCurrent, RowCurrent, RunCurrent, RunConsented, ApprConsented
<1> QED
  BY <1>1, <1>2, <1>3, <1>4, <1>5, <1>6

\* Every step keeps the invariant.
LEMMA ApprNextKeeps == ApprInv /\ [ApprovalsNext]_mcpVars => ApprInv'
<1> SUFFICES ASSUME ApprInv, [ApprovalsNext]_mcpVars PROVE ApprInv'
  OBVIOUS
<1>0. ApprTypeOK /\ ListingInv /\ WaivedInRun /\ (~raced => Current)
  BY DEF ApprInv, Current
<1>1. ~raced' => ~raced
  BY DEF ApprovalsNext, EditServer, NimoRestarts, ProbeReads, ProbeClaims, ProbeFails, ProbeSaves,
     ApprovalLapses, ApproveInSettings, RevokeInSettings, McpRunStarts, McpToolsLoaded, CallWaived,
     CallRemembered, McpRunEnds, mcpVars
<1>2. ASSUME ~raced' PROVE Current'
  <2>1. Current
    BY <1>0, <1>1, <1>2
  <2>2. CASE UNCHANGED mcpVars
    BY <2>1, <2>2 DEF mcpVars, Current, ProbesCurrent, RowCurrent, RunCurrent, RunConsented, ApprConsented
  <2> QED
    BY <1>0, <1>2, <2>1, <2>2, CurrentInOpen, CurrentSaved, CurrentEdited, CurrentAnswered, CurrentRun
    DEF ApprovalsNext
<1> QED
  BY <1>0, <1>2, ApprTypes, ListingStays, WaivedStays DEF ApprInv, Current

\* Unless something races, a call without a card is one the user said yes to
\* (service/mcp_approvals.go, mcp_client/client.py).
THEOREM ConsentHoldsAlways == ApprovalsSpec => []ConsentHolds
  BY ApprInitInv, ApprNextKeeps, ApprInvSound, PTL DEF ApprovalsSpec

-----------------------------------------------------------------------------
(* The tools and connections a run's calls share.                          *)

GatingSpec == GatingInit /\ [][GatingNext]_gatingVars

SlotStates == [at : {"idle", "persist", "look", "fetch", "merge"} \cup Calling,
               server : Servers \cup {"none"}, want : SUBSET Servers, run : Nat]

GatingTypeOK ==
    /\ alive \in BOOLEAN /\ gateRuns \in Nat
    /\ gates \subseteq Servers /\ stored \subseteq Servers /\ conns \subseteq Servers
    /\ tools \in Seq(Servers)
    /\ slot \in [Slots -> SlotStates]
    /\ \A t \in Slots : slot[t].at # "idle" => slot[t].server \in Servers
    /\ open \in [Servers -> {0, 1}]

Dials(t, s) == slot[t].at = "dial" /\ slot[t].server = s

\* The lock of a server is held by the one call that dials it, for a server that
\* has no connection; what is open is the connections there are and those being
\* dialled; a finished run has neither.
DialAlone ==
    /\ \A s \in Servers : \A t, u \in Slots : Dials(t, s) /\ Dials(u, s) => t = u
    /\ \A s \in Servers : \A t \in Slots : Dials(t, s) => s \notin conns
OpenExact ==
    \A s \in Servers : open[s] = IF s \in conns \/ \E t \in Slots : Dials(t, s) THEN 1 ELSE 0
OffIdle == ~alive => conns = {} /\ \A t \in Slots : slot[t].at \notin Calling

GatingInv == GatingTypeOK /\ ToolsDistinct /\ DialAlone /\ OpenExact /\ OffIdle

\* A slot without a task is an idle one.
LEMMA NoTaskIdle == NoTask \in SlotStates /\ NoTask.at = "idle"
  BY DEF NoTask, SlotStates

\* The invariant of a run's tools holds at the start.
LEMMA GatingInitInv == GatingInit => GatingInv
<1> SUFFICES ASSUME GatingInit PROVE GatingInv
  OBVIOUS
<1>1. \A t \in Slots : slot[t] = NoTask
  BY DEF GatingInit
<1>2. GatingTypeOK
  <2>0. alive \in BOOLEAN
    BY Zenon DEF GatingInit
  <2>1. open \in [Servers -> {0, 1}] /\ tools \in Seq(Servers) /\ gateRuns \in Nat
    BY DEF GatingInit
  <2>2. slot \in [Slots -> SlotStates]
    BY NoTaskIdle DEF GatingInit
  <2> QED
    BY <1>1, <2>0, <2>1, <2>2, NoTaskIdle DEF GatingInit, GatingTypeOK
<1>3. ToolsDistinct
  BY DEF GatingInit, ToolsDistinct, IsInjective
<1> QED
  BY <1>1, <1>2, <1>3, NoTaskIdle DEF GatingInit, GatingInv, DialAlone, OpenExact, OffIdle, Dials, Calling

\* It implies that tools are listed once and connections are single.
LEMMA GatingInvSound == GatingInv => ToolsetSound
<1> SUFFICES ASSUME GatingInv PROVE OneConnPerServer
  BY DEF GatingInv, ToolsetSound
<1> SUFFICES ASSUME NEW s \in Servers PROVE open[s] <= IF alive THEN 1 ELSE 0
  BY DEF OneConnPerServer
<1>1. open[s] \in {0, 1}
  BY DEF GatingInv, GatingTypeOK
<1>2. CASE alive
  BY <1>1, <1>2
<1>3. CASE ~alive
  BY <1>3 DEF GatingInv, OpenExact, OffIdle, Dials, Calling
<1> QED
  BY <1>2, <1>3

\* The list a run starts from, and a server's tools added to a list without them.
LEMMA ListedOnce ==
    ASSUME NEW S, IsFiniteSet(S)
    PROVE  SetToSeq(S) \in Seq(S) /\ IsInjective(SetToSeq(S))
<1> DEFINE n == Cardinality(S)
           f == SetToSeq(S)
<1>1. n \in Nat /\ ExistsBijection(1..n, S)
  BY FS_CardinalityType
<1>2. f \in [1..n -> S] /\ IsInjective(f)
  BY <1>1 DEF ExistsBijection, Bijection, Injection, SetToSeq
<1> QED
  BY <1>1, <1>2

\* A list without repetition stays one when a new item is appended.
LEMMA MergedOnce ==
    ASSUME NEW S, NEW q \in Seq(S), IsInjective(q), NEW s \in S, s \notin ToSet(q)
    PROVE  Append(q, s) \in Seq(S) /\ IsInjective(Append(q, s))
<1> DEFINE r == Append(q, s)
<1>1. r \in Seq(S) /\ Len(r) = Len(q) + 1 /\ r[Len(q) + 1] = s /\ DOMAIN r = 1..Len(q) + 1
      /\ \A i \in 1..Len(q) : r[i] = q[i]
  OBVIOUS
<1>2. \A i \in 1..Len(q) : q[i] # s
  BY DEF ToSet
<1>3. \A i, j \in 1..Len(q) : q[i] = q[j] => i = j
  BY DEF IsInjective
<1> HIDE DEF r
<1>4. ASSUME NEW i \in DOMAIN r, NEW j \in DOMAIN r, r[i] = r[j] PROVE i = j
  <2>1. CASE i \in 1..Len(q) /\ j \in 1..Len(q)
    BY <1>1, <1>3, <1>4, <2>1
  <2>2. CASE i \in 1..Len(q) /\ j = Len(q) + 1
    BY <1>1, <1>2, <1>4, <2>2
  <2>3. CASE i = Len(q) + 1 /\ j \in 1..Len(q)
    BY <1>1, <1>2, <1>4, <2>3
  <2>4. CASE i = Len(q) + 1 /\ j = Len(q) + 1
    BY <2>4
  <2> QED
    BY <1>1, <2>1, <2>2, <2>3, <2>4
<1>5. IsInjective(r)
  BY <1>4 DEF IsInjective
<1> QED
  BY <1>1, <1>5 DEF r

\* Every step keeps each server's tools in the list once.
LEMMA ToolsStay == GatingInv /\ [GatingNext]_gatingVars => ToolsDistinct' /\ tools' \in Seq(Servers)
<1> SUFFICES ASSUME GatingInv, [GatingNext]_gatingVars
             PROVE  ToolsDistinct' /\ tools' \in Seq(Servers)
  OBVIOUS
<1>1. CASE tools' = tools
  BY <1>1 DEF GatingInv, GatingTypeOK, ToolsDistinct
<1>2. CASE GatedRunStarts
  <2>1. PICK loaded \in SUBSET stored : tools' = SetToSeq(loaded)
    BY <1>2 DEF GatedRunStarts
  <2>2. loaded \subseteq Servers /\ IsFiniteSet(loaded)
    BY <2>1, ServersAssumption, FS_Subset DEF GatingInv, GatingTypeOK
  <2>3. tools' \in Seq(loaded) /\ IsInjective(tools')
    BY <2>1, <2>2, ListedOnce
  <2> QED
    BY <2>2, <2>3 DEF ToolsDistinct
<1>3. ASSUME NEW t \in Slots, ExpandMerges(t) PROVE ToolsDistinct' /\ tools' \in Seq(Servers)
  <2>1. slot[t].server \in Servers
    BY <1>3 DEF ExpandMerges, GatingInv, GatingTypeOK
  <2>2. tools' = tools \/ (slot[t].server \notin ToSet(tools) /\ tools' = Append(tools, slot[t].server))
    BY <1>3 DEF ExpandMerges, Merged
  <2>3. tools \in Seq(Servers) /\ IsInjective(tools)
    BY DEF GatingInv, GatingTypeOK, ToolsDistinct
  <2>4. CASE slot[t].server \notin ToSet(tools) /\ tools' = Append(tools, slot[t].server)
    <3>1. PICK s \in Servers : s = slot[t].server
      BY <2>1
    <3>2. tools' \in Seq(Servers) /\ IsInjective(tools')
      BY <2>3, <2>4, <3>1, MergedOnce
    <3> QED
      BY <3>2 DEF ToolsDistinct
  <2> QED
    BY <1>1, <2>2, <2>4
<1>4. ASSUME NEW t \in Slots,
             \/ ExpandPersists(t) \/ ExpandLooks(t) \/ ExpandFetches(t)
             \/ CallLocks(t) \/ CallConnects(t) \/ CallRefused(t) \/ CallReturns(t)
             \/ \E s \in Servers : ExpandOpens(t, s) \/ CallLooks(t, s)
      PROVE  tools' = tools
  BY <1>4 DEF ExpandPersists, ExpandLooks, ExpandFetches, CallLocks, CallConnects, CallRefused,
     CallReturns, ExpandOpens, CallLooks, Gated
<1>5. CASE GatedRunEnds \/ UNCHANGED gatingVars
  BY <1>1, <1>5 DEF GatedRunEnds, gatingVars
<1> QED
  BY <1>1, <1>2, <1>3, <1>4, <1>5 DEF GatingNext
SlotsTyped ==
    /\ slot \in [Slots -> SlotStates]
    /\ \A t \in Slots : slot[t].at # "idle" => slot[t].server \in Servers

Connections == SlotsTyped /\ DialAlone /\ OpenExact /\ OffIdle /\ open \in [Servers -> {0, 1}]
               /\ conns \subseteq Servers

\* What becomes of a slot that changes.
LEMMA SlotTurns ==
    ASSUME GatingInv, NEW t \in Slots, NEW v \in SlotStates, slot' = [slot EXCEPT ![t] = v],
           v.at # "idle" => v.server \in Servers
    PROVE  SlotsTyped' /\ slot'[t] = v /\ \A u \in Slots : u # t => slot'[u] = slot[u]
<1>1. slot \in [Slots -> SlotStates]
  BY DEF GatingInv, GatingTypeOK
<1>2. slot'[t] = v /\ (\A u \in Slots : u # t => slot'[u] = slot[u]) /\ slot' \in [Slots -> SlotStates]
  BY <1>1
<1> QED
  BY <1>2 DEF GatingInv, GatingTypeOK, SlotsTyped

\* A call that neither dials nor begins to leaves the connections alone.
LEMMA QuietTurn ==
    ASSUME GatingInv, NEW t \in Slots, NEW v \in SlotStates, slot' = [slot EXCEPT ![t] = v],
           v.at # "idle" => v.server \in Servers, UNCHANGED <<conns, open, alive>>,
           slot[t].at # "dial", v.at # "dial", v.at \in Calling => alive
    PROVE  Connections'
<1>1. SlotsTyped' /\ slot'[t] = v /\ \A u \in Slots : u # t => slot'[u] = slot[u]
  BY SlotTurns
<1>2. \A u \in Slots : \A s : Dials(u, s)' <=> Dials(u, s)
  BY <1>1 DEF Dials
<1>3. DialAlone' /\ OpenExact'
  BY <1>2 DEF GatingInv, DialAlone, OpenExact
<1>4. OffIdle'
  BY <1>1 DEF GatingInv, OffIdle
<1> QED
  BY <1>1, <1>3, <1>4 DEF GatingInv, GatingTypeOK, Connections

\* Every step keeps the connections to one per server.
LEMMA ConnsStay == GatingInv /\ [GatingNext]_gatingVars => Connections'
<1> SUFFICES ASSUME GatingInv, [GatingNext]_gatingVars PROVE Connections'
  OBVIOUS
<1>0. \A t \in Slots : /\ slot[t] \in SlotStates
                       /\ slot[t].at # "idle" => slot[t].server \in Servers
                       /\ slot[t].at \in Calling => alive
  BY DEF GatingInv, GatingTypeOK, OffIdle
<1>1. ASSUME NEW t \in Slots, NEW s \in Servers, NEW a \in {"persist", "call", "lock"},
             NEW want \in SUBSET Servers
      PROVE  /\ Doing(a, s, want) \in SlotStates /\ Doing(a, s, want).at = a
             /\ Doing(a, s, want).server = s
  BY DEF Doing, SlotStates, GatingInv, GatingTypeOK, Calling
<1>2. ASSUME NEW t \in Slots, NEW a \in {"look", "fetch", "merge", "dial", "call"}
      PROVE  LET v == [slot[t] EXCEPT !.at = a]
             IN  v \in SlotStates /\ v.at = a /\ v.server = slot[t].server
  BY <1>0 DEF SlotStates, Calling
<1>3. ASSUME NEW t \in Slots, slot' = [slot EXCEPT ![t] = NoTask], UNCHANGED <<conns, open, alive>>,
             slot[t].at # "dial"
      PROVE  Connections'
  BY <1>3, NoTaskIdle, QuietTurn DEF Calling
<1>4. ASSUME NEW t \in Slots, NEW a \in {"look", "fetch", "merge"},
             slot' = [slot EXCEPT ![t] = [slot[t] EXCEPT !.at = a]], UNCHANGED <<conns, open, alive>>,
             slot[t].at \notin {"idle", "dial"}
      PROVE  Connections'
  <2> DEFINE v == [slot[t] EXCEPT !.at = a]
  <2>1. v \in SlotStates /\ v.at = a /\ v.server = slot[t].server
    <3>1. a \in {"look", "fetch", "merge", "dial", "call"}
      OBVIOUS
    <3> QED BY <1>2, <3>1, Zenon
  <2>2. slot' = [slot EXCEPT ![t] = v]
    BY <1>4
  <2> HIDE DEF v
  <2> QED
    BY <1>0, <1>4, <2>1, <2>2, QuietTurn DEF Calling
<1>5. ASSUME NEW t \in Slots, NEW s \in Servers, ExpandOpens(t, s) \/ CallLooks(t, s)
      PROVE  Connections'
  <2>1. alive /\ slot[t].at = "idle" /\ UNCHANGED <<conns, open, alive>>
    BY <1>5, NoTaskIdle DEF ExpandOpens, CallLooks, Connected
  <2>2. \E a \in {"persist", "call", "lock"} : \E want \in SUBSET Servers :
          slot' = [slot EXCEPT ![t] = Doing(a, s, want)]
    <3>1. gates \cup {s} \in SUBSET Servers
      BY DEF GatingInv, GatingTypeOK
    <3> QED
      BY <1>5, <3>1 DEF ExpandOpens, CallLooks, Turn
  <2>3. PICK a \in {"persist", "call", "lock"}, want \in SUBSET Servers :
          slot' = [slot EXCEPT ![t] = Doing(a, s, want)]
    BY <2>2
  <2> DEFINE v == Doing(a, s, want)
  <2>4. v \in SlotStates /\ v.at = a /\ v.server = s
    BY <1>1
  <2>5. slot' = [slot EXCEPT ![t] = v]
    BY <2>3
  <2> HIDE DEF v
  <2> QED
    BY <2>1, <2>4, <2>5, QuietTurn
<1>6. ASSUME NEW t \in Slots, ExpandPersists(t) \/ ExpandLooks(t) \/ ExpandFetches(t) \/ ExpandMerges(t)
      PROVE  Connections'
  <2>1. UNCHANGED <<conns, open, alive>> /\ slot[t].at \in {"persist", "look", "fetch", "merge"}
    BY <1>6 DEF ExpandPersists, ExpandLooks, ExpandFetches, ExpandMerges, Connected
  <2>2. \/ slot' = [slot EXCEPT ![t] = NoTask]
        \/ \E a \in {"look", "fetch", "merge"} : slot' = [slot EXCEPT ![t] = [slot[t] EXCEPT !.at = a]]
    BY <1>6 DEF ExpandPersists, ExpandLooks, ExpandFetches, ExpandMerges, Turn
  <2> QED
    BY <1>3, <1>4, <2>1, <2>2
<1>7. ASSUME NEW t \in Slots, CallReturns(t) PROVE Connections'
  BY <1>3, <1>7 DEF CallReturns, Turn, Connected
<1>8. ASSUME NEW t \in Slots, CallLocks(t) PROVE Connections'
  <2>1. PICK s \in Servers : s = slot[t].server
    BY <1>0, <1>8 DEF CallLocks
  <2>2. alive /\ slot[t].at = "lock" /\ UNCHANGED <<alive, conns>> /\ \A u \in Slots : ~Dials(u, s)
    BY <1>0, <1>8, <2>1 DEF CallLocks, Dials, Calling
  <2>3. CASE s \in conns
    <3> DEFINE v == [slot[t] EXCEPT !.at = "call"]
    <3>1. slot' = [slot EXCEPT ![t] = v] /\ open' = open
      BY <1>8, <2>1, <2>3 DEF CallLocks, LookAgain, Turn
    <3>2. v \in SlotStates /\ v.at = "call" /\ v.server = s
      BY <1>2, <2>1
    <3> HIDE DEF v
    <3> QED
      BY <2>2, <3>1, <3>2, QuietTurn
  <2>4. CASE s \notin conns
    <3> DEFINE v == [slot[t] EXCEPT !.at = "dial"]
    <3>1. slot' = [slot EXCEPT ![t] = v] /\ open' = [open EXCEPT ![s] = @ + 1]
      BY <1>8, <2>1, <2>4 DEF CallLocks, LookAgain, Turn
    <3>2. v \in SlotStates /\ v.at = "dial" /\ v.server = s
      BY <1>2, <2>1
    <3> HIDE DEF v
    <3>3. SlotsTyped' /\ slot'[t] = v /\ \A u \in Slots : u # t => slot'[u] = slot[u]
      BY <3>1, <3>2, SlotTurns
    <3>4. \A u \in Slots : \A r : Dials(u, r)' <=> Dials(u, r) \/ (u = t /\ r = s)
      BY <2>2, <3>2, <3>3 DEF Dials
    <3>5. open[s] = 0
      BY <2>2, <2>4 DEF GatingInv, OpenExact
    <3>6. open \in [Servers -> {0, 1}]
      BY DEF GatingInv, GatingTypeOK
    <3>7. open' = [open EXCEPT ![s] = 1]
      BY <3>1, <3>5
    <3>8. OpenExact' /\ open' \in [Servers -> {0, 1}]
      BY <2>2, <3>4, <3>6, <3>7 DEF GatingInv, OpenExact
    <3>9. DialAlone'
      BY <2>2, <2>4, <3>4 DEF GatingInv, DialAlone
    <3>10. OffIdle'
      BY <2>2 DEF OffIdle
    <3> QED
      BY <2>2, <3>3, <3>8, <3>9, <3>10 DEF Connections, GatingInv, GatingTypeOK
  <2> QED
    BY <2>3, <2>4
<1>9. ASSUME NEW t \in Slots, CallConnects(t) \/ CallRefused(t) PROVE Connections'
  <2>1. PICK s \in Servers : s = slot[t].server
    BY <1>0, <1>9 DEF CallConnects, CallRefused
  <2>2. alive /\ alive' /\ Dials(t, s) /\ s \notin conns /\ \A u \in Slots : Dials(u, s) => u = t
    BY <1>0, <1>9, <2>1 DEF CallConnects, CallRefused, Dials, Calling, GatingInv, DialAlone
  <2>3. PICK v \in SlotStates : v.at \in {"idle", "call"} /\ slot' = [slot EXCEPT ![t] = v]
                                /\ (v.at # "idle" => v.server \in Servers)
    <3>1. CASE CallConnects(t)
      BY <1>2, <2>1, <3>1 DEF CallConnects, Turn
    <3>2. CASE CallRefused(t)
      BY <3>2, NoTaskIdle DEF CallRefused, Turn
    <3> QED
      BY <1>9, <3>1, <3>2
  <2>4. SlotsTyped' /\ slot'[t] = v /\ \A u \in Slots : u # t => slot'[u] = slot[u]
    BY <2>3, SlotTurns
  <2>5. \A u \in Slots : \A r : Dials(u, r)' <=> Dials(u, r) /\ u # t
    BY <2>3, <2>4 DEF Dials
  <2>6. \A u \in Slots : ~Dials(u, s)'
    BY <2>2, <2>5
  <2>7. \A u \in Slots : \A r : r # s => (Dials(u, r)' <=> Dials(u, r))
    BY <2>2, <2>5 DEF Dials
  <2>8. open[s] = 1 /\ open \in [Servers -> {0, 1}]
    BY <2>2 DEF GatingInv, OpenExact, GatingTypeOK
  <2>9. CASE CallConnects(t)
    <3>1. conns' = conns \cup {s} /\ open' = open
      BY <2>1, <2>9 DEF CallConnects
    <3>2. OpenExact' /\ DialAlone' /\ OffIdle'
      BY <2>2, <2>6, <2>7, <2>8, <3>1 DEF GatingInv, OpenExact, DialAlone, OffIdle
    <3> QED
      BY <2>4, <2>8, <3>1, <3>2 DEF Connections, GatingInv, GatingTypeOK
  <2>10. CASE CallRefused(t)
    <3>1. conns' = conns /\ open' = [open EXCEPT ![s] = @ - 1]
      BY <2>1, <2>10 DEF CallRefused
    <3>2. open' = [open EXCEPT ![s] = 0]
      BY <2>8, <3>1
    <3>3. OpenExact' /\ DialAlone' /\ OffIdle'
      BY <2>2, <2>6, <2>7, <2>8, <3>1, <3>2 DEF GatingInv, OpenExact, DialAlone, OffIdle
    <3> QED
      BY <2>4, <2>8, <3>1, <3>2, <3>3 DEF Connections, GatingInv, GatingTypeOK
  <2> QED
    BY <1>9, <2>9, <2>10
<1>10. CASE GatedRunEnds
  <2>1. /\ ~alive' /\ conns' = {} /\ open' = Closed
        /\ slot' = [t \in Slots |-> IF slot[t].at \in Calling THEN NoTask ELSE slot[t]]
    BY <1>10 DEF GatedRunEnds
  <2>2. SlotsTyped' /\ \A t \in Slots : slot'[t].at \notin Calling
    BY <1>0, <2>1, NoTaskIdle DEF SlotsTyped, Calling
  <2>3. ASSUME NEW s \in Servers PROVE open'[s] = 0
    <3> DEFINE D == {t \in Slots : slot[t].at = "dial" /\ slot[t].server = s}
               c == IF s \in conns THEN 1 ELSE 0
    <3>1. open'[s] = open[s] - c - Cardinality(D)
      BY <2>1 DEF Closed
    <3>2. CASE D = {}
      <4>1. Cardinality(D) = 0
        BY <3>2, FS_EmptySet
      <4>2. open[s] = c
        BY <3>2 DEF GatingInv, OpenExact, Dials
      <4>3. c \in {0, 1}
        OBVIOUS
      <4> HIDE DEF c, D
      <4> QED
        BY <3>1, <4>1, <4>2, <4>3
    <3>3. CASE D # {}
      <4>1. PICK t \in Slots : Dials(t, s)
        BY <3>3 DEF Dials
      <4>2. D = {t}
        BY <4>1 DEF GatingInv, DialAlone, Dials
      <4>3. Cardinality(D) = 1
        BY <4>2, FS_Singleton
      <4>4. s \notin conns /\ open[s] = 1
        BY <4>1 DEF GatingInv, DialAlone, OpenExact
      <4>5. c = 0
        BY <4>4
      <4> HIDE DEF c, D
      <4> QED
        BY <3>1, <4>3, <4>4, <4>5
    <3> QED
      BY <3>2, <3>3
  <2>4. open' \in [Servers -> {0, 1}]
    BY <2>1, <2>3 DEF Closed
  <2>5. \A t \in Slots : \A s : ~Dials(t, s)'
    BY <2>2 DEF Dials, Calling
  <2>6. OpenExact' /\ DialAlone' /\ OffIdle'
    BY <2>1, <2>2, <2>3, <2>5 DEF OpenExact, DialAlone, OffIdle
  <2> QED
    BY <2>1, <2>2, <2>4, <2>6 DEF Connections
<1>11. CASE GatedRunStarts \/ UNCHANGED gatingVars
  <2>1. UNCHANGED <<slot, conns, open>> /\ (alive' \/ alive' = alive)
    BY <1>11 DEF GatedRunStarts, Connected, gatingVars
  <2> QED
    BY <2>1 DEF GatingInv, GatingTypeOK, Connections, SlotsTyped, DialAlone, OpenExact, OffIdle, Dials
<1> QED
  BY <1>5, <1>6, <1>7, <1>8, <1>9, <1>10, <1>11 DEF GatingNext

\* Every step keeps the types of the gates.
LEMMA GatesStay ==
    GatingInv /\ [GatingNext]_gatingVars =>
        alive' \in BOOLEAN /\ gateRuns' \in Nat /\ gates' \subseteq Servers /\ stored' \subseteq Servers
<1> SUFFICES ASSUME GatingInv, [GatingNext]_gatingVars
             PROVE  alive' \in BOOLEAN /\ gateRuns' \in Nat /\ gates' \subseteq Servers
                    /\ stored' \subseteq Servers
  OBVIOUS
<1>0. alive \in BOOLEAN /\ gateRuns \in Nat /\ gates \subseteq Servers /\ stored \subseteq Servers
      /\ \A t \in Slots : slot[t].want \subseteq Servers
  BY DEF GatingInv, GatingTypeOK, SlotStates
<1>1. CASE GatedRunStarts
  BY <1>0, <1>1 DEF GatedRunStarts
<1>2. CASE GatedRunEnds \/ UNCHANGED gatingVars
  BY <1>0, <1>2 DEF GatedRunEnds, gatingVars
<1>3. ASSUME NEW t \in Slots, NEW s \in Servers, ExpandOpens(t, s)
      PROVE  UNCHANGED <<alive, gateRuns, stored>> /\ gates' = gates \cup {s}
  BY <1>3 DEF ExpandOpens
<1>4. ASSUME NEW t \in Slots, ExpandPersists(t)
      PROVE  UNCHANGED <<alive, gateRuns, gates>> /\ stored' = slot[t].want
  BY <1>4 DEF ExpandPersists
<1>5. ASSUME NEW t \in Slots,
             \/ ExpandLooks(t) \/ ExpandFetches(t) \/ ExpandMerges(t) \/ CallLocks(t) \/ CallConnects(t)
             \/ CallRefused(t) \/ CallReturns(t) \/ \E s \in Servers : CallLooks(t, s)
      PROVE  UNCHANGED <<alive, gateRuns, gates, stored>>
  BY <1>5 DEF ExpandLooks, ExpandFetches, ExpandMerges, CallLocks, CallConnects, CallRefused,
     CallReturns, CallLooks, Gated
<1> QED
  BY <1>0, <1>1, <1>2, <1>3, <1>4, <1>5 DEF GatingNext

\* However the tool calls and the expanding threads of a run interleave, the agent
\* lists no tool twice and a server has one connection, none once the run is over
\* (tool_gating.py, mcp_client/client.py).
THEOREM ToolsetSoundHolds == GatingSpec => []ToolsetSound
<1>1. GatingInv /\ [GatingNext]_gatingVars => GatingInv'
  <2> SUFFICES ASSUME GatingInv, [GatingNext]_gatingVars PROVE GatingInv'
    OBVIOUS
  <2>1. Connections' /\ ToolsDistinct' /\ tools' \in Seq(Servers)
    BY ConnsStay, ToolsStay
  <2>2. alive' \in BOOLEAN /\ gateRuns' \in Nat /\ gates' \subseteq Servers /\ stored' \subseteq Servers
    BY GatesStay
  <2> QED
    BY <2>1, <2>2 DEF GatingInv, GatingTypeOK, Connections, SlotsTyped
<1> QED
  BY <1>1, GatingInitInv, GatingInvSound, PTL DEF GatingSpec

=============================================================================
