----------------------------- MODULE SubAgents -----------------------------
(***************************************************************************)
(* Sub-agents of one run (skills/orchestration.py delegate) and the file    *)
(* access they and the main agent ask for (fs/ops.py, fs/access_request.py).*)
(*                                                                         *)
(* Sub-agents run side by side behind a semaphore, each under its own       *)
(* ten-minute limit that includes the queueing.  A file tool that meets a   *)
(* path outside the session's visible_resources asks for it with a card;    *)
(* concurrent requests for one path share one card and one future, which    *)
(* its first asker owns.  A card waits for a day, so a sub-agent's limit    *)
(* may end an owner, or a follower, while the others still wait.            *)
(***************************************************************************)
EXTENDS Naturals, FiniteSets

CONSTANTS
  Subs,         \* delegate calls
  Locations,    \* paths outside the session's resources
  SystemRoots,  \* those below FS_DENY_ROOTS, which no policy may open
  Blacklisted,  \* those the ignore gate always blocks
  Concurrency,  \* DELEGATE_CONCURRENCY
  MaxTurnsRun,  \* bound: runs of the session
  MaxFlips    \* bound: policy changes and edits of the resource list

ASSUME SubsAssumption == Concurrency \in Nat \ {0} /\ SystemRoots \subseteq Locations
                         /\ Blacklisted \subseteq Locations /\ "nobody" \notin Subs

VARIABLES
  running,   \* is the session's run in progress
  sub,       \* the delegate calls: stage, path and what they were told
  owner,     \* _pending_requests: who owns the open card for a path
  batch,     \* the paths of the open batch card
  visible,   \* the visible_resources table
  denied,    \* _denied
  auto,      \* does the policy grant file access by itself
  spoiled,   \* paths whose shared future was cancelled while its owner waits on
  turnsRun, flips,
  byHand     \* ghost: paths a person has opened

subVars == << running, sub, owner, batch, visible, denied, auto, spoiled, turnsRun, flips, byHand >>

Nobody  == "nobody"
Nowhere == "nowhere"
IdleSub == [at |-> "idle", path |-> Nowhere, told |-> "no"]

SubInit ==
  /\ running = FALSE
  /\ sub = [c \in Subs |-> IdleSub]
  /\ owner = [p \in Locations |-> Nobody]
  /\ batch = {}
  /\ visible = {} /\ denied = {} /\ auto = FALSE /\ spoiled = {}
  /\ turnsRun = 0 /\ flips = 0 /\ byHand = {}

InSlot(c) == sub[c].at \in {"busy", "asking", "following"}

(* clear_denied_for_session at the start of every run.                      *)
SubRunStarts ==
  /\ ~running /\ turnsRun < MaxTurnsRun
  /\ running' = TRUE /\ turnsRun' = turnsRun + 1 /\ denied' = {}
  /\ UNCHANGED << sub, owner, batch, visible, auto, spoiled, flips, byHand >>

(* delegate: into the queue for the semaphore.                              *)
Delegate(c) ==
  /\ running /\ sub[c].at = "idle"
  /\ sub' = [sub EXCEPT ![c].at = "queued"]
  /\ UNCHANGED << running, owner, batch, visible, denied, auto, spoiled, turnsRun, flips,
                  byHand >>

Acquire(c) ==
  /\ sub[c].at = "queued"
  /\ Cardinality({d \in Subs : InSlot(d)}) < Concurrency
  /\ sub' = [sub EXCEPT ![c].at = "busy"]
  /\ UNCHANGED << running, owner, batch, visible, denied, auto, spoiled, turnsRun, flips, byHand >>

-----------------------------------------------------------------------------
(* Access.                                                                  *)

(* paths.resolve: below a visible folder, or a visible file.                *)
InScope(p) == p \in visible

(* ignore.gate: the implicit, the built-in and the user's blacklist.        *)
Blocked(p) == p \in Blacklisted

GrantableAny(ps) == auto

(* auto_approve and paths_policy_grantable: system locations are never      *)
(* opened by a policy.                                                      *)
PolicyGrants(ps) == auto /\ ps \cap SystemRoots = {}

(* A file operation outside scope: blacklisted and already denied paths are *)
(* refused on the spot; a request in flight is joined; the policy may grant *)
(* it; otherwise the caller opens a card and owns it.                       *)
RequestAccess(c, p) ==
  /\ sub[c].at = "busy" /\ ~InScope(p)
  /\ ~Blocked(p) /\ p \notin denied
  /\ IF owner[p] # Nobody
     THEN sub' = [sub EXCEPT ![c] = [at |-> "following", path |-> p,
                                     told |-> IF p \in spoiled THEN "cancelled" ELSE "no"]]
          /\ UNCHANGED << owner, visible >>
     ELSE IF PolicyGrants({p})
     THEN visible' = visible \cup {p} /\ UNCHANGED << owner, sub >>
     ELSE /\ sub' = [sub EXCEPT ![c] = [at |-> "asking", path |-> p, told |-> "no"]]
          /\ owner' = [owner EXCEPT ![p] = c]
          /\ UNCHANGED visible
  /\ UNCHANGED << running, batch, denied, auto, spoiled, turnsRun, flips, byHand >>

Followers(p) == {c \in Subs : sub[c].at = "following" /\ sub[c].path = p /\ sub[c].told = "no"}

(* set_result or set_exception on the shared future.                        *)
Told(subs, p, what) ==
  [c \in Subs |-> IF c \in Followers(p) THEN [subs[c] EXCEPT !.told = what] ELSE subs[c]]

(* The card is answered: decision recorded, path opened or remembered as    *)
(* denied, followers told, entry removed.                                   *)
AccessAnswered(p, yes) ==
  /\ owner[p] # Nobody
  /\ sub' = Told([sub EXCEPT ![owner[p]].at = "busy"], p, IF yes THEN "granted" ELSE "denied")
  /\ owner' = [owner EXCEPT ![p] = Nobody]
  /\ visible' = IF yes THEN visible \cup {p} ELSE visible
  /\ denied'  = IF yes THEN denied ELSE denied \cup {p}
  /\ byHand'  = IF yes THEN byHand \cup {p} ELSE byHand
  /\ spoiled' = spoiled \ {p}
  /\ UNCHANGED << running, batch, auto, turnsRun, flips >>

(* A follower wakes with the owner's answer.  A cancellation it was told    *)
(* of ends its sub-agent (delegate re-raises it).                           *)
FollowerWakes(c) ==
  /\ sub[c].at = "following" /\ sub[c].told # "no"
  /\ sub' = [sub EXCEPT ![c] = IF sub[c].told = "cancelled" THEN [IdleSub EXCEPT !.at = "ended"]
                               ELSE [IdleSub EXCEPT !.at = "busy"]]
  /\ UNCHANGED << running, owner, batch, visible, denied, auto, spoiled, turnsRun, flips,
                  byHand >>

(* The main agent's batch_fs asks for all its paths with one card, which is *)
(* neither shared nor remembered when it is denied.                         *)
BatchAsks(ps) ==
  /\ running /\ batch = {} /\ ps # {} /\ \A p \in ps : ~InScope(p) /\ ~Blocked(p)
  /\ IF PolicyGrants(ps) THEN visible' = visible \cup ps /\ UNCHANGED batch
     ELSE batch' = ps /\ UNCHANGED visible
  /\ UNCHANGED << running, sub, owner, denied, auto, spoiled, turnsRun, flips, byHand >>

BatchAnswered(yes) ==
  /\ batch # {} /\ batch' = {}
  /\ visible' = IF yes THEN visible \cup batch ELSE visible
  /\ byHand'  = IF yes THEN byHand \cup batch ELSE byHand
  /\ UNCHANGED << running, sub, owner, denied, auto, spoiled, turnsRun, flips >>

-----------------------------------------------------------------------------
(* Endings.                                                                 *)

CancelledSilent(c) ==
  [d \in Subs |-> IF d = c THEN [IdleSub EXCEPT !.at = "ended"] ELSE sub[d]]

(* A cancelled owner hands its exception to its followers; a cancelled      *)
(* follower cancels the future itself, and with it the other followers.     *)
Cancelled(c) ==
  LET others == [sub EXCEPT ![c] = [IdleSub EXCEPT !.at = "ended"]]
  IN  IF sub[c].at = "asking" \/ c \in Followers(sub[c].path)
      THEN [d \in Subs |-> IF d # c /\ d \in Followers(sub[c].path)
                           THEN [sub[d] EXCEPT !.told = "cancelled"] ELSE others[d]]
      ELSE others

Leave(c) == [p \in Locations |-> IF owner[p] = c THEN Nobody ELSE owner[p]]

(* The ten minutes are over, in the queue or inside.                        *)
DelegateTimesOut(c) ==
  /\ sub[c].at \in {"queued", "busy", "asking", "following"}
  /\ sub' = Cancelled(c) /\ owner' = Leave(c)
  /\ spoiled' = IF sub[c].at = "asking" THEN spoiled \ {sub[c].path}
                ELSE IF c \in Followers(sub[c].path) THEN spoiled \cup {sub[c].path}
                ELSE spoiled
  /\ UNCHANGED << running, batch, visible, denied, auto, turnsRun, flips, byHand >>

DelegateReturns(c) ==
  /\ sub[c].at = "busy"
  /\ sub' = [sub EXCEPT ![c].at = "ended"]
  /\ UNCHANGED << running, owner, batch, visible, denied, auto, spoiled, turnsRun, flips,
                  byHand >>

(* Stop: every card is answered no and everything in the run is cancelled.  *)
SubRunStopped ==
  /\ running /\ running' = FALSE
  /\ sub' = [c \in Subs |-> IdleSub] /\ owner' = [p \in Locations |-> Nobody] /\ batch' = {}
  /\ spoiled' = {}
  /\ UNCHANGED << visible, denied, auto, turnsRun, flips, byHand >>

SubRunFinishes ==
  /\ running /\ running' = FALSE
  /\ batch = {} /\ \A c \in Subs : sub[c].at \in {"idle", "ended"}
  /\ sub' = [c \in Subs |-> IdleSub]
  /\ UNCHANGED << owner, batch, visible, denied, auto, spoiled, turnsRun, flips, byHand >>

Toggling == flips < MaxFlips /\ flips' = flips + 1

ToggleAuto ==
  /\ Toggling /\ auto' = ~auto
  /\ UNCHANGED << running, sub, owner, batch, visible, denied, spoiled, turnsRun, byHand >>

(* The resource list is edited only while the session is idle.              *)
AddVisible(p) ==
  /\ Toggling /\ ~running /\ ~Blocked(p)
  /\ visible' = visible \cup {p} /\ byHand' = byHand \cup {p}
  /\ UNCHANGED << running, sub, owner, batch, denied, auto, spoiled, turnsRun >>

RemoveVisible(p) ==
  /\ Toggling /\ ~running /\ p \in visible
  /\ visible' = visible \ {p} /\ byHand' = byHand \ {p}
  /\ UNCHANGED << running, sub, owner, batch, denied, auto, spoiled, turnsRun >>

SubNext ==
  \/ SubRunStarts \/ SubRunStopped \/ SubRunFinishes \/ ToggleAuto
  \/ \E c \in Subs : \/ Delegate(c) \/ Acquire(c) \/ FollowerWakes(c)
                     \/ DelegateTimesOut(c) \/ DelegateReturns(c)
                     \/ \E p \in Locations : RequestAccess(c, p)
  \/ \E p \in Locations : \/ \E yes \in BOOLEAN : AccessAnswered(p, yes)
                          \/ AddVisible(p) \/ RemoveVisible(p)
  \/ \E ps \in SUBSET Locations : BatchAsks(ps)
  \/ \E yes \in BOOLEAN : BatchAnswered(yes)

-----------------------------------------------------------------------------
(* Nobody waits for an answer that cannot come: a call that joined another  *)
(* call's request either has been told the outcome, or the card it waits    *)
(* for is open and has an owner that will pass the answer on - whoever was  *)
(* cancelled, timed out or stopped meanwhile (fs/access_request.py:116-171).*)
NoStrandedWait ==
  \A c \in Subs : sub[c].at = "following" /\ sub[c].told = "no" =>
    LET o == owner[sub[c].path] IN o # Nobody /\ sub[o].at = "asking" /\ sub[o].path = sub[c].path

(* A system location becomes visible only by a person's hand: a click on    *)
(* its card or the settings page; no policy change at any moment opens it,  *)
(* alone or inside a batch (permissions.py:311-330,                         *)
(* fs/access_request.py:84-113).                                            *)
SystemByHand == visible \cap SystemRoots \subseteq byHand

=============================================================================
