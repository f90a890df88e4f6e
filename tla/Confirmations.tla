--------------------------- MODULE Confirmations ----------------------------
(***************************************************************************)
(* Confirmation cards, from the tool that asks to the answer it acts on:   *)
(* ConfirmManager (agent/confirm.py), the unattended TaskRunDriver and its *)
(* escalation (agent/tasks/driver.py, escalate.py), the chat side          *)
(* (agent/channels/driver.py and the cards of router.py), and the handlers *)
(* of main.py that answer a card, stop a run or ask on behalf of the       *)
(* egress proxy.                                                           *)
(*                                                                         *)
(* One asyncio thread: an action is what a coroutine does between two      *)
(* awaits.  Setting a card's event does not run the coroutine that waits   *)
(* on it: it wakes in a later step, and until then the card is pending and *)
(* further answers overwrite the first.                                    *)
(***************************************************************************)
EXTENDS Integers, Sequences

CONSTANTS
    TaskSessions,       \* sessions of unattended runs
    ChannelSessions,    \* sessions driven from a paired chat
    WebSessions,        \* sessions answered from the browser only
    MaxCards            \* bound on registered confirmations

Sessions == TaskSessions \cup ChannelSessions \cup WebSessions
Cards    == 1..MaxCards
Done     == 0                           \* the terminal event in a driver's queue

ASSUME ConstantsAssumption ==
    /\ MaxCards \in Nat
    /\ TaskSessions \cap ChannelSessions = {}
    /\ WebSessions \cap (TaskSessions \cup ChannelSessions) = {}
    /\ "none" \notin Sessions

VARIABLES
    run,        \* [Sessions -> RunStates]: the detached agent run
    card,       \* [Cards -> Card]: ConfirmManager's tables and the waiter
    next,       \* the next card id to allocate
    feed,       \* [Sessions -> Seq]: events the session's driver has not read
    driver,     \* [Sessions -> DriverStates]: TaskRunDriver / ChannelRunDriver
    sending,    \* [Sessions -> Cards \cup {0}]: the card a chat driver is sending
    esc,        \* [Cards -> EscStates]: escalation tasks
    shown,      \* cards in router._confirms, each with its timer
    stop,       \* sessions whose /stop is between cancelling and clearing
    grants,     \* ghost: cards someone entitled to has allowed, and no refusal ended
    outs,       \* ghost: [Cards -> Nat]: escalation outcomes reported
    quit        \* ghost: chats whose driver stopped reading before the end

vars == <<run, card, next, feed, driver, sending, esc, shown, stop, grants, outs,
          quit>>
router == <<sending, esc, shown, stop, outs>>

RunStates    == {"live", "stopping", "over"}
DriverStates == {"reading", "sending", "gone"}
EscStates    == {"none", "sending", "out"}
Kinds        == {"tool", "form", "link", "egress"}
Elicit       == {"form", "link"}        \* cards waited on with wait_elicit
Outcomes     == {"approved", "refused"}

\* `wait` follows the waiting coroutine; `yes` is what it reads when it wakes, the
\* action of an elicitation and the result of another card; `kept` says whether
\* _results, and _actions and _contents, hold an entry of the card; `got` is what
\* the waiter returned ("refused" is a no, a cancel, or an exception).
Card == [session : Sessions \cup {"none"}, kind : Kinds,
         wait : {"none", "parked", "done"}, event : BOOLEAN,
         yes : BOOLEAN, kept : SUBSET {"result", "action"},
         got : {"none"} \cup Outcomes]

NoCard == [session |-> "none", kind |-> "tool", wait |-> "none", event |-> FALSE,
           yes |-> FALSE, kept |-> {}, got |-> "none"]

Pending(c)  == card[c].wait = "parked"
Open(c)     == Pending(c) /\ ~card[c].event
OfSession(s) == {c \in Cards : card[c].session = s /\ Pending(c)}

(***************************************************************************)
(* ConfirmManager.                                                         *)
(***************************************************************************)
\* register, emit to the sink, and wait: no await in between suspends.
Register(s, k) ==
    /\ next \in Cards
    /\ run[s] = "live" \/ (run[s] = "stopping" /\ k = "egress")
    /\ card' = [card EXCEPT ![next] = [NoCard EXCEPT !.session = s, !.kind = k,
                                                     !.wait = "parked"]]
    /\ feed' = IF driver[s] = "gone" THEN feed
               ELSE [feed EXCEPT ![s] = Append(@, next)]
    /\ next' = next + 1
    /\ UNCHANGED <<run, driver, grants, quit>> /\ UNCHANGED router

\* The answered card.  A browser's answer may also carry an action (`accept`, or
\* `decline` and `cancel`), which is recorded beside the result whatever the
\* card's kind; no other caller passes one.
Recorded(x, v, acts) ==
    [x EXCEPT !.event = TRUE,
              !.yes = IF x.kind \in Elicit => acts THEN v = "allow" ELSE @,
              !.kept = @ \cup {"result"} \cup IF acts THEN {"action"} ELSE {}]
Answered(x, v) == Recorded(x, v, FALSE)

AcceptsAnySession(c, s) == Pending(c)

\* resolve: an expired card, or one of another session, raises KeyError, which
\* every caller turns into a refusal; the last answer before the wake-up wins.
Accepts(c, s) == Pending(c) /\ card[c].session = s

Resolved(c, s, v) == IF Accepts(c, s) THEN [card EXCEPT ![c] = Answered(@, v)] ELSE card

\* cancel_session: every pending card of the session is answered `no`; an
\* elicitation's recorded action stays.
Cancelled(s) ==
    [c \in Cards |-> IF c \in OfSession(s)
                     THEN Answered(card[c], "deny") ELSE card[c]]

\* What a waiter returns once the event is set.
Verdict(x) == IF x.yes THEN "approved" ELSE "refused"

\* wait or wait_elicit is left, on whatever path: _cleanup; wait_elicit pops all
\* there is of the answer, wait nothing yet.
Released(x, g) == [x EXCEPT !.wait = "done", !.event = FALSE, !.got = g, !.yes = FALSE,
                            !.kept = IF x.kind \in Elicit THEN {} ELSE @]

\* wait pops the result when it returns it, and on no other path; an action is
\* not its business.
Returned(x) == [Released(x, Verdict(x)) EXCEPT !.kept = @ \ {"result"}]

\* The waiter is gone.  (The ghost forgets a grant that nobody acted on.)
Ended(c, x) ==
    /\ card' = [card EXCEPT ![c] = x]
    /\ grants' = IF x.got = "approved" THEN grants ELSE grants \ {c}
    /\ UNCHANGED <<run, next, feed, driver, quit>> /\ UNCHANGED router

Wake(c) == Pending(c) /\ card[c].event /\ Ended(c, Returned(card[c]))

\* The wait's own timeout: DEFAULT_TIMEOUT for a tool or a form, 110 s for the
\* proxy, URL_ELICIT_WAIT for an authorization link, which counts as accepted.
\* It may win over an answer recorded in the same turn of the loop.
TimeoutVerdict(x) == IF x.kind = "link" THEN "approved" ELSE "refused"

WaitTimeout(c) == Pending(c) /\ Ended(c, Released(card[c], TimeoutVerdict(card[c])))

\* The run's cancellation reaches the waiting tool and is raised, an answer that
\* wait() has not read yet stays.  If the event is set and its own waiter has
\* run, asyncio.wait_for swallows the cancellation and wait() returns the
\* answer; wait_elicit looks at Task.cancelling() and raises again.
WakeCancelled(c) ==
    /\ Pending(c) /\ card[c].kind # "egress" /\ run[card[c].session] = "stopping"
    /\ \/ Ended(c, Released(card[c], "refused"))
       \/ card[c].event /\ card[c].kind \notin Elicit /\ Ended(c, Returned(card[c]))

(***************************************************************************)
(* The handlers of main.py.                                                *)
(***************************************************************************)
Granted(c, v, entitled) ==
    grants' = IF v = "allow" /\ entitled /\ Pending(c) THEN grants \cup {c} ELSE grants

\* confirm_session: POST /agent/sessions/{s}/confirm with the id of any card that
\* has not expired, and an action or none.  A card reads one of the two, `v`; one
\* sent to another session is refused.
PostConfirm(c, s, v, acts) ==
    /\ Accepts(c, s)
    /\ card' = [card EXCEPT ![c] = Recorded(@, v, acts)]
    /\ Granted(c, v, s = card[c].session /\ (card[c].kind \in Elicit => acts))
    /\ UNCHANGED <<run, next, feed, driver, quit>> /\ UNCHANGED router

Stopping(s) == run' = [run EXCEPT ![s] = IF @ = "live" THEN "stopping" ELSE @]

\* cancel_session: POST /agent/sessions/{s}/cancel, with something to cancel.
WebStop(s) ==
    /\ run[s] = "live" \/ OfSession(s) # {}
    /\ card' = Cancelled(s)
    /\ Stopping(s)
    /\ UNCHANGED <<next, feed, driver, grants, quit>> /\ UNCHANGED router

\* The agent run ends once its tools have returned, and emits `done`.
RunEnds(s) ==
    /\ run[s] # "over"
    /\ \A c \in OfSession(s) : card[c].kind = "egress"
    /\ run' = [run EXCEPT ![s] = "over"]
    /\ feed' = IF driver[s] = "gone" THEN feed
               ELSE [feed EXCEPT ![s] = Append(@, Done)]
    /\ UNCHANGED <<card, next, driver, grants, quit>> /\ UNCHANGED router

(***************************************************************************)
(* TaskRunDriver: nobody is watching, every card is answered or escalated. *)
(***************************************************************************)
Reading(s) == driver[s] = "reading" /\ feed[s] # <<>>
Read(s)    == feed' = [feed EXCEPT ![s] = Tail(@)]

\* _handle_confirm: the preauthorization or the policy allows it, or it is
\* denied, or (never an elicitation) it goes to the paired chat.
TaskConfirm(s) ==
    /\ s \in TaskSessions /\ Reading(s) /\ Head(feed[s]) # Done
    /\ Read(s)
    /\ LET c == Head(feed[s])
       IN \/ \E v \in {"allow", "deny"} :
               /\ v = "allow" => card[c].kind \notin Elicit
               /\ card' = Resolved(c, s, v) /\ Granted(c, v, TRUE)
               /\ UNCHANGED esc
          \/ /\ card[c].kind \notin Elicit
             /\ esc' = [esc EXCEPT ![c] = "sending"]
             /\ UNCHANGED <<card, grants>>
    /\ UNCHANGED <<run, next, driver, sending, shown, stop, outs, quit>>

\* drive's finally block: unsubscribe, and reject whatever is still pending.
DriveEnd(s) ==
    /\ driver' = [driver EXCEPT ![s] = "gone"]
    /\ feed' = [feed EXCEPT ![s] = <<>>]
    /\ card' = Cancelled(s)

TaskDone(s) ==
    /\ s \in TaskSessions /\ Reading(s) /\ Head(feed[s]) = Done
    /\ DriveEnd(s)
    /\ UNCHANGED <<run, next, grants, quit>> /\ UNCHANGED router

\* The run's deadline, or drive raised: the runner then cancels the agent task
\* (cancel_sink) in the same stretch.
TaskTimeout(s) ==
    /\ s \in TaskSessions /\ driver[s] = "reading"
    /\ DriveEnd(s) /\ Stopping(s)
    /\ UNCHANGED <<next, grants, quit>> /\ UNCHANGED router

EscalateShownUnregistered(c) ==
    /\ esc[c] = "sending"
    /\ esc' = [esc EXCEPT ![c] = "out"]
    /\ UNCHANGED <<run, card, next, feed, driver, sending, shown, stop, grants, outs, quit>>

\* Escalation: the send returned a message id, and the card is registered.
EscalateShown(c) ==
    /\ esc[c] = "sending"
    /\ esc' = [esc EXCEPT ![c] = "out"] /\ shown' = shown \cup {c}
    /\ UNCHANGED <<run, card, next, feed, driver, sending, stop, grants, outs, quit>>

EscalateFailsSilently(c) ==
    /\ esc[c] = "sending"
    /\ esc' = [esc EXCEPT ![c] = "out"]
    /\ outs' = [outs EXCEPT ![c] = @ + 1]
    /\ UNCHANGED <<run, card, next, feed, driver, sending, shown, stop, grants, quit>>

\* No target, no adapter, no buttons, or the send failed: deny and report.
EscalateFails(c) ==
    /\ esc[c] = "sending"
    /\ esc' = [esc EXCEPT ![c] = "out"]
    /\ card' = Resolved(c, card[c].session, "deny")
    /\ outs' = [outs EXCEPT ![c] = @ + 1]
    /\ UNCHANGED <<run, next, feed, driver, sending, shown, stop, grants, quit>>

(***************************************************************************)
(* ChannelRunDriver and the router's cards.                                *)
(***************************************************************************)
\* _surface_confirm: the policy answers, the chat has no buttons, or the card
\* goes out; the driver reads no further event meanwhile.
ChannelConfirm(s) ==
    /\ s \in ChannelSessions /\ Reading(s) /\ Head(feed[s]) # Done
    /\ Read(s)
    /\ LET c == Head(feed[s])
       IN \/ \E v \in {"allow", "deny"} :
               /\ v = "allow" => card[c].kind \notin Elicit
               /\ card' = Resolved(c, s, v) /\ Granted(c, v, TRUE)
               /\ UNCHANGED <<driver, sending>>
          \/ /\ driver' = [driver EXCEPT ![s] = "sending"]
             /\ sending' = [sending EXCEPT ![s] = c]
             /\ UNCHANGED <<card, grants>>
    /\ UNCHANGED <<run, next, esc, shown, stop, outs, quit>>

Sent(s) ==
    /\ driver[s] = "sending"
    /\ driver' = [driver EXCEPT ![s] = "reading"]
    /\ sending' = [sending EXCEPT ![s] = 0]

\* send_buttons returned: only now do the timer and the _confirms entry exist.
ChannelShown(s) ==
    /\ Sent(s) /\ shown' = shown \cup {sending[s]}
    /\ UNCHANGED <<run, card, next, feed, esc, stop, grants, outs, quit>>

\* It raised or returned no id: degrade to deny.
ChannelSendFails(s) ==
    /\ Sent(s) /\ card' = Resolved(sending[s], s, "deny")
    /\ UNCHANGED <<run, next, feed, esc, shown, stop, grants, outs, quit>>

\* `done`: the driver finishes.  run_timeout, or a send that raised at a tool
\* boundary: it stops reading while the run goes on.
ChannelQuit(s) ==
    /\ s \in ChannelSessions /\ driver[s] = "reading"
    /\ quit' = IF feed[s] # <<>> /\ Head(feed[s]) = Done THEN quit ELSE quit \cup {s}
    /\ driver' = [driver EXCEPT ![s] = "gone"]
    /\ feed' = [feed EXCEPT ![s] = <<>>]
    /\ UNCHANGED <<run, card, next, grants>> /\ UNCHANGED router

PoppedTwice(C) ==
    /\ shown' = shown
    /\ outs' = [c \in Cards |-> IF c \in C \cap shown /\ esc[c] = "out"
                                THEN outs[c] + 1 ELSE outs[c]]

\* An entry leaves _confirms, and an escalated one reports its outcome.
Popped(C) ==
    /\ shown' = shown \ C
    /\ outs' = [c \in Cards |-> IF c \in C \cap shown /\ esc[c] = "out"
                                THEN outs[c] + 1 ELSE outs[c]]

\* handle_confirm: a click in the chat of session `chat`; another chat's click
\* on the card is ignored.
Click(c, chat, v) ==
    /\ c \in shown /\ chat = card[c].session
    /\ Popped({c})
    /\ card' = Resolved(c, card[c].session, v)
    /\ Granted(c, v, chat = card[c].session)
    /\ UNCHANGED <<run, next, feed, driver, sending, esc, stop, quit>>

\* _on_confirm_timeout.
CardTimeout(c) ==
    /\ c \in shown
    /\ Popped({c})
    /\ card' = Resolved(c, card[c].session, "deny")
    /\ UNCHANGED <<run, next, feed, driver, sending, esc, stop, grants, quit>>

\* /stop: _channel_cancel_run cancels the task and waits up to 5 s...  (With no
\* run and no card there is nothing to do.)
StopBegin(s) ==
    /\ s \in ChannelSessions /\ s \notin stop
    /\ run[s] # "over" \/ \E c \in shown : card[c].session = s
    /\ Stopping(s) /\ stop' = stop \cup {s}
    /\ UNCHANGED <<card, next, feed, driver, sending, esc, shown, grants, outs, quit>>

\* ...then _clear_confirms_for_session denies what the router shows.
StopClear(s) ==
    /\ s \in stop
    /\ LET C == {c \in shown : card[c].session = s}
       IN /\ Popped(C)
          /\ card' = [c \in Cards |-> IF c \in C /\ Pending(c)
                                      THEN Answered(card[c], "deny") ELSE card[c]]
    /\ stop' = stop \ {s}
    /\ UNCHANGED <<run, next, feed, driver, sending, esc, grants, quit>>

Init ==
    /\ run = [s \in Sessions |-> "live"]
    /\ card = [c \in Cards |-> NoCard] /\ next = 1
    /\ feed = [s \in Sessions |-> <<>>]
    /\ driver = [s \in Sessions |-> IF s \in WebSessions THEN "gone" ELSE "reading"]
    /\ sending = [s \in Sessions |-> 0]
    /\ esc = [c \in Cards |-> "none"] /\ shown = {} /\ stop = {}
    /\ grants = {} /\ outs = [c \in Cards |-> 0] /\ quit = {}

DriverStep(s) ==
    \/ TaskConfirm(s) \/ TaskDone(s)
    \/ ChannelConfirm(s) \/ ChannelShown(s) \/ ChannelSendFails(s)

EscalateStep(c) == EscalateShown(c) \/ EscalateFails(c)

Next ==
    \/ \E s \in Sessions :
          \/ \E k \in Kinds : Register(s, k)
          \/ WebStop(s) \/ RunEnds(s) \/ DriverStep(s)
          \/ TaskTimeout(s) \/ ChannelQuit(s) \/ StopBegin(s) \/ StopClear(s)
    \/ \E c \in Cards :
          \/ Wake(c) \/ WaitTimeout(c) \/ WakeCancelled(c)
          \/ EscalateStep(c) \/ CardTimeout(c)
          \/ \E s \in Sessions, v \in {"allow", "deny"} :
                \/ Click(c, s, v)
                \/ \E acts \in BOOLEAN : PostConfirm(c, s, v, acts)

Spec == Init /\ [][Next]_vars

\* Coroutines that are ready run, timers fire, a cancellation is delivered; no
\* human ever has to answer, and the 24 h default never has to pass.
Fairness ==
    /\ \A c \in Cards : /\ WF_vars(Wake(c)) /\ WF_vars(WakeCancelled(c))
                        /\ WF_vars(EscalateStep(c)) /\ WF_vars(CardTimeout(c))
                        /\ WF_vars(WaitTimeout(c) /\ card[c].kind \in {"egress", "link"})
    /\ \A s \in Sessions : WF_vars(DriverStep(s))

FairSpec == Spec /\ Fairness

(***************************************************************************)
(* Properties.                                                             *)
(***************************************************************************)
\* A tool goes ahead only if someone entitled to answer that very card allowed
\* it: a POST on the card's own session, a click in its own chat, or the run's
\* preauthorization.  A POST to another session, a click in another chat, a
\* timeout, a stop or a lost card never approves; only an authorization link
\* is taken as accepted when its wait runs out.
ApprovedByRight ==
    \A c \in Cards : card[c].got = "approved" => c \in grants \/ card[c].kind = "link"

InFeed(c) == LET s == card[c].session
             IN driver[s] # "gone" /\ \E i \in DOMAIN feed[s] : feed[s][i] = c

\* "a tool coroutine can never be left parked on ConfirmManager's 24h default":
\* while a tool of an unattended or chat run waits and nobody has answered,
\* something other than a human is due to answer it: the driver has still to
\* read the card, the card is being sent or shown with its timer, or the run is
\* being cancelled.  The one way out is a chat driver that quit before its run.
CardsAttended ==
    \A c \in Cards :
        LET s == card[c].session
        IN Open(c) /\ s \in (TaskSessions \cup ChannelSessions) \ quit
           => \/ InFeed(c) \/ sending[s] = c \/ esc[c] = "sending" \/ c \in shown
              \/ run[s] = "stopping" \/ card[c].kind = "egress"

\* "on_resolved fires exactly once": an escalated card reports at most one
\* outcome, and only when its tool is not left waiting.
OutcomeOnce ==
    \A c \in Cards : outs[c] <= 1 /\ (outs[c] = 1 => ~Open(c) /\ c \notin shown)

\* "IN-MEMORY AND READ-ONCE by design ... Read-once on EVERY path, cancellation
\* included": when the waiter of an elicitation is gone, nothing of the answer is
\* left in memory.  For the other cards the code promises less and keeps less: a
\* result whose waiter was cancelled or timed out before it woke stays, and so
\* does an action posted to a card that reads none; only a result that was acted
\* on has been popped.
ReadOnce ==
    \A c \in Cards : ~Pending(c) =>
        /\ card[c].kind \in Elicit => card[c].kept = {}
        /\ card[c].got = "approved" => "result" \notin card[c].kept

\* An escalated card has one outcome, and an elicitation's answer one reader.
AnswersOnce == OutcomeOnce /\ ReadOnce

\* No tool of an unattended run waits for ever, even if no human ever looks and
\* the 24 h default never fires; nor one of a chat run whose driver stays.
ToolsReleased ==
    \A c \in Cards : Pending(c) /\ card[c].session \in TaskSessions \cup ChannelSessions
                     ~> ~Pending(c) \/ card[c].session \in quit

\* Every escalated card gets its outcome, and with OutcomeOnce exactly one.
EscalationSettles == \A c \in Cards : esc[c] = "sending" ~> outs[c] = 1
=============================================================================
