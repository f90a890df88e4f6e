------------------------ MODULE ConfirmationsProofs -------------------------
(***************************************************************************)
(* Proofs about Confirmations, for any sessions and any number of cards.   *)
(*                                                                         *)
(* Inv is inductive where the three properties are not.  ApprovedByRight   *)
(* needs that an `allow` on record was given by someone entitled           *)
(* (AllowGranted).  OutcomeOnce needs that an escalation has left the feed *)
(* and reports from where it is, once (EscalationPlace).  CardsAttended    *)
(* needs that a feed holds cards of its own session, that a driver that is *)
(* gone has a run that asks no more, and that a run that is over has left  *)
(* no tool waiting (FeedSound, DriverGone, OverLeavesNone).                *)
(*                                                                         *)
(* CardStep is proved first: whatever the step, a card is left alone,      *)
(* answered, released or asked, and what each of these may change.  The    *)
(* properties of the answers follow from that alone.                       *)
(***************************************************************************)
EXTENDS Confirmations, TLAPS

TypeOK ==
    /\ run \in [Sessions -> RunStates]
    /\ card \in [Cards -> Card]
    /\ next \in 1..(MaxCards + 1)
    /\ feed \in [Sessions -> Seq(Cards \cup {Done})]
    /\ driver \in [Sessions -> DriverStates]
    /\ sending \in [Sessions -> Cards \cup {0}]
    /\ esc \in [Cards -> EscStates]
    /\ shown \subseteq Cards /\ stop \subseteq ChannelSessions
    /\ grants \subseteq Cards
    /\ outs \in [Cards -> Nat]
    /\ quit \subseteq Sessions

\* Cards are asked in order; one not asked yet is nowhere, one asked has a session.
Asked ==
    \A c \in Cards :
        /\ c >= next => card[c] = NoCard /\ esc[c] = "none" /\ outs[c] = 0 /\ c \notin shown
        /\ c < next => card[c].session \in Sessions

\* An `allow` waiting to be read was given by someone entitled to.
AllowGranted == \A c \in Cards : card[c].yes => c \in grants

\* A driver's queue holds its own session's cards, each once, and `done` only
\* when the run is over; one that is gone has none.
FeedSound ==
    \A s \in Sessions :
        /\ driver[s] = "gone" => feed[s] = <<>>
        /\ \A i \in 1..Len(feed[s]) :
              IF feed[s][i] = Done THEN run[s] = "over"
              ELSE feed[s][i] < next /\ card[feed[s][i]].session = s
        /\ \A i, j \in 1..Len(feed[s]) :
              feed[s][i] = feed[s][j] /\ feed[s][i] # Done => i = j

\* The card a chat driver is sending is one of its own.
SendingSound ==
    \A s \in Sessions :
        IF driver[s] = "sending"
        THEN /\ s \in ChannelSessions /\ sending[s] \in Cards
             /\ sending[s] < next /\ card[sending[s]].session = s
        ELSE sending[s] = 0

\* An escalation is of an unattended run's card that its driver has read; it
\* is being sent, or shown, or over, and reports when it is over.
EscalationPlace ==
    \A c \in Cards :
        /\ esc[c] # "none" => /\ card[c].session \in TaskSessions
                              /\ \A i \in 1..Len(feed[card[c].session]) :
                                    feed[card[c].session][i] # c
        /\ esc[c] = "sending" => c \notin shown /\ outs[c] = 0
        /\ esc[c] = "none" => outs[c] = 0
        /\ c \in shown /\ card[c].session \in TaskSessions => esc[c] = "out"
        /\ c \in shown => outs[c] = 0

\* A driver that is gone without having quit has a run that is being
\* cancelled or is over: it asks nothing more.
DriverGone ==
    \A s \in (TaskSessions \cup ChannelSessions) \ quit :
        driver[s] = "gone" => run[s] # "live"

\* A run that is over has left no tool waiting.
OverLeavesNone ==
    \A c \in Cards : /\ Pending(c) /\ card[c].session \in Sessions
                     /\ run[card[c].session] = "over"
                     => card[c].kind = "egress"

Inv == /\ TypeOK /\ Asked /\ AllowGranted /\ ReadOnce /\ ApprovedByRight
       /\ FeedSound /\ SendingSound /\ EscalationPlace /\ OutcomeOnce
       /\ DriverGone /\ OverLeavesNone /\ CardsAttended

Fresh(s, k) == [NoCard EXCEPT !.session = s, !.kind = k, !.wait = "parked"]

\* What the operations on one card return.
LEMMA CardShapes ==
    /\ \A s \in Sessions, k \in Kinds : Fresh(s, k) \in Card
    /\ \A x \in Card, acts \in BOOLEAN : \A v : Recorded(x, v, acts) \in Card
    /\ \A x \in Card : \A v : Answered(x, v) \in Card
    /\ \A x \in Card, g \in Outcomes : Released(x, g) \in Card
    /\ \A x \in Card : Returned(x) \in Card
    /\ \A x \in Card : Verdict(x) \in Outcomes /\ TimeoutVerdict(x) \in Outcomes
    /\ "refused" \in Outcomes
    /\ NoCard \in Card
<1>0. {} \in SUBSET {"result", "action"}
  OBVIOUS
<1>1. NoCard \in Card /\ \A s \in Sessions, k \in Kinds : Fresh(s, k) \in Card
  <2>1. NoCard \in Card
    BY <1>0 DEF NoCard, Card, Kinds
  <2>2. \A s \in Sessions, k \in Kinds : Fresh(s, k) \in Card
    BY <2>1 DEF Fresh, Card
  <2> QED
    BY <2>1, <2>2
<1>2. \A x \in Card, acts \in BOOLEAN : \A v : Recorded(x, v, acts) \in Card
  BY DEF Recorded, Card
<1>3. \A x \in Card : \A v : Answered(x, v) \in Card
  BY <1>2 DEF Answered
<1>4. \A x \in Card, g \in Outcomes : Released(x, g) \in Card
  <2> SUFFICES ASSUME NEW x \in Card, NEW g \in Outcomes PROVE Released(x, g) \in Card
    OBVIOUS
  <2>1. (IF x.kind \in Elicit THEN {} ELSE x.kept) \in SUBSET {"result", "action"}
    BY <1>0 DEF Card
  <2> QED
    BY <2>1 DEF Released, Card, Outcomes
<1>5. \A x \in Card : Verdict(x) \in Outcomes /\ TimeoutVerdict(x) \in Outcomes
  BY DEF Verdict, TimeoutVerdict, Outcomes
<1>6. \A x \in Card : Returned(x) \in Card
  <2> SUFFICES ASSUME NEW x \in Card PROVE Returned(x) \in Card
    OBVIOUS
  <2>1. Released(x, Verdict(x)) \in Card
    BY <1>4, <1>5
  <2> QED
    BY <2>1 DEF Returned, Card
<1> QED
  BY <1>1, <1>2, <1>3, <1>4, <1>5, <1>6 DEF Outcomes

\* Resolving a card, cancelling a session's cards, and popping cards from the
\* router keep the types.
LEMMA HelperTypes ==
    ASSUME TypeOK
    PROVE  /\ \A s, v : \A c \in Cards : Resolved(c, s, v) \in [Cards -> Card]
           /\ \A s : Cancelled(s) \in [Cards -> Card]
           /\ \A C : Popped(C) => shown' \subseteq Cards /\ outs' \in [Cards -> Nat]
           /\ \A s : Stopping(s) => run' \in [Sessions -> RunStates]
<1>1. \A s, v : \A c \in Cards : Resolved(c, s, v) \in [Cards -> Card]
  BY CardShapes DEF Resolved, TypeOK
<1>2. \A s : Cancelled(s) \in [Cards -> Card]
  BY CardShapes DEF Cancelled, TypeOK
<1>3. \A C : Popped(C) => shown' \subseteq Cards /\ outs' \in [Cards -> Nat]
  BY DEF Popped, TypeOK
<1>4. \A s : Stopping(s) => run' \in [Sessions -> RunStates]
  BY DEF Stopping, TypeOK, RunStates
<1> QED
  BY <1>1, <1>2, <1>3, <1>4

\* A queue that has an event: its tail and its events.
LEMMA FeedTail ==
    ASSUME TypeOK, NEW s \in Sessions, feed[s] # <<>>
    PROVE  /\ Tail(feed[s]) \in Seq(Cards \cup {Done}) /\ Head(feed[s]) \in Cards \cup {Done}
           /\ Len(feed[s]) \in Nat \ {0} /\ Head(feed[s]) = feed[s][1]
           /\ Len(Tail(feed[s])) = Len(feed[s]) - 1
           /\ \A i \in 1..(Len(feed[s]) - 1) : Tail(feed[s])[i] = feed[s][i + 1]
<1>1. feed[s] \in Seq(Cards \cup {Done})
  BY DEF TypeOK
<1> QED
  BY <1>1

\* Every step keeps the types.
LEMMA TypeStep == ASSUME TypeOK, SendingSound, [Next]_vars PROVE TypeOK'
<1> USE DEF TypeOK, router
<1>1. ASSUME NEW s \in Sessions, NEW k \in Kinds, Register(s, k) PROVE TypeOK'
  <2>1. Fresh(s, k) \in Card /\ next \in Cards /\ next \in 1..MaxCards
    BY <1>1, CardShapes DEF Register, Cards
  <2>2. card' = [card EXCEPT ![next] = Fresh(s, k)] /\ card' \in [Cards -> Card]
    BY <1>1, <2>1 DEF Register, Fresh
  <2>3. feed' \in [Sessions -> Seq(Cards \cup {Done})]
    BY <1>1, <2>1 DEF Register
  <2>4. next' \in 1..(MaxCards + 1)
    BY <1>1, <2>1, ConstantsAssumption DEF Register, ConstantsAssumption
  <2> QED
    BY <1>1, <2>2, <2>3, <2>4 DEF Register
<1>2. ASSUME NEW s \in Sessions, WebStop(s) PROVE TypeOK'
  BY <1>2, HelperTypes DEF WebStop
<1>3. ASSUME NEW s \in Sessions, RunEnds(s) PROVE TypeOK'
  <2>1. feed' \in [Sessions -> Seq(Cards \cup {Done})]
    BY <1>3 DEF RunEnds
  <2> QED
    BY <1>3, <2>1 DEF RunEnds, RunStates
<1>4. ASSUME NEW s \in Sessions, TaskConfirm(s) PROVE TypeOK'
  <2>1. Head(feed[s]) \in Cards /\ feed' \in [Sessions -> Seq(Cards \cup {Done})]
    BY <1>4, FeedTail DEF TaskConfirm, Reading, Read
  <2>2. \A v \in {"allow", "deny"} : Resolved(Head(feed[s]), s, v) \in [Cards -> Card]
    BY <2>1, HelperTypes
  <2>3. card' \in [Cards -> Card]
    BY <1>4, <2>2 DEF TaskConfirm
  <2>4. grants' \subseteq Cards /\ esc' \in [Cards -> EscStates]
    BY <1>4, <2>1 DEF TaskConfirm, EscStates, Granted
  <2> QED
    BY <1>4, <2>1, <2>3, <2>4 DEF TaskConfirm
<1>5. ASSUME NEW s \in Sessions, TaskDone(s) \/ TaskTimeout(s) PROVE TypeOK'
  <2>1. DriveEnd(s) => /\ driver' \in [Sessions -> DriverStates]
                       /\ feed' \in [Sessions -> Seq(Cards \cup {Done})] /\ card' \in [Cards -> Card]
    BY HelperTypes DEF DriveEnd, DriverStates
  <2> QED
    BY <1>5, <2>1, HelperTypes DEF TaskDone, TaskTimeout
<1>6. ASSUME NEW s \in Sessions, ChannelConfirm(s) PROVE TypeOK'
  <2>1. Head(feed[s]) \in Cards /\ feed' \in [Sessions -> Seq(Cards \cup {Done})]
    BY <1>6, FeedTail DEF ChannelConfirm, Reading, Read
  <2>2. \A v \in {"allow", "deny"} : Resolved(Head(feed[s]), s, v) \in [Cards -> Card]
    BY <2>1, HelperTypes
  <2>3. card' \in [Cards -> Card]
    BY <1>6, <2>2 DEF ChannelConfirm
  <2>4. grants' \subseteq Cards
    BY <1>6, <2>1 DEF ChannelConfirm, Granted
  <2>5. driver' \in [Sessions -> DriverStates] /\ sending' \in [Sessions -> Cards \cup {0}]
    BY <1>6, <2>1 DEF ChannelConfirm, DriverStates
  <2> QED
    BY <1>6, <2>1, <2>3, <2>4, <2>5 DEF ChannelConfirm
<1>7. ASSUME NEW s \in Sessions, ChannelShown(s) \/ ChannelSendFails(s) PROVE TypeOK'
  <2>1. sending[s] \in Cards /\ driver' \in [Sessions -> DriverStates]
        /\ sending' \in [Sessions -> Cards \cup {0}]
    BY <1>7 DEF ChannelShown, ChannelSendFails, Sent, SendingSound, DriverStates
  <2>2. card' \in [Cards -> Card] /\ shown' \subseteq Cards
    BY <1>7, <2>1, HelperTypes DEF ChannelShown, ChannelSendFails
  <2> QED
    BY <1>7, <2>1, <2>2 DEF ChannelShown, ChannelSendFails
<1>8. ASSUME NEW s \in Sessions, ChannelQuit(s) PROVE TypeOK'
  BY <1>8 DEF ChannelQuit, DriverStates
<1>9. ASSUME NEW s \in Sessions, StopBegin(s) PROVE TypeOK'
  BY <1>9, HelperTypes DEF StopBegin
<1>10. ASSUME NEW s \in Sessions, StopClear(s) PROVE TypeOK'
  <2>1. card' \in [Cards -> Card]
    BY <1>10, CardShapes DEF StopClear
  <2> QED
    BY <1>10, <2>1, HelperTypes DEF StopClear
<1>11. ASSUME NEW c \in Cards, Wake(c) \/ WaitTimeout(c) \/ WakeCancelled(c) PROVE TypeOK'
  <2>1. PICK x \in Card : Ended(c, x)
    <3>1. card[c] \in Card
      OBVIOUS
    <3> QED
      BY <1>11, <3>1, CardShapes DEF Wake, WaitTimeout, WakeCancelled
  <2> QED
    BY <2>1 DEF Ended
<1>12. ASSUME NEW c \in Cards, EscalateStep(c) \/ CardTimeout(c) PROVE TypeOK'
  <2>1. Resolved(c, card[c].session, "deny") \in [Cards -> Card]
    BY HelperTypes
  <2>2. CASE EscalateStep(c)
    <3>1. EscalateShown(c) => TypeOK'
      BY DEF EscalateShown, EscStates
    <3>2. [outs EXCEPT ![c] = @ + 1] \in [Cards -> Nat]
      <4>1. outs[c] + 1 \in Nat
        OBVIOUS
      <4> QED
        BY <4>1
    <3>3. EscalateFails(c) => TypeOK'
      BY <2>1, <3>2 DEF EscalateFails, EscStates
    <3> QED
      BY <2>2, <3>1, <3>3 DEF EscalateStep
  <2>3. CASE CardTimeout(c)
    BY <2>1, <2>3, HelperTypes DEF CardTimeout
  <2> QED
    BY <1>12, <2>2, <2>3
<1>13. ASSUME NEW c \in Cards, NEW s \in Sessions, NEW v \in {"allow", "deny"}, NEW acts \in BOOLEAN,
              PostConfirm(c, s, v, acts)
       PROVE  TypeOK'
  <2>1. Recorded(card[c], v, acts) \in Card
    BY CardShapes
  <2> QED
    BY <1>13, <2>1 DEF PostConfirm, Granted
<1>16. ASSUME NEW c \in Cards, NEW s \in Sessions, NEW v \in {"allow", "deny"}, Click(c, s, v)
       PROVE  TypeOK'
  <2>1. Resolved(c, card[c].session, v) \in [Cards -> Card]
    BY HelperTypes
  <2> QED
    BY <1>16, <2>1, HelperTypes DEF Click, Granted
<1>14. ASSUME UNCHANGED vars PROVE TypeOK'
  BY <1>14 DEF vars
<1>15. ASSUME NEW s \in Sessions, DriverStep(s) PROVE TypeOK'
  BY <1>4, <1>5, <1>6, <1>7, <1>15 DEF DriverStep
<1> QED
  BY <1>1, <1>2, <1>3, <1>5, <1>8, <1>9, <1>10, <1>11, <1>12, <1>13, <1>14, <1>15, <1>16 DEF Next

\* What a step may do to a card: answer it, release its waiter, or ask it.
\* (`allow` is recorded only together with a grant; a waiter is told `approved`
\* only on a recorded `allow`, or when an authorization link's wait ran out.)
SameCard(x, y)  == x.session = y.session /\ x.kind = y.kind
AnswerOf(x, y, granted) ==
    /\ x.wait = "parked" /\ SameCard(x, y) /\ y.wait = "parked" /\ y.event = TRUE /\ y.got = x.got
    /\ y.yes => granted \/ x.yes
ReleaseOf(x, y) ==
    /\ x.wait = "parked" /\ SameCard(x, y) /\ y.wait = "done" /\ y.yes = FALSE
    /\ y.kind \in Elicit => y.kept = {}
    /\ y.got = "approved" => /\ x.yes \/ x.kind = "link"
                            /\ "result" \notin y.kept
CardStep(c) ==
    \/ card'[c] = card[c] /\ (c \in grants => c \in grants')
    \/ AnswerOf(card[c], card'[c], c \in grants') /\ (c \in grants => c \in grants')
    \/ /\ ReleaseOf(card[c], card'[c])
       /\ card'[c].got = "approved" /\ c \in grants => c \in grants'
    \/ /\ c = next /\ next' = next + 1
       /\ \E s \in Sessions, k \in Kinds : card'[c] = Fresh(s, k)
CardSteps == \A c \in Cards : CardStep(c)
Frame == CardSteps /\ (next' = next \/ next' = next + 1)

\* An answer and a release have the effects CardStep allows.
LEMMA CardMoves ==
    /\ \A x \in Card : x.wait = "parked" =>
          /\ AnswerOf(x, Answered(x, "deny"), FALSE) /\ AnswerOf(x, Answered(x, "allow"), TRUE)
          /\ \A acts \in BOOLEAN :
                /\ AnswerOf(x, Recorded(x, "allow", acts), x.kind \in Elicit => acts)
                /\ AnswerOf(x, Recorded(x, "deny", acts), FALSE)
          /\ ReleaseOf(x, Returned(x)) /\ ReleaseOf(x, Released(x, TimeoutVerdict(x)))
          /\ ReleaseOf(x, Released(x, "refused"))
<1> SUFFICES ASSUME NEW x \in Card, x.wait = "parked"
             PROVE  /\ AnswerOf(x, Answered(x, "deny"), FALSE) /\ AnswerOf(x, Answered(x, "allow"), TRUE)
                    /\ \A acts \in BOOLEAN :
                          /\ AnswerOf(x, Recorded(x, "allow", acts), x.kind \in Elicit => acts)
                          /\ AnswerOf(x, Recorded(x, "deny", acts), FALSE)
                    /\ ReleaseOf(x, Returned(x)) /\ ReleaseOf(x, Released(x, TimeoutVerdict(x)))
                    /\ ReleaseOf(x, Released(x, "refused"))
  OBVIOUS
<1>1. \A acts \in BOOLEAN :
         /\ AnswerOf(x, Recorded(x, "allow", acts), x.kind \in Elicit => acts)
         /\ AnswerOf(x, Recorded(x, "deny", acts), FALSE)
  BY DEF Card, AnswerOf, Recorded, SameCard
<1>2. AnswerOf(x, Answered(x, "deny"), FALSE) /\ AnswerOf(x, Answered(x, "allow"), TRUE)
  BY DEF Card, AnswerOf, Answered, Recorded, SameCard
<1>3. ReleaseOf(x, Returned(x))
  BY DEF ReleaseOf, Returned, Released, Verdict, Card, SameCard
<1>4. ReleaseOf(x, Released(x, "refused"))
  BY DEF ReleaseOf, Released, Card, SameCard
<1>5. ReleaseOf(x, Released(x, TimeoutVerdict(x)))
  BY DEF ReleaseOf, Released, TimeoutVerdict, Card, SameCard, Elicit
<1> QED
  BY <1>1, <1>2, <1>3, <1>4, <1>5

\* One card changes, by an answer or a release.
LEMMA OneCard ==
    ASSUME TypeOK, NEW c \in Cards, NEW y,
           card' = [card EXCEPT ![c] = y], \A d \in Cards \ {c} : d \in grants => d \in grants',
           \/ AnswerOf(card[c], y, c \in grants') /\ (c \in grants => c \in grants')
           \/ ReleaseOf(card[c], y) /\ (y.got = "approved" /\ c \in grants => c \in grants')
    PROVE  CardSteps
<1>1. card'[c] = y /\ \A d \in Cards \ {c} : card'[d] = card[d]
  BY DEF TypeOK
<1> QED
  BY <1>1 DEF CardSteps, CardStep

\* resolve: an `allow` it accepts was granted in the same step.
LEMMA ResolveSteps ==
    ASSUME TypeOK, NEW c \in Cards, NEW s, NEW v \in {"allow", "deny"}, card' = Resolved(c, s, v),
           grants \subseteq grants', v = "allow" /\ Pending(c) => c \in grants'
    PROVE  CardSteps
<1>1. CASE Accepts(c, s)
  <2>1. card[c] \in Card /\ card[c].wait = "parked" /\ card' = [card EXCEPT ![c] = Answered(card[c], v)]
    BY <1>1 DEF Accepts, Pending, Resolved, TypeOK
  <2>2. CASE v = "allow"
    <3>1. AnswerOf(card[c], Answered(card[c], "allow"), TRUE)
      BY <2>1, CardMoves
    <3>2. c \in grants'
      BY <1>1, <2>2 DEF Accepts
    <3>3. AnswerOf(card[c], Answered(card[c], v), c \in grants')
      BY <3>1, <3>2, <2>2 DEF AnswerOf
    <3> QED
      BY <2>1, <3>3, OneCard
  <2>3. CASE v = "deny"
    <3>1. AnswerOf(card[c], Answered(card[c], "deny"), FALSE)
      BY <2>1, CardMoves
    <3>3. AnswerOf(card[c], Answered(card[c], v), c \in grants')
      BY <3>1, <2>3 DEF AnswerOf
    <3> QED
      BY <2>1, <3>3, OneCard
  <2> QED
    BY <2>2, <2>3
<1>2. CASE ~Accepts(c, s)
  BY <1>2 DEF Resolved, CardSteps, CardStep
<1> QED
  BY <1>1, <1>2

\* cancel_session: every card it touches was waiting, and is answered `no`.
LEMMA CancelSteps ==
    ASSUME TypeOK, NEW s, card' = Cancelled(s), grants' = grants
    PROVE  CardSteps
<1> SUFFICES ASSUME NEW c \in Cards PROVE CardStep(c)
  BY DEF CardSteps
<1>1. CASE c \in OfSession(s)
  <2>1. card[c] \in Card /\ card[c].wait = "parked" /\ card'[c] = Answered(card[c], "deny")
    BY <1>1 DEF TypeOK, OfSession, Pending, Cancelled
  <2>2. AnswerOf(card[c], Answered(card[c], "deny"), FALSE)
    BY <2>1, CardMoves
  <2> QED
    BY <2>1, <2>2 DEF AnswerOf, CardStep
<1>2. CASE c \notin OfSession(s)
  BY <1>2 DEF Cancelled, CardStep
<1> QED
  BY <1>1, <1>2

\* Whatever the step, cards are answered, released or asked as CardStep says.
LEMMA StepFrame == ASSUME TypeOK, SendingSound, [Next]_vars PROVE Frame
<1> USE DEF router
<1>1. ASSUME UNCHANGED <<card, next, grants>> PROVE Frame
  BY <1>1 DEF Frame, CardSteps, CardStep
<1>2. ASSUME NEW s \in Sessions, NEW k \in Kinds, Register(s, k) PROVE Frame
  <2>1. next \in Cards /\ card' = [card EXCEPT ![next] = Fresh(s, k)] /\ next' = next + 1 /\ grants' = grants
    BY <1>2 DEF Register, Fresh
  <2>2. card'[next] = Fresh(s, k) /\ \A c \in Cards \ {next} : card'[c] = card[c]
    BY <2>1 DEF TypeOK
  <2> QED
    BY <2>1, <2>2 DEF Frame, CardSteps, CardStep
<1>3. ASSUME NEW s \in Sessions, WebStop(s) \/ TaskDone(s) \/ TaskTimeout(s) PROVE Frame
  <2>1. card' = Cancelled(s) /\ next' = next /\ grants' = grants
    BY <1>3 DEF WebStop, TaskDone, TaskTimeout, DriveEnd
  <2> QED
    BY <2>1, CancelSteps DEF Frame
<1>4. ASSUME NEW s \in Sessions, RunEnds(s) \/ ChannelQuit(s) \/ ChannelShown(s) \/ StopBegin(s)
      PROVE  Frame
  BY <1>1, <1>4 DEF RunEnds, ChannelQuit, ChannelShown, StopBegin
<1>5. ASSUME NEW s \in Sessions, TaskConfirm(s) \/ ChannelConfirm(s) PROVE Frame
  <2> DEFINE c == Head(feed[s])
  <2>1. c \in Cards /\ next' = next
    BY <1>5, FeedTail DEF TaskConfirm, ChannelConfirm, Reading
  <2>2. CASE UNCHANGED <<card, grants>>
    BY <1>1, <2>1, <2>2
  <2>3. CASE \E v \in {"allow", "deny"} : card' = Resolved(c, s, v) /\ Granted(c, v, TRUE)
    <3>1. PICK v \in {"allow", "deny"} : card' = Resolved(c, s, v) /\ Granted(c, v, TRUE)
      BY <2>3
    <3>2. grants \subseteq grants' /\ (v = "allow" /\ Pending(c) => c \in grants')
      BY <3>1 DEF Granted
    <3>3. CardSteps
      BY <2>1, <3>1, <3>2, ResolveSteps
    <3> QED
      BY <2>1, <3>2, <3>3 DEF Frame
  <2> QED
    BY <1>5, <2>2, <2>3 DEF TaskConfirm, ChannelConfirm
<1>6. ASSUME NEW s \in Sessions, ChannelSendFails(s) PROVE Frame
  <2>1. sending[s] \in Cards /\ card' = Resolved(sending[s], s, "deny") /\ UNCHANGED <<next, grants>>
    BY <1>6 DEF ChannelSendFails, Sent, SendingSound
  <2> QED
    BY <2>1, ResolveSteps DEF Frame
<1>7. ASSUME NEW s \in Sessions, StopClear(s) PROVE Frame
  <2>1. ASSUME NEW c \in Cards PROVE CardStep(c)
    <3>1. CASE c \in shown /\ card[c].session = s /\ Pending(c)
      <4>1. card[c] \in Card /\ card[c].wait = "parked" /\ card'[c] = Answered(card[c], "deny")
            /\ grants' = grants
        BY <1>7, <3>1 DEF TypeOK, Pending, StopClear
      <4>2. AnswerOf(card[c], Answered(card[c], "deny"), FALSE)
        BY <4>1, CardMoves
      <4> QED
        BY <4>1, <4>2 DEF AnswerOf, CardStep
    <3>2. CASE ~(c \in shown /\ card[c].session = s /\ Pending(c))
      BY <1>7, <3>2 DEF StopClear, CardStep
    <3> QED
      BY <3>1, <3>2
  <2> QED
    BY <1>7, <2>1 DEF StopClear, Frame, CardSteps
<1>8. ASSUME NEW c \in Cards, Wake(c) \/ WaitTimeout(c) \/ WakeCancelled(c) PROVE Frame
  <2>1. card[c] \in Card /\ card[c].wait = "parked" /\ next' = next
    BY <1>8 DEF Wake, WaitTimeout, WakeCancelled, Ended, Pending, TypeOK
  <2>2. PICK y \in {Returned(card[c]), Released(card[c], TimeoutVerdict(card[c])),
                   Released(card[c], "refused")} : Ended(c, y)
    BY <1>8 DEF Wake, WaitTimeout, WakeCancelled
  <2>3. ReleaseOf(card[c], y)
    BY <2>1, <2>2, CardMoves
  <2>4. /\ card' = [card EXCEPT ![c] = y] /\ \A d \in Cards \ {c} : d \in grants => d \in grants'
        /\ y.got = "approved" /\ c \in grants => c \in grants'
    BY <2>2 DEF Ended
  <2> QED
    BY <2>1, <2>3, <2>4, OneCard DEF Frame
<1>9. ASSUME NEW c \in Cards, EscalateShown(c) PROVE Frame
  BY <1>1, <1>9 DEF EscalateShown
<1>10. ASSUME NEW c \in Cards, EscalateFails(c) \/ CardTimeout(c) PROVE Frame
  <2>1. card' = Resolved(c, card[c].session, "deny") /\ UNCHANGED <<next, grants>>
    BY <1>10 DEF EscalateFails, CardTimeout
  <2> QED
    BY <2>1, ResolveSteps DEF Frame
<1>11. ASSUME NEW c \in Cards, NEW s \in Sessions, NEW v \in {"allow", "deny"}, Click(c, s, v)
       PROVE  Frame
  <2>1. /\ card' = Resolved(c, card[c].session, v) /\ next' = next /\ grants \subseteq grants'
        /\ v = "allow" /\ Pending(c) => c \in grants'
    BY <1>11 DEF Click, Granted
  <2> QED
    BY <2>1, ResolveSteps DEF Frame
<1>12. ASSUME NEW c \in Cards, NEW s \in Sessions, NEW v \in {"allow", "deny"}, NEW acts \in BOOLEAN,
              PostConfirm(c, s, v, acts)
       PROVE  Frame
  <2>1. next' = next /\ grants \subseteq grants' /\ card' = [card EXCEPT ![c] = Recorded(card[c], v, acts)]
    BY <1>12 DEF PostConfirm, Granted
  <2>2. card[c] \in Card /\ card[c].wait = "parked"
    BY <1>12 DEF PostConfirm, Accepts, Pending, TypeOK
  <2>3. v = "allow" /\ (card[c].kind \in Elicit => acts) => c \in grants'
    BY <1>12 DEF PostConfirm, Granted, Accepts
  <2>4. AnswerOf(card[c], Recorded(card[c], v, acts), c \in grants')
    <3>1. CASE v = "allow"
      BY <2>2, <2>3, <3>1, CardMoves DEF AnswerOf
    <3>2. CASE v = "deny"
      BY <2>2, <3>2, CardMoves DEF AnswerOf
    <3> QED
      BY <3>1, <3>2
  <2> QED
    BY <2>1, <2>4, OneCard DEF Frame
<1>13. ASSUME UNCHANGED vars PROVE Frame
  BY <1>1, <1>13 DEF vars
<1> QED
  BY <1>2, <1>3, <1>4, <1>5, <1>6, <1>7, <1>8, <1>9, <1>10, <1>11, <1>12, <1>13
     DEF Next, DriverStep, EscalateStep

\* The answers' properties follow from what a step may do to a card.
LEMMA AnswersStep ==
    ASSUME TypeOK, Asked, AllowGranted, ReadOnce, ApprovedByRight, Frame
    PROVE  AllowGranted' /\ ReadOnce' /\ ApprovedByRight'
<1> SUFFICES ASSUME NEW c \in Cards
             PROVE  /\ card'[c].yes => c \in grants'
                    /\ card'[c].wait # "parked" =>
                          /\ card'[c].kind \in Elicit => card'[c].kept = {}
                          /\ card'[c].got = "approved" => "result" \notin card'[c].kept
                    /\ card'[c].got = "approved" => c \in grants' \/ card'[c].kind = "link"
  BY DEF AllowGranted, ReadOnce, ApprovedByRight, Pending
<1>1. /\ card[c].yes => c \in grants
      /\ card[c].wait # "parked" =>
            /\ card[c].kind \in Elicit => card[c].kept = {}
            /\ card[c].got = "approved" => "result" \notin card[c].kept
      /\ card[c].got = "approved" => c \in grants \/ card[c].kind = "link"
  BY DEF AllowGranted, ReadOnce, ApprovedByRight, Pending
<1>2. CASE card'[c] = card[c] /\ (c \in grants => c \in grants')
  BY <1>1, <1>2
<1>3. CASE AnswerOf(card[c], card'[c], c \in grants') /\ (c \in grants => c \in grants')
  BY <1>1, <1>3 DEF AnswerOf, SameCard
<1>4. CASE /\ ReleaseOf(card[c], card'[c])
           /\ card'[c].got = "approved" /\ c \in grants => c \in grants'
  BY <1>1, <1>4 DEF ReleaseOf, SameCard
<1>5. CASE \E s \in Sessions, k \in Kinds : card'[c] = Fresh(s, k)
  BY <1>5 DEF Fresh, NoCard
<1> QED
  BY <1>2, <1>3, <1>4, <1>5 DEF Frame, CardSteps, CardStep

(***************************************************************************)
(* Where a card is: what a step may do to a queue, a send, an escalation.  *)
(***************************************************************************)
\* The card is open after the step.
OpenAfter(c) == card'[c].wait = "parked" /\ ~card'[c].event

\* A queue is left alone, closed, read, or gets a card or `done`.  It is closed
\* on a run that asks no more with no tool waiting, or by a chat driver that
\* quits; the event read is answered, escalated or sent.
FeedMove(s) ==
    \/ feed'[s] = feed[s] /\ (driver'[s] = "gone" => driver[s] = "gone")
    \/ /\ feed'[s] = <<>> /\ driver'[s] = "gone"
       /\ s \in quit' \/ /\ run'[s] # "live"
                         /\ \A c \in Cards : card[c].session = s /\ card[c].kind # "egress" => ~OpenAfter(c)
    \/ /\ Reading(s) /\ feed'[s] = Tail(feed[s]) /\ driver'[s] # "gone"
       /\ Head(feed[s]) \in Cards
       /\ OpenAfter(Head(feed[s])) => esc'[Head(feed[s])] = "sending" \/ sending'[s] = Head(feed[s])
    \/ /\ driver[s] # "gone" /\ driver'[s] # "gone" /\ next' = next + 1 /\ next \in Cards
       /\ card'[next].session = s /\ feed'[s] = Append(feed[s], next)
    \/ driver[s] # "gone" /\ driver'[s] # "gone" /\ run'[s] = "over" /\ feed'[s] = Append(feed[s], Done)

\* A run is cancelled while it lives, or ends when no tool of it waits.
RunMove(s) ==
    \/ run'[s] = run[s]
    \/ run[s] = "live" /\ run'[s] = "stopping"
    \/ /\ run'[s] = "over" /\ card' = card /\ next' = next
       /\ \A c \in OfSession(s) : card[c].kind = "egress"

\* A chat driver starts to send the card it has just read, or ends the send
\* with the card shown or answered.
SendMove(s) ==
    \/ sending'[s] = sending[s] /\ (driver'[s] = "sending" <=> driver[s] = "sending")
    \/ /\ s \in ChannelSessions /\ Reading(s) /\ Head(feed[s]) \in Cards
       /\ driver'[s] = "sending" /\ sending'[s] = Head(feed[s])
    \/ /\ driver[s] = "sending" /\ driver'[s] # "sending" /\ sending'[s] = 0
       /\ OpenAfter(sending[s]) => sending[s] \in shown'

\* A card's place with the router, and the outcome it reports on leaving it.
PlaceMove(c) ==
    \/ esc'[c] = esc[c] /\ outs'[c] = outs[c] /\ (c \in shown' <=> c \in shown)
    \/ /\ esc'[c] = "sending" /\ outs'[c] = outs[c] /\ (c \in shown' <=> c \in shown)
       /\ \E s \in TaskSessions : Reading(s) /\ c = Head(feed[s]) /\ feed'[s] = Tail(feed[s])
    \/ esc[c] = "sending" /\ esc'[c] = "out" /\ outs'[c] = outs[c] /\ c \in shown'
    \/ /\ esc[c] = "sending" /\ esc'[c] = "out" /\ outs'[c] = outs[c] + 1
       /\ (c \in shown' <=> c \in shown) /\ ~OpenAfter(c)
    \/ /\ esc'[c] = esc[c] /\ outs'[c] = outs[c] /\ c \in shown'
       /\ \E s \in ChannelSessions : driver[s] = "sending" /\ c = sending[s]
    \/ /\ esc'[c] = esc[c] /\ c \in shown /\ c \notin shown' /\ ~OpenAfter(c)
       /\ outs'[c] = IF esc[c] = "out" THEN outs[c] + 1 ELSE outs[c]

Moves == /\ \A s \in Sessions : FeedMove(s) /\ RunMove(s) /\ SendMove(s)
         /\ \A c \in Cards : PlaceMove(c)
         /\ quit \subseteq quit'
         /\ next' # next => \E s \in Sessions, k \in Kinds : Register(s, k)

\* A card that is resolved, or whose session is cancelled, is not open.
LEMMA Closes ==
    ASSUME TypeOK, NEW c \in Cards, NEW v,
           card' = Resolved(c, card[c].session, v) \/ card' = Cancelled(card[c].session)
    PROVE  ~OpenAfter(c)
<1>1. card[c] \in Card
  BY DEF TypeOK
<1>2. CASE Pending(c)
  <2>1. card'[c] = Answered(card[c], v) \/ card'[c] = Answered(card[c], "deny")
    BY <1>2 DEF Resolved, Cancelled, Accepts, OfSession, TypeOK
  <2> QED
    BY <1>1, <2>1 DEF Answered, Recorded, OpenAfter, Card
<1>3. CASE ~Pending(c)
  <2>1. card'[c] = card[c]
    BY <1>3 DEF Resolved, Cancelled, Accepts, OfSession, TypeOK
  <2> QED
    BY <1>3, <2>1 DEF OpenAfter, Pending
<1> QED
  BY <1>2, <1>3

\* Cards that leave the router answered are placed as PlaceMove says.
LEMMA PoppedPlaces ==
    ASSUME TypeOK, NEW C, Popped(C), esc' = esc, \A c \in C \cap shown : ~OpenAfter(c)
    PROVE  \A c \in Cards : PlaceMove(c)
<1> SUFFICES ASSUME NEW c \in Cards PROVE PlaceMove(c)
  OBVIOUS
<1>1. CASE c \in C \cap shown
  BY <1>1 DEF Popped, PlaceMove, TypeOK
<1>2. CASE c \notin C \cap shown
  BY <1>2 DEF Popped, PlaceMove, TypeOK
<1> QED
  BY <1>1, <1>2

\* A step that leaves queues, drivers, sends and runs alone moves none of them.
LEMMA StillRoutes ==
    ASSUME UNCHANGED <<run, feed, driver, sending>>
    PROVE  \A s \in Sessions : FeedMove(s) /\ RunMove(s) /\ SendMove(s)
BY DEF FeedMove, RunMove, SendMove

\* A step that leaves the router's cards alone moves none of them.
LEMMA StillPlaces ==
    ASSUME UNCHANGED <<esc, shown, outs>> PROVE \A c \in Cards : PlaceMove(c)
BY DEF PlaceMove

\* Every step moves runs, queues, sends and cards as described.
LEMMA StepMoves == ASSUME Inv, [Next]_vars PROVE Moves
<1> USE DEF router
<1>0. /\ TypeOK /\ Asked /\ FeedSound /\ SendingSound /\ OverLeavesNone
      /\ run \in [Sessions -> RunStates] /\ driver \in [Sessions -> DriverStates]
      /\ feed \in [Sessions -> Seq(Cards \cup {Done})] /\ sending \in [Sessions -> Cards \cup {0}]
      /\ card \in [Cards -> Card] /\ esc \in [Cards -> EscStates] /\ outs \in [Cards -> Nat]
  BY DEF Inv, TypeOK
<1>1. ASSUME UNCHANGED <<run, feed, driver, sending, esc, shown, outs, next, quit>> PROVE Moves
  BY <1>1, StillRoutes, StillPlaces DEF Moves
<1>2. ASSUME NEW s \in Sessions, NEW k \in Kinds, Register(s, k) PROVE Moves
  <2>1. /\ next \in Cards /\ next' = next + 1 /\ UNCHANGED <<run, driver, quit, sending, esc, shown, outs>>
        /\ feed' = IF driver[s] = "gone" THEN feed ELSE [feed EXCEPT ![s] = Append(@, next)]
        /\ card'[next].session = s
    BY <1>0, <1>2 DEF Register, NoCard
  <2>2. ASSUME NEW t \in Sessions PROVE FeedMove(t) /\ RunMove(t) /\ SendMove(t)
    BY <1>0, <2>1 DEF FeedMove, RunMove, SendMove
  <2> QED
    BY <1>2, <2>1, <2>2, StillPlaces DEF Moves
<1>3. ASSUME NEW s \in Sessions, WebStop(s) \/ StopBegin(s) PROVE Moves
  <2>1. UNCHANGED <<feed, driver, sending, esc, shown, outs, next, quit>> /\ Stopping(s)
    BY <1>3 DEF WebStop, StopBegin
  <2>2. ASSUME NEW t \in Sessions PROVE FeedMove(t) /\ RunMove(t) /\ SendMove(t)
    BY <1>0, <2>1 DEF FeedMove, RunMove, SendMove, Stopping
  <2> QED
    BY <2>1, <2>2, StillPlaces DEF Moves
<1>4. ASSUME NEW s \in Sessions, RunEnds(s) PROVE Moves
  <2>1. ASSUME NEW t \in Sessions PROVE FeedMove(t) /\ RunMove(t) /\ SendMove(t)
    BY <1>0, <1>4 DEF RunEnds, FeedMove, RunMove, SendMove
  <2> QED
    BY <1>4, <2>1, StillPlaces DEF Moves, RunEnds
<1>5. ASSUME NEW s \in Sessions, TaskDone(s) \/ TaskTimeout(s) PROVE Moves
  <2>1. /\ UNCHANGED <<sending, esc, shown, outs, next, quit>> /\ DriveEnd(s) /\ driver[s] = "reading"
        /\ run' = run \/ Stopping(s)
    BY <1>5 DEF TaskDone, TaskTimeout, Reading
  <2>2. run'[s] # "live"
    <3>1. CASE TaskDone(s)
      <4>1. feed[s] # <<>> /\ Head(feed[s]) = Done /\ run' = run
        BY <3>1 DEF TaskDone, Reading
      <4>2. 1 \in 1..Len(feed[s]) /\ feed[s][1] = Done
        BY <1>0, <4>1, FeedTail
      <4> QED
        BY <1>0, <4>1, <4>2 DEF FeedSound
    <3>2. CASE TaskTimeout(s)
      BY <1>0, <3>2 DEF TaskTimeout, Stopping, RunStates
    <3> QED
      BY <1>5, <3>1, <3>2
  <2>3. \A c \in Cards : card[c].session = s => ~OpenAfter(c)
    BY <1>0, <2>1, Closes DEF DriveEnd
  <2>4. ASSUME NEW t \in Sessions PROVE FeedMove(t) /\ RunMove(t) /\ SendMove(t)
    <3>1. FeedMove(t)
      BY <1>0, <2>1, <2>2, <2>3 DEF FeedMove, DriveEnd
    <3>2. RunMove(t) /\ SendMove(t)
      BY <1>0, <2>1 DEF RunMove, SendMove, DriveEnd, Stopping
    <3> QED
      BY <3>1, <3>2
  <2> QED
    BY <2>1, <2>4, StillPlaces DEF Moves
<1>6. ASSUME NEW s \in Sessions, TaskConfirm(s) PROVE Moves
  <2> DEFINE c == Head(feed[s])
  <2>1. /\ c \in Cards /\ card[c].session = s /\ Reading(s) /\ s \in TaskSessions
        /\ feed' = [feed EXCEPT ![s] = Tail(@)]
        /\ UNCHANGED <<run, next, driver, sending, shown, stop, outs, quit>>
    <3>1. feed[s] # <<>> /\ c # Done
      BY <1>6 DEF TaskConfirm, Reading
    <3>2. c \in Cards /\ c = feed[s][1] /\ 1 \in 1..Len(feed[s])
      BY <1>0, <3>1, FeedTail
    <3> QED
      BY <1>0, <1>6, <3>1, <3>2 DEF TaskConfirm, Read, FeedSound
  <2>2. \/ esc' = esc /\ ~OpenAfter(c)
        \/ esc' = [esc EXCEPT ![c] = "sending"]
    <3>1. \/ \E v \in {"allow", "deny"} : card' = Resolved(c, s, v) /\ esc' = esc
          \/ esc' = [esc EXCEPT ![c] = "sending"]
      BY <1>6 DEF TaskConfirm
    <3> QED
      BY <1>0, <2>1, <3>1, Closes
  <2>3. ASSUME NEW t \in Sessions PROVE FeedMove(t) /\ RunMove(t) /\ SendMove(t)
    <3>1. FeedMove(t)
      BY <1>0, <2>1, <2>2 DEF FeedMove, Reading
    <3>2. RunMove(t) /\ SendMove(t)
      BY <2>1 DEF RunMove, SendMove
    <3> QED
      BY <3>1, <3>2
  <2>4. ASSUME NEW d \in Cards PROVE PlaceMove(d)
    <3>1. CASE d = c
      BY <1>0, <2>1, <2>2, <3>1 DEF PlaceMove
    <3>2. CASE d # c
      BY <1>0, <2>1, <2>2, <3>2 DEF PlaceMove
    <3> QED
      BY <3>1, <3>2
  <2> QED
    BY <2>1, <2>3, <2>4 DEF Moves
<1>7. ASSUME NEW s \in Sessions, ChannelConfirm(s) PROVE Moves
  <2> DEFINE c == Head(feed[s])
  <2>1. /\ c \in Cards /\ card[c].session = s /\ Reading(s) /\ s \in ChannelSessions
        /\ feed' = [feed EXCEPT ![s] = Tail(@)]
        /\ UNCHANGED <<run, next, esc, shown, stop, outs, quit>>
    <3>1. feed[s] # <<>> /\ c # Done
      BY <1>7 DEF ChannelConfirm, Reading
    <3>2. c \in Cards /\ c = feed[s][1] /\ 1 \in 1..Len(feed[s])
      BY <1>0, <3>1, FeedTail
    <3> QED
      BY <1>0, <1>7, <3>1, <3>2 DEF ChannelConfirm, Read, FeedSound
  <2>2. \/ UNCHANGED <<driver, sending>> /\ ~OpenAfter(c)
        \/ driver' = [driver EXCEPT ![s] = "sending"] /\ sending' = [sending EXCEPT ![s] = c]
    <3>1. \/ \E v \in {"allow", "deny"} : card' = Resolved(c, s, v) /\ UNCHANGED <<driver, sending>>
          \/ driver' = [driver EXCEPT ![s] = "sending"] /\ sending' = [sending EXCEPT ![s] = c]
      BY <1>7 DEF ChannelConfirm
    <3> QED
      BY <1>0, <2>1, <3>1, Closes
  <2>3. ASSUME NEW t \in Sessions PROVE FeedMove(t) /\ RunMove(t) /\ SendMove(t)
    <3>1. FeedMove(t)
      BY <1>0, <2>1, <2>2 DEF FeedMove, Reading
    <3>2. RunMove(t) /\ SendMove(t)
      BY <1>0, <2>1, <2>2 DEF RunMove, SendMove
    <3> QED
      BY <3>1, <3>2
  <2> QED
    BY <2>1, <2>3, StillPlaces DEF Moves
<1>8. ASSUME NEW s \in Sessions, ChannelShown(s) \/ ChannelSendFails(s) PROVE Moves
  <2>1. /\ driver[s] = "sending" /\ sending[s] \in Cards /\ card[sending[s]].session = s
        /\ s \in ChannelSessions
        /\ driver' = [driver EXCEPT ![s] = "reading"] /\ sending' = [sending EXCEPT ![s] = 0]
        /\ UNCHANGED <<run, next, feed, esc, outs, quit>>
    BY <1>0, <1>8 DEF ChannelShown, ChannelSendFails, Sent, SendingSound
  <2>2. \/ shown' = shown \cup {sending[s]}
        \/ shown' = shown /\ ~OpenAfter(sending[s])
    <3>1. CASE ChannelShown(s)
      <4>1. shown' = shown \cup {sending[s]}
        BY <3>1 DEF ChannelShown
      <4> QED
        BY <4>1
    <3>2. CASE ChannelSendFails(s)
      <4>1. card' = Resolved(sending[s], card[sending[s]].session, "deny") /\ shown' = shown
        BY <2>1, <3>2 DEF ChannelSendFails
      <4> QED
        BY <1>0, <2>1, <4>1, Closes
    <3> QED
      BY <1>8, <3>1, <3>2
  <2>3. ASSUME NEW t \in Sessions PROVE FeedMove(t) /\ RunMove(t) /\ SendMove(t)
    BY <1>0, <2>1, <2>2 DEF FeedMove, RunMove, SendMove
  <2>4. ASSUME NEW d \in Cards PROVE PlaceMove(d)
    BY <2>1, <2>2 DEF PlaceMove
  <2> QED
    BY <2>1, <2>3, <2>4 DEF Moves
<1>9. ASSUME NEW s \in Sessions, ChannelQuit(s) PROVE Moves
  <2>1. /\ driver[s] = "reading" /\ quit \subseteq quit'
        /\ driver' = [driver EXCEPT ![s] = "gone"] /\ feed' = [feed EXCEPT ![s] = <<>>]
        /\ UNCHANGED <<run, card, next, sending, esc, shown, outs>>
    BY <1>9 DEF ChannelQuit
  <2>2. s \in quit' \/ run[s] = "over"
    <3>1. CASE feed[s] # <<>> /\ Head(feed[s]) = Done
      <4>1. 1 \in 1..Len(feed[s]) /\ feed[s][1] = Done
        BY <1>0, <3>1, FeedTail
      <4> QED
        BY <1>0, <4>1 DEF FeedSound
    <3>2. CASE ~(feed[s] # <<>> /\ Head(feed[s]) = Done)
      BY <1>9, <3>2 DEF ChannelQuit
    <3> QED
      BY <3>1, <3>2
  <2>3. run[s] = "over" => \A c \in Cards : card[c].session = s /\ card[c].kind # "egress" => ~OpenAfter(c)
    BY <1>0, <2>1 DEF OverLeavesNone, OpenAfter, Pending
  <2>4. ASSUME NEW t \in Sessions PROVE FeedMove(t) /\ RunMove(t) /\ SendMove(t)
    <3>1. FeedMove(t)
      BY <1>0, <2>1, <2>2, <2>3 DEF FeedMove
    <3>2. RunMove(t) /\ SendMove(t)
      BY <1>0, <2>1 DEF RunMove, SendMove
    <3> QED
      BY <3>1, <3>2
  <2> QED
    BY <2>1, <2>4, StillPlaces DEF Moves
<1>10. ASSUME NEW s \in Sessions, StopClear(s) PROVE Moves
  <2> DEFINE C == {c \in shown : card[c].session = s}
  <2>1. \A c \in C \cap shown : ~OpenAfter(c)
    <3>1. ASSUME NEW c \in C PROVE ~OpenAfter(c)
      <4>1. c \in Cards /\ card[c] \in Card
        BY <1>0 DEF TypeOK
      <4>2. card'[c] = IF Pending(c) THEN Answered(card[c], "deny") ELSE card[c]
        BY <1>10, <4>1 DEF StopClear
      <4> QED
        BY <4>1, <4>2 DEF Answered, Recorded, OpenAfter, Pending, Card
    <3> QED
      BY <3>1
  <2>2. Popped(C) /\ UNCHANGED <<run, next, feed, driver, sending, esc, quit>>
    BY <1>10 DEF StopClear
  <2> QED
    BY <1>0, <2>1, <2>2, StillRoutes, PoppedPlaces DEF Moves
<1>11. ASSUME NEW c \in Cards, Wake(c) \/ WaitTimeout(c) \/ WakeCancelled(c) PROVE Moves
  BY <1>1, <1>11 DEF Wake, WaitTimeout, WakeCancelled, Ended
<1>12. ASSUME NEW c \in Cards, EscalateShown(c) \/ EscalateFails(c) PROVE Moves
  <2>1. UNCHANGED <<run, feed, driver, sending, next, quit>> /\ esc[c] = "sending"
        /\ esc' = [esc EXCEPT ![c] = "out"]
    BY <1>12 DEF EscalateShown, EscalateFails
  <2>2. \/ shown' = shown \cup {c} /\ outs' = outs
        \/ shown' = shown /\ outs' = [outs EXCEPT ![c] = @ + 1] /\ ~OpenAfter(c)
    BY <1>0, <1>12, Closes DEF EscalateShown, EscalateFails
  <2>3. ASSUME NEW d \in Cards PROVE PlaceMove(d)
    BY <1>0, <2>1, <2>2 DEF PlaceMove
  <2> QED
    BY <2>1, <2>3, StillRoutes DEF Moves
<1>13. ASSUME NEW c \in Cards, \/ CardTimeout(c)
                               \/ \E s \in Sessions, v \in {"allow", "deny"} : Click(c, s, v)
       PROVE  Moves
  <2>1. Popped({c}) /\ UNCHANGED <<run, next, feed, driver, sending, esc, quit>> /\ ~OpenAfter(c)
    BY <1>0, <1>13, Closes DEF CardTimeout, Click
  <2> QED
    BY <1>0, <2>1, StillRoutes, PoppedPlaces DEF Moves
<1>14. ASSUME NEW c \in Cards, NEW s \in Sessions, NEW v \in {"allow", "deny"}, NEW acts \in BOOLEAN,
               PostConfirm(c, s, v, acts)
       PROVE  Moves
  BY <1>1, <1>14 DEF PostConfirm
<1>15. ASSUME UNCHANGED vars PROVE Moves
  BY <1>1, <1>15 DEF vars
<1> QED
  BY <1>2, <1>3, <1>4, <1>5, <1>6, <1>7, <1>8, <1>9, <1>10, <1>11, <1>12, <1>13, <1>14, <1>15
     DEF Next, DriverStep, EscalateStep

\* What the steps on cards mean for where a card is: an asked card keeps its
\* session and kind, and only a new card becomes pending or open.
LEMMA CardFacts ==
    ASSUME TypeOK, Asked, Frame, NEW c \in Cards
    PROVE  /\ c < next => card'[c].session = card[c].session /\ card'[c].kind = card[c].kind
           /\ OpenAfter(c) => Open(c) \/ (c = next /\ next' = next + 1)
           /\ Pending(c)' => Pending(c) \/ (c = next /\ next' = next + 1)
           /\ c > next \/ (c = next /\ next' = next) => card'[c] = card[c]
<1> USE DEF Cards
<1>1. next \in Nat /\ c \in Nat /\ (c >= next => card[c].wait = "none")
  BY ConstantsAssumption DEF TypeOK, Asked, NoCard, ConstantsAssumption
<1>2. CASE card'[c] = card[c]
  BY <1>1, <1>2 DEF OpenAfter, Open, Pending
<1>3. CASE AnswerOf(card[c], card'[c], c \in grants') \/ ReleaseOf(card[c], card'[c])
  BY <1>1, <1>3 DEF OpenAfter, Open, Pending, AnswerOf, ReleaseOf, SameCard
<1>4. CASE c = next /\ next' = next + 1
  BY <1>1, <1>4
<1> QED
  BY <1>2, <1>3, <1>4 DEF Frame, CardSteps, CardStep

\* Cards go on being asked in order.
LEMMA AskedStep == ASSUME Inv, TypeOK', Frame, Moves PROVE Asked'
<1> SUFFICES ASSUME NEW c \in Cards
             PROVE  /\ c >= next' => /\ card'[c] = NoCard /\ esc'[c] = "none" /\ outs'[c] = 0
                                     /\ c \notin shown'
                    /\ c < next' => card'[c].session \in Sessions
  BY DEF Asked
<1>0. TypeOK /\ Asked /\ FeedSound /\ SendingSound /\ c \in Nat /\ next \in Nat
      /\ (next' = next \/ next' = next + 1)
  BY ConstantsAssumption DEF Inv, TypeOK, Cards, ConstantsAssumption, Frame
<1>1. CASE c >= next'
  <2>1. c >= next /\ card'[c] = NoCard /\ card[c] = NoCard /\ esc[c] = "none" /\ outs[c] = 0 /\ c \notin shown
    BY <1>0, <1>1, CardFacts DEF Asked
  <2>2. \A s \in Sessions : Reading(s) => Head(feed[s]) # c
    <3> SUFFICES ASSUME NEW s \in Sessions, Reading(s), Head(feed[s]) = c PROVE FALSE
      OBVIOUS
    <3>1. 1 \in 1..Len(feed[s]) /\ feed[s][1] = c
      BY <1>0, FeedTail DEF Reading
    <3>2. c # Done
      BY DEF Cards, Done
    <3> QED
      BY <1>0, <2>1, <3>1, <3>2 DEF FeedSound
  <2>3. \A s \in Sessions : driver[s] = "sending" => sending[s] # c
    BY <1>0, <2>1 DEF SendingSound
  <2>4. /\ \A s \in TaskSessions : ~(Reading(s) /\ c = Head(feed[s]))
        /\ \A s \in ChannelSessions : ~(driver[s] = "sending" /\ c = sending[s])
    BY <2>2, <2>3 DEF Sessions
  <2>5. esc'[c] = "none" /\ outs'[c] = 0 /\ c \notin shown'
    <3>1. PlaceMove(c)
      BY DEF Moves
    <3> QED
      BY <2>1, <2>4, <3>1 DEF PlaceMove
  <2> QED
    BY <1>0, <1>1, <2>1, <2>5
<1>2. CASE c < next
  BY <1>0, <1>2, CardFacts DEF Asked
<1>3. CASE c = next /\ next' = next + 1
  <2>1. \E s \in Sessions, k \in Kinds : card'[c] = Fresh(s, k)
    <3>1. card[c].wait = "none" /\ card[c].session = "none"
      BY <1>0, <1>3 DEF Asked, NoCard
    <3>2. PICK s \in Sessions, k \in Kinds : Register(s, k)
      BY <1>0, <1>3 DEF Moves
    <3>3. card'[c] = Fresh(s, k)
      BY <1>0, <1>3, <3>2 DEF Register, Fresh, TypeOK
    <3> QED
      BY <3>3
  <2> QED
    BY <1>0, <1>3, <2>1 DEF Fresh, NoCard
<1> QED
  BY <1>0, <1>1, <1>2, <1>3

\* Queues keep their own session's cards.
LEMMA FeedStep == ASSUME Inv, TypeOK', Frame, Moves PROVE FeedSound'
<1> SUFFICES ASSUME NEW s \in Sessions
             PROVE  /\ driver'[s] = "gone" => feed'[s] = <<>>
                    /\ \A i \in 1..Len(feed'[s]) :
                          IF feed'[s][i] = Done THEN run'[s] = "over"
                          ELSE feed'[s][i] < next' /\ card'[feed'[s][i]].session = s
                    /\ \A i, j \in 1..Len(feed'[s]) :
                          feed'[s][i] = feed'[s][j] /\ feed'[s][i] # Done => i = j
  BY DEF FeedSound
<1>0. /\ TypeOK /\ Asked /\ FeedSound /\ FeedMove(s) /\ RunMove(s) /\ next \in Nat
      /\ (next' = next \/ next' = next + 1) /\ feed[s] \in Seq(Cards \cup {Done})
      /\ feed'[s] \in Seq(Cards \cup {Done})
  BY DEF Inv, TypeOK, Moves, Frame
<1>1. \A i \in 1..Len(feed[s]) :
         /\ feed[s][i] \in Cards \cup {Done}
         /\ IF feed[s][i] = Done THEN run'[s] = "over"
            ELSE feed[s][i] < next /\ card'[feed[s][i]].session = s
  <2> SUFFICES ASSUME NEW i \in 1..Len(feed[s])
               PROVE  /\ feed[s][i] \in Cards \cup {Done}
                      /\ IF feed[s][i] = Done THEN run'[s] = "over"
                         ELSE feed[s][i] < next /\ card'[feed[s][i]].session = s
    OBVIOUS
  <2>1. feed[s][i] \in Cards \cup {Done}
    BY <1>0
  <2>2. CASE feed[s][i] = Done
    BY <1>0, <2>2 DEF FeedSound, RunMove
  <2>3. CASE feed[s][i] # Done
    <3>1. feed[s][i] \in Cards /\ feed[s][i] < next /\ card[feed[s][i]].session = s
      BY <1>0, <2>1, <2>3 DEF FeedSound
    <3> QED
      BY <1>0, <2>3, <3>1, CardFacts
  <2> QED
    BY <2>1, <2>2, <2>3
<1>2. \A i, j \in 1..Len(feed[s]) : feed[s][i] = feed[s][j] /\ feed[s][i] # Done => i = j
  BY <1>0 DEF FeedSound
<1>3. \A i \in 1..Len(feed[s]) : feed[s][i] # Done => feed[s][i] \in Nat
  BY <1>1 DEF Cards
<1>4. CASE feed'[s] = feed[s] /\ (driver'[s] = "gone" => driver[s] = "gone")
  BY <1>0, <1>1, <1>2, <1>3, <1>4 DEF FeedSound
<1>5. CASE feed'[s] = <<>>
  BY <1>5
<1>6. CASE Reading(s) /\ feed'[s] = Tail(feed[s]) /\ driver'[s] # "gone"
  <2>1. /\ Len(feed'[s]) = Len(feed[s]) - 1 /\ Len(feed[s]) \in Nat \ {0}
        /\ \A i \in 1..(Len(feed[s]) - 1) : feed'[s][i] = feed[s][i + 1]
    BY <1>0, <1>6, FeedTail DEF Reading
  <2>2. \A i \in 1..Len(feed'[s]) : i + 1 \in 1..Len(feed[s]) /\ feed'[s][i] = feed[s][i + 1]
    BY <2>1
  <2> QED
    BY <1>0, <1>1, <1>2, <1>3, <1>6, <2>1, <2>2
<1>7. CASE /\ driver'[s] # "gone" /\ next' = next + 1 /\ next \in Cards
           /\ card'[next].session = s /\ feed'[s] = Append(feed[s], next)
  <2>1. /\ Len(feed'[s]) = Len(feed[s]) + 1 /\ Len(feed[s]) \in Nat
        /\ feed'[s][Len(feed[s]) + 1] = next /\ next # Done
        /\ \A i \in 1..Len(feed[s]) : feed'[s][i] = feed[s][i]
    BY <1>0, <1>7 DEF Cards, Done
  <2> QED
    BY <1>0, <1>1, <1>2, <1>3, <1>7, <2>1
<1>8. CASE driver'[s] # "gone" /\ run'[s] = "over" /\ feed'[s] = Append(feed[s], Done)
  <2>1. /\ Len(feed'[s]) = Len(feed[s]) + 1 /\ Len(feed[s]) \in Nat
        /\ feed'[s][Len(feed[s]) + 1] = Done
        /\ \A i \in 1..Len(feed[s]) : feed'[s][i] = feed[s][i]
    BY <1>0, <1>8
  <2> QED
    BY <1>0, <1>1, <1>2, <1>3, <1>8, <2>1
<1> QED
  BY <1>0, <1>4, <1>5, <1>6, <1>7, <1>8 DEF FeedMove

\* A chat driver goes on sending its own cards.
LEMMA SendingStep == ASSUME Inv, TypeOK', Frame, Moves PROVE SendingSound'
<1> SUFFICES ASSUME NEW s \in Sessions
             PROVE  IF driver'[s] = "sending"
                    THEN /\ s \in ChannelSessions /\ sending'[s] \in Cards
                         /\ sending'[s] < next' /\ card'[sending'[s]].session = s
                    ELSE sending'[s] = 0
  BY DEF SendingSound
<1>0. /\ TypeOK /\ Asked /\ FeedSound /\ SendingSound /\ SendMove(s) /\ next \in Nat
      /\ (next' = next \/ next' = next + 1)
  BY DEF Inv, TypeOK, Moves, Frame
<1>1. ASSUME NEW c \in Cards, c < next, card[c].session = s PROVE c < next' /\ card'[c].session = s
  <2>1. c \in Nat
    BY DEF Cards
  <2> QED
    BY <1>0, <1>1, <2>1, CardFacts
<1>2. CASE sending'[s] = sending[s] /\ (driver'[s] = "sending" <=> driver[s] = "sending")
  BY <1>0, <1>1, <1>2 DEF SendingSound
<1>3. CASE /\ s \in ChannelSessions /\ Reading(s) /\ Head(feed[s]) \in Cards
           /\ driver'[s] = "sending" /\ sending'[s] = Head(feed[s])
  <2>1. 1 \in 1..Len(feed[s]) /\ feed[s][1] = Head(feed[s]) /\ Head(feed[s]) # Done
    BY <1>0, <1>3, FeedTail DEF Reading, Cards, Done
  <2>2. Head(feed[s]) < next /\ card[Head(feed[s])].session = s
    BY <1>0, <2>1 DEF FeedSound
  <2> QED
    BY <1>1, <1>3, <2>2
<1>4. CASE driver'[s] # "sending" /\ sending'[s] = 0
  BY <1>4
<1> QED
  BY <1>0, <1>2, <1>3, <1>4 DEF SendMove

\* Escalations keep their places, and report once.
LEMMA PlaceStep == ASSUME Inv, TypeOK', Frame, Moves PROVE EscalationPlace' /\ OutcomeOnce'
<1> SUFFICES ASSUME NEW c \in Cards
             PROVE  /\ esc'[c] # "none" => /\ card'[c].session \in TaskSessions
                                           /\ \A i \in 1..Len(feed'[card'[c].session]) :
                                                 feed'[card'[c].session][i] # c
                    /\ esc'[c] = "sending" => c \notin shown' /\ outs'[c] = 0
                    /\ esc'[c] = "none" => outs'[c] = 0
                    /\ c \in shown' /\ card'[c].session \in TaskSessions => esc'[c] = "out"
                    /\ c \in shown' => outs'[c] = 0
                    /\ outs'[c] <= 1 /\ (outs'[c] = 1 => ~OpenAfter(c) /\ c \notin shown')
  BY DEF EscalationPlace, OutcomeOnce, OpenAfter, Open, Pending
<1>0. /\ TypeOK /\ Asked /\ FeedSound /\ SendingSound /\ EscalationPlace /\ OutcomeOnce /\ PlaceMove(c)
      /\ next \in Nat /\ c \in Nat /\ (next' = next \/ next' = next + 1)
      /\ outs[c] \in Nat /\ esc[c] \in EscStates
  <2>1. next \in Nat /\ c \in Nat /\ (next' = next \/ next' = next + 1)
    BY DEF Inv, TypeOK, Cards, Frame
  <2>2. outs[c] \in Nat /\ esc[c] \in EscStates
    BY DEF Inv, TypeOK
  <2> QED
    BY <2>1, <2>2 DEF Inv, Moves
<1>1. CASE c >= next
  <2>1. esc[c] = "none" /\ outs[c] = 0 /\ c \notin shown
    BY <1>0, <1>1 DEF Asked
  <2>2. /\ \A s \in TaskSessions : ~(Reading(s) /\ c = Head(feed[s]))
        /\ \A s \in ChannelSessions : ~(driver[s] = "sending" /\ c = sending[s])
    <3>1. ASSUME NEW s \in Sessions, Reading(s), c = Head(feed[s]) PROVE FALSE
      <4>1. 1 \in 1..Len(feed[s]) /\ feed[s][1] = c /\ c # Done
        BY <1>0, <3>1, FeedTail DEF Reading, Cards, Done
      <4> QED
        BY <1>0, <1>1, <4>1 DEF FeedSound
    <3>2. ASSUME NEW s \in Sessions, driver[s] = "sending", c = sending[s] PROVE FALSE
      BY <1>0, <1>1, <3>2 DEF SendingSound
    <3> QED
      BY <3>1, <3>2 DEF Sessions
  <2>3. esc'[c] = "none" /\ outs'[c] = 0 /\ c \notin shown'
    BY <1>0, <2>1, <2>2 DEF PlaceMove
  <2> QED
    BY <2>3
<1>2. CASE c < next
  <2> DEFINE s == card[c].session
  <2>1. s \in Sessions /\ card'[c].session = s /\ (OpenAfter(c) => Open(c))
    BY <1>0, <1>2, CardFacts DEF Asked
  <2>2. FeedMove(s) /\ feed[s] \in Seq(Cards \cup {Done}) /\ feed'[s] \in Seq(Cards \cup {Done})
    BY <2>1 DEF Moves, TypeOK, Inv
  <2>3. ASSUME \A i \in 1..Len(feed[s]) : feed[s][i] # c
        PROVE  \A i \in 1..Len(feed'[s]) : feed'[s][i] # c
    <3>1. CASE feed'[s] = feed[s] \/ feed'[s] = <<>>
      BY <2>3, <3>1
    <3>2. CASE Reading(s) /\ feed'[s] = Tail(feed[s])
      BY <1>0, <2>1, <2>3, <3>2, FeedTail DEF Reading
    <3>3. CASE feed'[s] = Append(feed[s], next)
      BY <1>0, <1>2, <2>2, <2>3, <3>3
    <3>4. CASE feed'[s] = Append(feed[s], Done)
      BY <2>2, <2>3, <3>4 DEF Cards, Done
    <3> QED
      BY <2>2, <3>1, <3>2, <3>3, <3>4 DEF FeedMove
  <2>4. esc[c] # "none" => /\ s \in TaskSessions /\ \A i \in 1..Len(feed'[s]) : feed'[s][i] # c
    BY <1>0, <2>3 DEF EscalationPlace
  <2>5. CASE esc'[c] = esc[c] /\ outs'[c] = outs[c] /\ (c \in shown' <=> c \in shown)
    BY <1>0, <2>1, <2>4, <2>5 DEF EscalationPlace, OutcomeOnce
  <2>6. CASE /\ esc'[c] = "sending" /\ outs'[c] = outs[c] /\ (c \in shown' <=> c \in shown)
             /\ \E t \in TaskSessions : Reading(t) /\ c = Head(feed[t]) /\ feed'[t] = Tail(feed[t])
    <3>1. PICK t \in TaskSessions : Reading(t) /\ c = Head(feed[t]) /\ feed'[t] = Tail(feed[t])
      BY <2>6
    <3>2. /\ t \in Sessions /\ feed[t] # <<>> /\ Len(feed[t]) \in Nat \ {0} /\ feed[t][1] = c /\ c # Done
          /\ Len(feed'[t]) = Len(feed[t]) - 1
          /\ \A i \in 1..(Len(feed[t]) - 1) : feed'[t][i] = feed[t][i + 1]
      BY <1>0, <3>1, FeedTail DEF Reading, Sessions, Cards, Done
    <3>3. t = s /\ s \in TaskSessions
      BY <1>0, <3>2 DEF FeedSound
    <3>4. esc[c] = "none"
      BY <1>0, <3>2, <3>3 DEF EscalationPlace
    <3>5. outs[c] = 0 /\ c \notin shown
      BY <1>0, <3>3, <3>4 DEF EscalationPlace
    <3>6. ASSUME NEW i \in 1..Len(feed'[s]) PROVE feed'[s][i] # c
      <4>1. i + 1 \in 1..Len(feed[s]) /\ 1 \in 1..Len(feed[s]) /\ feed'[s][i] = feed[s][i + 1] /\ i + 1 # 1
        BY <3>2, <3>3
      <4>2. \A a, b \in 1..Len(feed[s]) : feed[s][a] = feed[s][b] /\ feed[s][a] # Done => a = b
        BY <1>0, <2>1 DEF FeedSound
      <4> QED
        BY <3>2, <3>3, <4>1, <4>2
    <3> QED
      BY <2>1, <2>6, <3>3, <3>5, <3>6
  <2>7. CASE esc[c] = "sending" /\ esc'[c] = "out" /\ outs'[c] = outs[c] /\ c \in shown'
    BY <1>0, <2>1, <2>4, <2>7 DEF EscalationPlace
  <2>8. CASE /\ esc[c] = "sending" /\ esc'[c] = "out" /\ outs'[c] = outs[c] + 1
             /\ (c \in shown' <=> c \in shown) /\ ~OpenAfter(c)
    BY <1>0, <2>1, <2>4, <2>8 DEF EscalationPlace
  <2>9. CASE /\ esc'[c] = esc[c] /\ outs'[c] = outs[c] /\ c \in shown'
             /\ \E t \in ChannelSessions : driver[t] = "sending" /\ c = sending[t]
    <3>1. s \in ChannelSessions
      BY <1>0, <2>9 DEF SendingSound, Sessions
    <3>2. s \notin TaskSessions
      BY <3>1, ConstantsAssumption DEF ConstantsAssumption
    <3>3. esc[c] = "none" /\ outs[c] = 0
      BY <1>0, <3>2 DEF EscalationPlace
    <3> QED
      BY <2>1, <2>9, <3>2, <3>3
  <2>10. CASE /\ esc'[c] = esc[c] /\ c \in shown /\ c \notin shown' /\ ~OpenAfter(c)
              /\ outs'[c] = IF esc[c] = "out" THEN outs[c] + 1 ELSE outs[c]
    <3>1. outs[c] = 0 /\ esc[c] # "sending"
      BY <1>0, <2>10 DEF EscalationPlace
    <3> QED
      BY <1>0, <2>1, <2>4, <2>10, <3>1 DEF EscStates
  <2> QED
    BY <1>0, <2>5, <2>6, <2>7, <2>8, <2>9, <2>10 DEF PlaceMove
<1> QED
  BY <1>0, <1>1, <1>2

\* A driver that is gone has a run that asks no more; a run that is over has
\* left no tool waiting.
LEMMA RunStep == ASSUME Inv, TypeOK', Frame, Moves PROVE DriverGone' /\ OverLeavesNone'
<1>0. /\ TypeOK /\ Asked /\ DriverGone /\ OverLeavesNone /\ FeedSound /\ next \in Nat
      /\ \A s \in Sessions : FeedMove(s) /\ RunMove(s)
      /\ quit \subseteq quit' /\ run \in [Sessions -> RunStates]
  BY DEF Inv, TypeOK, Moves
<1>1. DriverGone'
  <2> SUFFICES ASSUME NEW s \in TaskSessions \cup ChannelSessions, s \notin quit', driver'[s] = "gone"
               PROVE  run'[s] # "live"
    BY DEF DriverGone
  <2>1. s \in Sessions /\ s \notin quit
    BY <1>0 DEF Sessions
  <2>2. CASE driver[s] = "gone"
    BY <1>0, <2>1, <2>2 DEF DriverGone, RunMove
  <2>3. CASE driver[s] # "gone"
    BY <1>0, <2>1, <2>3 DEF FeedMove
  <2> QED
    BY <2>2, <2>3
<1>2. OverLeavesNone'
  <2> SUFFICES ASSUME NEW c \in Cards, Pending(c)', card'[c].session \in Sessions,
                      run'[card'[c].session] = "over"
               PROVE  card'[c].kind = "egress"
    BY DEF OverLeavesNone
  <2> DEFINE s == card'[c].session
  <2>1. c \in Nat
    BY DEF Cards
  <2>2. CASE c = next /\ next' = next + 1
    <3>1. PICK t \in Sessions, k \in Kinds : Register(t, k)
      BY <1>0, <2>2 DEF Moves
    <3>2. card'[c].session = t /\ run' = run /\ run[t] # "over"
      BY <1>0, <2>2, <3>1 DEF Register, NoCard, TypeOK
    <3> QED
      BY <3>2
  <2>3. CASE Pending(c) /\ ~(c = next /\ next' = next + 1)
    <3>1. c < next
      BY <1>0, <2>1, <2>3 DEF Asked, Pending, NoCard
    <3>2. card[c].session = s /\ card'[c].kind = card[c].kind
      BY <1>0, <3>1, CardFacts
    <3>3. CASE run[s] = "over"
      BY <1>0, <2>3, <3>2, <3>3 DEF OverLeavesNone
    <3>4. CASE run[s] # "over"
      <4>1. c \in OfSession(s)
        BY <2>3, <3>2 DEF OfSession
      <4>2. \A d \in OfSession(s) : card[d].kind = "egress"
        BY <1>0, <3>4 DEF RunMove
      <4> QED
        BY <3>2, <4>1, <4>2
    <3> QED
      BY <3>3, <3>4
  <2> QED
    BY <1>0, <2>2, <2>3, CardFacts
<1> QED
  BY <1>1, <1>2

\* A card that waits stays with something other than a human that answers it.
LEMMA AttendedStep == ASSUME Inv, TypeOK', Frame, Moves PROVE CardsAttended'
<1> SUFFICES ASSUME NEW c \in Cards, OpenAfter(c),
                    card'[c].session \in (TaskSessions \cup ChannelSessions) \ quit'
             PROVE  \/ InFeed(c)' \/ sending'[card'[c].session] = c \/ esc'[c] = "sending" \/ c \in shown'
                    \/ run'[card'[c].session] = "stopping" \/ card'[c].kind = "egress"
  BY DEF CardsAttended, OpenAfter, Open, Pending
<1> DEFINE s == card'[c].session
<1>0. /\ TypeOK /\ Asked /\ DriverGone /\ FeedSound /\ SendingSound /\ CardsAttended /\ OverLeavesNone
      /\ next \in Nat /\ c \in Nat /\ s \in Sessions /\ s \notin quit /\ PlaceMove(c)
      /\ FeedMove(s) /\ RunMove(s) /\ SendMove(s)
      /\ feed[s] \in Seq(Cards \cup {Done}) /\ run[s] \in RunStates
  <2>1. s \in Sessions /\ s \notin quit
    BY DEF Moves, Sessions
  <2> QED
    BY <2>1 DEF Inv, TypeOK, Moves, Cards
<1>1. CASE c = next /\ next' = next + 1
  <2>1. PICK t \in Sessions, k \in Kinds : Register(t, k)
    BY <1>0, <1>1 DEF Moves
  <2>2. s = t /\ card'[c].kind = k /\ UNCHANGED <<run, driver>>
    BY <1>0, <1>1, <2>1 DEF Register, NoCard, TypeOK
  <2>3. CASE driver[s] = "gone"
    BY <1>0, <2>1, <2>2, <2>3 DEF DriverGone, Register
  <2>4. CASE driver[s] # "gone"
    <3>1. feed'[s] = Append(feed[s], c)
      BY <1>0, <1>1, <2>1, <2>2, <2>4 DEF Register, TypeOK
    <3>2. Len(feed[s]) + 1 \in DOMAIN feed'[s] /\ feed'[s][Len(feed[s]) + 1] = c
      BY <1>0, <3>1
    <3> QED
      BY <2>2, <2>4, <3>2 DEF InFeed
  <2> QED
    BY <2>3, <2>4
<1>2. CASE ~(c = next /\ next' = next + 1)
  <2>1. Open(c) /\ c < next
    BY <1>0, <1>2, CardFacts DEF Asked, Open, Pending, NoCard
  <2>2. card[c].session = s /\ card'[c].kind = card[c].kind
    BY <1>0, <2>1, CardFacts
  <2>3. CASE InFeed(c)
    <3>1. driver[s] # "gone" /\ \E i \in 1..Len(feed[s]) : feed[s][i] = c
      BY <1>0, <2>2, <2>3 DEF InFeed
    <3>2. PICK i \in 1..Len(feed[s]) : feed[s][i] = c
      BY <3>1
    <3>3. CASE feed'[s] = feed[s] /\ (driver'[s] = "gone" => driver[s] = "gone")
      BY <1>0, <3>1, <3>2, <3>3 DEF InFeed
    <3>4. CASE /\ feed'[s] = <<>> /\ driver'[s] = "gone"
               /\ s \in quit' \/ \A d \in Cards : card[d].session = s /\ card[d].kind # "egress" => ~OpenAfter(d)
      BY <2>2, <3>4
    <3>5. CASE /\ Reading(s) /\ feed'[s] = Tail(feed[s]) /\ driver'[s] # "gone"
               /\ Head(feed[s]) \in Cards
               /\ OpenAfter(Head(feed[s])) => esc'[Head(feed[s])] = "sending" \/ sending'[s] = Head(feed[s])
      <4>1. /\ Head(feed[s]) = feed[s][1] /\ Len(feed'[s]) = Len(feed[s]) - 1
            /\ \A j \in 1..(Len(feed[s]) - 1) : feed'[s][j] = feed[s][j + 1]
        BY <1>0, <3>5, FeedTail DEF Reading
      <4>2. CASE i = 1
        BY <3>2, <3>5, <4>1, <4>2
      <4>3. CASE i # 1
        <5>1. i - 1 \in DOMAIN feed'[s] /\ feed'[s][i - 1] = c
          BY <1>0, <3>2, <3>5, <4>1, <4>3
        <5> QED
          BY <3>5, <5>1 DEF InFeed
      <4> QED
        BY <4>2, <4>3
    <3>6. CASE driver'[s] # "gone" /\ \E x \in Cards \cup {Done} : feed'[s] = Append(feed[s], x)
      <4>1. i \in DOMAIN feed'[s] /\ feed'[s][i] = c
        BY <1>0, <3>2, <3>6
      <4> QED
        BY <3>6, <4>1 DEF InFeed
    <3> QED
      BY <1>0, <3>3, <3>4, <3>5, <3>6 DEF FeedMove
  <2>4. CASE sending[s] = c
    <3>1. c # 0
      BY DEF Cards
    <3>2. driver[s] = "sending"
      BY <1>0, <2>4, <3>1 DEF SendingSound
    <3> QED
      BY <1>0, <2>4, <3>2 DEF SendMove, Reading
  <2>5. CASE esc[c] = "sending" \/ c \in shown
    BY <1>0, <2>5 DEF PlaceMove
  <2>6. CASE run[s] = "stopping"
    BY <1>0, <2>1, <2>2, <2>6 DEF RunMove, OfSession, Open
  <2>7. CASE card[c].kind = "egress"
    BY <2>2, <2>7
  <2> QED
    BY <1>0, <2>1, <2>2, <2>3, <2>4, <2>5, <2>6, <2>7 DEF CardsAttended
<1> QED
  BY <1>1, <1>2

\* Before anything is asked, the invariant holds.
LEMMA InitInv == Init => Inv
<1> SUFFICES ASSUME Init PROVE Inv
  OBVIOUS
<1>1. TypeOK
  BY CardShapes, ConstantsAssumption
     DEF Init, TypeOK, ConstantsAssumption, RunStates, DriverStates, EscStates, Sessions
<1>2. Asked /\ AllowGranted /\ ReadOnce /\ ApprovedByRight /\ OverLeavesNone
  BY ConstantsAssumption
     DEF Init, Asked, AllowGranted, ReadOnce, ApprovedByRight, OverLeavesNone, Pending, NoCard, Cards,
         ConstantsAssumption
<1>3. FeedSound /\ SendingSound /\ EscalationPlace
  BY DEF Init, FeedSound, SendingSound, EscalationPlace, NoCard
<1>4. OutcomeOnce /\ CardsAttended
  BY DEF Init, OutcomeOnce, CardsAttended, Open, Pending, NoCard
<1>5. DriverGone
  BY ConstantsAssumption DEF Init, DriverGone, ConstantsAssumption, Sessions
<1> QED
  BY <1>1, <1>2, <1>3, <1>4, <1>5 DEF Inv

\* Every step keeps the invariant.
LEMMA NextInv == Inv /\ [Next]_vars => Inv'
<1> SUFFICES ASSUME Inv, [Next]_vars PROVE Inv'
  OBVIOUS
<1>1. TypeOK' /\ Frame
  BY TypeStep, StepFrame DEF Inv
<1>2. Moves
  BY StepMoves
<1>3. AllowGranted' /\ ReadOnce' /\ ApprovedByRight'
  BY <1>1, AnswersStep DEF Inv
<1> QED
  BY <1>1, <1>2, <1>3, AskedStep, FeedStep, SendingStep, PlaceStep, RunStep, AttendedStep DEF Inv

\* The invariant holds of every state of every behaviour.
THEOREM Invariance == Spec => []Inv
BY InitInv, NextInv, PTL DEF Spec

\* For any sessions and any number of cards: a tool goes ahead only if someone
\* entitled to answer that very card allowed it.
THEOREM ApprovedByRightHolds == Spec => []ApprovedByRight
<1>1. Inv => ApprovedByRight
  BY DEF Inv
<1> QED
  BY <1>1, Invariance, PTL

\* An escalated card has one outcome, an elicitation's answer one reader, and an
\* answer that was acted on is gone, whatever order the clicks, timers, stops and
\* failed sends come in.
THEOREM AnswersOnceHolds == Spec => []AnswersOnce
<1>1. Inv => AnswersOnce
  BY DEF Inv, AnswersOnce
<1> QED
  BY <1>1, Invariance, PTL

\* No tool of an unattended or chat run is left parked with nobody but a human
\* to answer it.
THEOREM CardsAttendedHolds == Spec => []CardsAttended
<1>1. Inv => CardsAttended
  BY DEF Inv
<1> QED
  BY <1>1, Invariance, PTL
=============================================================================
