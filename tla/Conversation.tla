---------------------------- MODULE Conversation ----------------------------
(***************************************************************************)
(* One conversation: the runs of AgentRunner.run (agent.py) over its saved *)
(* history, and what is left out of the model's input to keep it inside    *)
(* the window: the fold and the cut before a run (context_compaction.py),  *)
(* the filter before every model call (compaction_filter.py).              *)
(*                                                                         *)
(* An item is its kind and an identity: a call and its result share one.   *)
(* A summary is the set of items it was made from.  How long texts are is  *)
(* left open, so each comparison with a threshold may go either way; L1,   *)
(* which shortens texts and moves no item, does not show.  A session has   *)
(* one run at a time (RunRegistry).                                        *)
(***************************************************************************)
EXTENDS Naturals, Sequences, FiniteSets, FiniteSetsExt, SequencesExt

CONSTANTS
    MaxTurns,          \* the run's max_turns
    RecentTurns,       \* context_compaction.RECENT_TURNS
    RecentToolTurns,   \* context_compaction.RECENT_TOOL_TURNS
    HardKeep,          \* keep_turns of the filter's truncate_turns
    RescueMax,         \* agent.CONTEXT_RESCUE_MAX
    MaxRuns,           \* bound: runs in the conversation
    MaxItems           \* bound: items made before the last turn of tools

ASSUME ConvConstants ==
    /\ {MaxTurns, RecentTurns, RecentToolTurns, HardKeep} \subseteq Nat \ {0}
    /\ {RescueMax, MaxRuns, MaxItems} \subseteq Nat

VARIABLES
    hist,      \* Seq(Item): the latest messages row
    cursor,    \* sessions.folded_upto
    covered,   \* sessions.rolling_summary: the items it was made from
    run,       \* the run in progress
    runs, made,  \* how many runs, how many items there have been
    unseen,    \* ghost: items cut before a run that folded further on
    blind,     \* ghost: a synthesis call folded
    shifted    \* ghost: something was put in front of where a fold ended

convVars == <<hist, cursor, covered, run, runs, made, unseen, blind, shifted>>

NoRun == [pc |-> "idle"]

It(k, n) == [kind |-> k, id |-> n]
Items(s) == {m \in ToSet(s) : m.kind # "think"}
Upto(s, n) == SubSeq(s, 1, n)
From(s, n) == SubSeq(s, n + 1, Len(s))    \* Python's s[n:]

ConvInit ==
    /\ hist = <<>> /\ cursor = 0 /\ covered = {} /\ run = NoRun
    /\ runs = 0 /\ made = 0 /\ unseen = {} /\ blind = FALSE /\ shifted = FALSE

-----------------------------------------------------------------------------
(* Boundaries.  A position n stands for the cut between s[1..n] and the    *)
(* rest, as the code's indices do.                                         *)

UserIndices(s) == {n \in 0 .. Len(s) - 1 : s[n + 1].kind = "user"}

IsTurnItem(m) == m.kind \in {"think", "call", "say"}

TurnStarts(s) ==
    {n \in 0 .. Len(s) - 1 : IsTurnItem(s[n + 1]) /\ (n = 0 \/ ~IsTurnItem(s[n]))}

\* The k-th largest of a set of positions; 0 when there are fewer.
KthLast(ns, k) ==
    IF Cardinality(ns) < k THEN 0
    ELSE CHOOSE n \in ns : Cardinality({m \in ns : m >= n}) = k

CutKeepRecentItems(s, k) == IF Len(s) < k THEN 0 ELSE Len(s) - k
CutKeepRecentTurns(s, k) == KthLast(TurnStarts(s), k)

KeepkCut(s) ==
    IF Cardinality(UserIndices(s)) > RecentTurns THEN KthLast(UserIndices(s), RecentTurns)
    ELSE CutKeepRecentTurns(s, RecentToolTurns)

Boundaries(s) == IF Cardinality(UserIndices(s)) >= 2 THEN UserIndices(s) ELSE TurnStarts(s)

\* Where the fold may end: at the cut, or at an earlier boundary after F when
\* the text up to there is too long for the summarizer.
FoldCuts(s, f) ==
    IF KeepkCut(s) > f THEN {KeepkCut(s)} \cup {n \in Boundaries(s) : f < n /\ n < KeepkCut(s)}
    ELSE {}

\* What _truncate_to_fit may leave: s from one of its boundaries on.
Tails(s) == IF Boundaries(s) = {} THEN {s} ELSE {From(s, n) : n \in Boundaries(s)}

-----------------------------------------------------------------------------
(* Shapes of the list.                                                     *)

InjectSyntheticReasoning(s) ==
    FlattenSeq([n \in DOMAIN s |->
        IF s[n].kind = "say" /\ (n = 1 \/ s[n - 1].kind # "think")
        THEN <<It("think", s[n].id), s[n]>> ELSE <<s[n]>>])

RepairDanglingToolCalls(s) ==
    FlattenSeq([n \in DOMAIN s |->
        IF s[n].kind = "call" /\ It("out", s[n].id) \notin ToSet(s)
        THEN <<s[n], It("out", s[n].id)>> ELSE <<s[n]>>])

\* The first n items of s are not the first n of t: where something ended by
\* its index, it now ends elsewhere.
Shifts(n, s, t) == Upto(s, n) # Upto(t, n)

\* Messages with a role, and one last user message that quotes every call.
FlattenToolItems(s) ==
    FlattenSeq([n \in DOMAIN s |-> IF s[n].kind \in {"user", "say"} THEN <<s[n]>> ELSE <<>>])
        \o (IF \E m \in ToSet(s) : m.kind = "call" THEN <<It("user", 0)>> ELSE <<>>)

TruncateTurns(s) ==
    LET cut == CutKeepRecentTurns(s, HardKeep)
        head == IF s # <<>> /\ s[1].kind = "user" THEN <<s[1]>> ELSE <<>>
    IN IF cut = 0 THEN s ELSE head \o From(s, cut)

\* The full list's first user message comes back in front of what is left.
WithHead(full, s) ==
    IF full # <<>> /\ full[1].kind = "user" /\ (s = <<>> \/ s[1] # full[1])
    THEN <<full[1]>> \o s ELSE s

-----------------------------------------------------------------------------
(* Before the run.                                                         *)

\* What compact_for_run may return, with the summary state it has written:
\* [sent, cursor, covered].  Off or failed: all of the history, no summary.
CompactForRun ==
    LET F == IF cursor > Len(hist) THEN 0 ELSE cursor
        Res(s, f, c) == [sent |-> s, cursor |-> f, covered |-> c]
        folds == {[at |-> n, of |-> covered \cup Items(SubSeq(hist, F + 1, n))] : n \in FoldCuts(hist, F)}
        fits == {Res(From(hist, F), cursor, covered)}
        folded == {Res(From(hist, d.at), d.at, d.of) : d \in folds}
    IN {Res(hist, cursor, covered)} \cup fits \cup folded
         \cup UNION {{Res(t, r.cursor, r.covered) : t \in Tails(r.sent)} : r \in fits \cup folded}

\* AgentRunner.run up to the stream: a question, or the continuation of a run
\* that was paused.  Without compaction (the setting, or its setup failed) the
\* filter folds nothing until a rescue turns it on.
RunStart ==
    /\ run.pc = "idle" /\ runs < MaxRuns
    /\ \E c \in CompactForRun, q \in BOOLEAN, mode \in {"on", "off", "failed"} :
        LET dropped == Len(hist) - Len(c.sent)
            F == IF c.cursor > Len(hist) THEN 0 ELSE c.cursor
            ask == IF q THEN <<It("user", made + 1)>> ELSE <<>>
            input == InjectSyntheticReasoning(c.sent \o ask)
        IN /\ q \/ hist # <<>>
           /\ mode = "off" => c.sent = hist /\ c.cursor = cursor
           /\ cursor' = c.cursor /\ covered' = c.covered
           /\ run' = [pc |-> "ready", mode |-> mode, prefix |-> Upto(hist, dropped),
                      input |-> input, sent |-> <<>>,
                      prefixLen |-> IF mode = "failed" THEN 0 ELSE dropped,
                      fold |-> 0, sum |-> IF mode = "failed" THEN {} ELSE c.covered,
                      l2 |-> FALSE, fails |-> 0, turns |-> 0, cap |-> MaxTurns,
                      calls |-> 0, rescues |-> 0, pin |-> q, said |-> FALSE, named |-> FALSE,
                      cut |-> Items(SubSeq(hist, F + 1, dropped))]
           /\ made' = IF q THEN made + 1 ELSE made
           /\ shifted' = (shifted \/ Shifts(c.cursor - dropped, c.sent \o ask, input))
    /\ runs' = runs + 1
    /\ UNCHANGED <<hist, unseen, blind>>

-----------------------------------------------------------------------------
(* The filter before a model call.                                         *)

\* The states compaction_filter may leave the run in when the list is full:
\* too long for L2 or not, the summary made or not, too long still or not.
Filtered(r, full) ==
    LET items == IF 0 < r.fold /\ r.fold <= Len(full) THEN From(full, r.fold) ELSE full
        cut == CutKeepRecentTurns(items, RecentToolTurns)
        Kept(s) == {s, WithHead(full, TruncateTurns(s))}
        plain == {[r EXCEPT !.sent = s] : s \in Kept(items)}
        folded == {[r EXCEPT !.sent = s, !.sum = @ \cup Items(Upto(items, cut)),
                             !.fold = @ + cut, !.l2 = TRUE, !.fails = 0] : s \in Kept(From(items, cut))}
        failed == {[r EXCEPT !.sent = s, !.fails = @ + 1] : s \in Kept(items)}
    IN IF r.mode # "on" THEN {[r EXCEPT !.sent = IF r.mode = "hard" THEN s ELSE full] : s \in Kept(items)}
       ELSE plain \cup (IF cut > 0 /\ r.fails < 2 THEN folded \cup failed ELSE {})

ModelCall ==
    /\ run.pc = "ready" /\ run.turns < run.cap
    /\ \E r \in Filtered(run, run.input) : run' = [r EXCEPT !.pc = "asked", !.turns = @ + 1]
    /\ UNCHANGED <<hist, cursor, covered, runs, made, unseen, blind, shifted>>

\* A turn of tool calls: one or two in parallel, maybe with a text; a failed
\* one may cancel its sibling, which then has no result, and ends the stream.
ToolTurn ==
    /\ run.pc = "asked" /\ made < MaxItems
    /\ \E n \in 1 .. 2, text, lost \in BOOLEAN :
        LET c == made + IF text THEN 1 ELSE 0
            calls == [i \in 1 .. n |-> It("call", c + i)]
            outs == [i \in 1 .. (IF lost THEN n - 1 ELSE n) |-> It("out", c + i)]
        IN /\ lost => n = 2
           /\ run' = [run EXCEPT !.pc = IF lost THEN "raised" ELSE "ready", !.calls = @ + 1, !.sent = <<>>,
                                 !.named = TRUE, !.said = @ \/ text,
                                 !.input = @ \o (IF text THEN <<It("say", c)>> ELSE <<>>) \o calls \o outs]
           /\ made' = c + n
    /\ UNCHANGED <<hist, cursor, covered, runs, unseen, blind, shifted>>

\* The model answers in words, or with nothing at all.
Answer ==
    /\ run.pc = "asked"
    /\ \/ /\ run' = [run EXCEPT !.pc = "over", !.calls = @ + 1, !.said = TRUE, !.sent = <<>>,
                                !.input = Append(@, It("say", made + 1))]
          /\ made' = made + 1
       \/ run' = [run EXCEPT !.pc = "over", !.calls = @ + 1, !.sent = <<>>] /\ UNCHANGED made
    /\ UNCHANGED <<hist, cursor, covered, runs, unseen, blind, shifted>>

\* "limit": a 400 that context_errors.classify reads a window from.
ModelFails ==
    /\ run.pc = "asked" /\ \E e \in {"limit", "raised"} : run' = [run EXCEPT !.pc = e, !.sent = <<>>]
    /\ UNCHANGED <<hist, cursor, covered, runs, made, unseen, blind, shifted>>

-----------------------------------------------------------------------------
(* The loop around the stream.                                             *)

TurnsAfterRescueNot(r) == r.cap
\* The turns left to the retry, at least one.
TurnsAfterRescue(r) == IF r.cap > r.calls THEN r.cap - r.calls ELSE 1

\* The window was too small: one more attempt from where the stream got to,
\* with a smaller window and compaction on.
Rescue ==
    /\ run.pc = "limit" /\ run.rescues < RescueMax
    /\ LET input == RepairDanglingToolCalls(InjectSyntheticReasoning(run.input))
       IN /\ run' = [run EXCEPT !.pc = "ready", !.rescues = @ + 1, !.turns = 0, !.named = FALSE,
                                !.cap = TurnsAfterRescue(run),
                                !.mode = IF @ \in {"failed", "hard"} THEN "hard" ELSE "on",
                                !.input = input]
          /\ shifted' = \/ shifted
                        \/ \E n \in {run.fold, cursor - Len(run.prefix)} : Shifts(n, run.input, input)
    /\ UNCHANGED <<hist, cursor, covered, runs, made, unseen, blind>>

\* should_retry_without_pin: nothing at all came back from a pinned first call.
RetryUnpinned ==
    /\ run.pc = "over" /\ run.pin /\ ~run.said /\ ~run.named
    /\ run' = [run EXCEPT !.pc = "ready", !.pin = FALSE, !.turns = 0]
    /\ UNCHANGED <<hist, cursor, covered, runs, made, unseen, blind, shifted>>

SavedTail(r, list) == list
\* The row that is written: what was cut away in front, then the whole list.
Saved(r, list) == r.prefix \o list

PersistMidrunStateEnd(r) ==
    IF ~r.l2 \/ r.sum = {} THEN [cursor |-> cursor, covered |-> covered, unseen |-> unseen]
    ELSE [cursor |-> r.prefixLen + Len(r.input), covered |-> r.sum, unseen |-> unseen \cup r.cut]
\* The cursor covers what was cut before the run as well, summarised or not.
PersistMidrunState(r) ==
    IF ~r.l2 \/ r.sum = {} THEN [cursor |-> cursor, covered |-> covered, unseen |-> unseen]
    ELSE [cursor |-> r.prefixLen + r.fold, covered |-> r.sum, unseen |-> unseen \cup r.cut]

EndRun(r, list, mid) ==
    LET p == IF mid THEN PersistMidrunState(r) ELSE [cursor |-> cursor, covered |-> covered, unseen |-> unseen]
    IN /\ hist' = Saved(r, list)
       /\ cursor' = p.cursor /\ covered' = p.covered /\ unseen' = p.unseen
       /\ run' = NoRun

Succeed ==
    /\ run.pc = "over" /\ ~(run.pin /\ ~run.said /\ ~run.named)
    /\ EndRun(run, run.input, TRUE)
    /\ UNCHANGED <<runs, made, blind, shifted>>

\* A pause at the cap: saved with its mid-run state.
Pause ==
    /\ run.pc = "ready" /\ run.turns = run.cap
    /\ EndRun(run, RepairDanglingToolCalls(run.input), TRUE)
    /\ UNCHANGED <<runs, made, blind, shifted>>

\* _synthesize_after_max_turns: the flattened list goes through the same
\* filter, with the same fold index; the whole list and the answer are saved.
\* Without an answer the run ends as in Pause.
Synthesize ==
    /\ run.pc = "ready" /\ run.turns = run.cap
    /\ \E r \in Filtered(run, InjectSyntheticReasoning(FlattenToolItems(run.input))), ok \in BOOLEAN :
        /\ EndRun(r, RepairDanglingToolCalls(run.input)
                        \o (IF ok THEN <<It("say", made + 1)>> ELSE <<>>), TRUE)
        /\ made' = IF ok THEN made + 1 ELSE made
        /\ blind' = (blind \/ r.fold # run.fold)
    /\ UNCHANGED <<runs, shifted>>

\* Any other failure: the repaired list is saved, the mid-run state is not.
Fail ==
    /\ run.pc \in {"limit", "raised"} /\ (run.pc = "limit" => run.rescues = RescueMax)
    /\ EndRun(run, RepairDanglingToolCalls(run.input), FALSE)
    /\ UNCHANGED <<runs, made, blind, shifted>>

\* Cancelled, or the process died: nothing is saved.
CancelRun ==
    /\ run.pc # "idle" /\ run' = NoRun
    /\ UNCHANGED <<hist, cursor, covered, runs, made, unseen, blind, shifted>>

ConvNext ==
    \/ RunStart \/ ModelCall \/ ToolTurn \/ Answer \/ ModelFails \/ Rescue \/ RetryUnpinned
    \/ Succeed \/ Pause \/ Synthesize \/ Fail \/ CancelRun

-----------------------------------------------------------------------------
(* Properties.  A fold made by a synthesis call is about the flattened     *)
(* list, while the cursor counts the items of the whole one: from there on *)
(* (blind) items are dropped unsummarised, and nothing is said of them.    *)
(* A start and a rescue put placeholders in front of answers, also of ones *)
(* a fold has passed (agent.py:1551), while fold_idx stays where it was    *)
(* (compaction_filter.py:253): from there on (shifted) the places it and   *)
(* the cursor stand for move towards the front, maybe between a call and   *)
(* its result.  An item in front is then sent again, never dropped (the    *)
(* comment at agent.py:1739 says so), so SummaryCovers holds all the same. *)

\* No item twice, placeholders aside.
Once(t) == \A k, l \in DOMAIN t : t[k] = t[l] /\ t[k].kind # "think" => k = l

\* The items of s are in t, in the same order.
KeepsOrder(s, t) ==
    \A i, j \in DOMAIN s : i <= j /\ s[i].kind # "think" /\ s[j].kind # "think" =>
        \E k, l \in DOMAIN t : k <= l /\ t[k] = s[i] /\ t[l] = s[j]

\* A saved row keeps every item of the row before it, in order and once: what
\* was cut or folded away from the model's input is still in the transcript,
\* however the run ended, and a prefix is never put back twice (agent.py:
\* persist_prefix, _finalize_history, _save_history).
HistoryKept == [][hist' # hist => Once(hist') /\ KeepsOrder(hist, hist')]_hist

\* Everything in front of the cursor is in the summary, or was cut away before
\* a run that folded further (which the code logs): the model is never left
\* with a gap (context_compaction.compact_for_run, agent._persist_midrun_state).
Gap == Items(Upto(hist, cursor)) \ (covered \cup unseen)
SummaryCovers == ~blind => Gap = {}

\* Whatever is folded or cut, a tool result is sent with the call in front of
\* it (compaction_filter.compaction_filter, context_compaction.turn_starts).
PairsKept ==
    run.pc = "asked" /\ ~blind /\ ~shifted =>
        \A i \in 1 .. Len(run.sent) : run.sent[i].kind = "out" =>
            \E j \in 1 .. i - 1 : run.sent[j] = It("call", run.sent[i].id)

\* A run makes at most one completed model call more than its cap, whatever it
\* retries (agent.py: the rescue and the released pin).
CallsBounded == run.pc # "idle" => run.calls <= MaxTurns + 1

\* What a run sends to the model is sound, however often it was folded, cut,
\* rescued or resumed.
ContextSound == SummaryCovers /\ PairsKept /\ CallsBounded
=============================================================================
