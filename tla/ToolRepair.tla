----------------------------- MODULE ToolRepair -----------------------------
(***************************************************************************)
(* _repair_tool_messages (agent.py): the last pass over the messages sent   *)
(* to a provider.  Cancelled tool calls leave calls without a reply, cut    *)
(* histories leave replies without a call, and a thinking model puts empty  *)
(* assistant messages between a call and its replies; providers reject all  *)
(* three.  A message is a text, an empty assistant message, an assistant    *)
(* message with a sequence of call ids, or a tool reply for one id, which   *)
(* is a real one or the placeholder.                                        *)
(***************************************************************************)
EXTENDS Naturals, Sequences, FiniteSets, SequencesExt

CONSTANTS
  CallIds,   \* ids of tool calls
  MaxLen     \* bound: messages of the history that is repaired

ASSUME RepairAssumption == MaxLen \in Nat

Text      == [role |-> "text"]
Empty     == [role |-> "empty"]
Asks(ids) == [role |-> "calls", ids |-> ids]
Reply(id, real) == [role |-> "tool", id |-> id, real |-> real]

VARIABLES
  msgs,      \* the messages
  splits,    \* is the model one whose parallel calls have to be split
  repaired   \* how often they have been repaired

repairVars == << msgs, splits, repaired >>

PassesTools(m) == m.role = "tool"

(* What may stand between a call and its replies: replies, and the empty    *)
(* assistant messages, which are dropped.                                   *)
Passes(m) == m.role \in {"tool", "empty"}

(* The end of the block of replies that follows position i.                 *)
BlockEnd(ms, i) ==
  CHOOSE j \in i..Len(ms) : /\ \A k \in (i + 1)..j : Passes(ms[k])
                            /\ j < Len(ms) => ~Passes(ms[j + 1])

(* The first reply for the id in the block, or the placeholder.             *)
ReplyFor(ms, i, id) ==
  LET found == {k \in (i + 1)..BlockEnd(ms, i) : ms[k].role = "tool" /\ ms[k].id = id}
  IN  IF found = {} THEN Reply(id, FALSE)
      ELSE ms[CHOOSE k \in found : \A other \in found : k <= other]

(* A call turn with its replies, split into single calls where needed.      *)
Answered(ms, i) ==
  LET ids == ms[i].ids
      replies == [n \in DOMAIN ids |-> ReplyFor(ms, i, ids[n])]
  IN  IF splits /\ Len(ids) > 1
      THEN FlattenSeq([n \in DOMAIN ids |-> << Asks(<< ids[n] >>), replies[n] >>])
      ELSE << ms[i] >> \o replies

(* The loop: from position i on.                                            *)
Repair(ms) ==
  LET from[i \in 1..(Len(ms) + 1)] ==
        IF i > Len(ms) THEN << >>
        ELSE CASE ms[i].role = "calls" -> Answered(ms, i) \o from[BlockEnd(ms, i) + 1]
               [] ms[i].role = "tool"  -> from[i + 1]
               [] OTHER                -> << ms[i] >> \o from[i + 1]
  IN  from[1]

(* Any history: what a cancelled run, a compaction and a model together can *)
(* leave behind.                                                            *)
Messages ==
  {Text, Empty} \cup {Asks(<< id >>) : id \in CallIds} \cup {Reply(id, TRUE) : id \in CallIds}
  \cup {Asks(pair) : pair \in CallIds \X CallIds}

RepairInit ==
  /\ msgs \in UNION {[1..n -> {m \in Messages : m.role = "calls" => IsInjective(m.ids)}] : n \in 0..MaxLen}
  /\ splits \in BOOLEAN
  /\ repaired = 0

(* The chokepoint every request passes; a retry passes it again.            *)
RepairMessages ==
  /\ repaired < 2
  /\ msgs' = Repair(msgs) /\ repaired' = repaired + 1
  /\ UNCHANGED splits

RepairNext == RepairMessages

-----------------------------------------------------------------------------
(* Every call is followed at once by exactly one reply per id, in order,    *)
(* and no reply stands anywhere else.                                       *)
Accepted(ms) ==
  /\ \A i \in DOMAIN ms : ms[i].role = "calls" =>
       /\ splits => Len(ms[i].ids) = 1
       /\ i + Len(ms[i].ids) <= Len(ms)
       /\ \A n \in DOMAIN ms[i].ids :
            ms[i + n].role = "tool" /\ ms[i + n].id = ms[i].ids[n]
  /\ \A k \in DOMAIN ms : ms[k].role = "tool" =>
       \E i \in 1..(k - 1) : ms[i].role = "calls" /\ k <= i + Len(ms[i].ids)

TextsIn(ms) == {i \in DOMAIN ms : ms[i] = Text}

(* A repaired history is one a provider accepts, and repairing it again, as *)
(* a retry does, changes nothing.  No text is lost, and a reply that follows *)
(* its call, behind other replies and empty messages only, is never          *)
(* exchanged for the placeholder (agent.py:1967-2053).                       *)
RepairSound ==
  [][ /\ Accepted(msgs') /\ Repair(msgs') = msgs'
      /\ Cardinality(TextsIn(msgs')) = Cardinality(TextsIn(msgs))
      /\ \A i, k \in DOMAIN msgs :
           /\ i < k /\ msgs[i].role = "calls" /\ msgs[k].role = "tool"
           /\ \E n \in DOMAIN msgs[i].ids : msgs[i].ids[n] = msgs[k].id
           /\ \A b \in (i + 1)..(k - 1) : msgs[b].role \in {"tool", "empty"}
           => \E r \in DOMAIN msgs' : msgs'[r] = msgs[k]
    ]_repairVars

=============================================================================
