------------------------------ MODULE RunSink -------------------------------
(***************************************************************************)
(* RunSink (agent/run_sink.py): the event log of one run, its replay to    *)
(* late subscribers, and the coalescing of streamed deltas.                *)
(*                                                                         *)
(* Events are numbered in the order put() receives them; emitted[i] says   *)
(* what event i is.  A row is the sequence of the events merged into it,   *)
(* so that what a row says is what its events said, in that order.         *)
(***************************************************************************)
EXTENDS Integers, Sequences, SequencesExt

CONSTANTS
    Scopes,     \* UI scopes of deltas: the parent stream and each sub-agent
    Types,      \* COALESCE_TYPES
    Clients,    \* subscribers
    MaxEvents,  \* bound on events put
    MaxRow,     \* COALESCE_MAX_CHARS, counted in deltas
    MaxFaults   \* bound on failed INSERTs and crashes, together

ASSUME ConstantsAssumption ==
    /\ MaxEvents \in Nat /\ MaxRow \in Nat \ {0} /\ MaxFaults \in Nat
    /\ "card" \notin Types /\ "done" \notin Types

VARIABLES
    up,         \* the process is running
    emitted,    \* Seq of events received by put()
    unflushed,  \* Seq of buffers, in insertion order: _pending
    timer,      \* _flush_handle is armed
    past,       \* Seq of rows: _past
    table,      \* Seq of rows: the event_log rows of the run
    client,     \* [Clients -> [on, got]]: what each subscriber has received
    faults,
    missed      \* ghost: an INSERT failed

sinkVars == <<up, emitted, unflushed, timer, past, table, client, faults, missed>>

\* A delta of a scope, or a whole event (a tool call, a card, `done`).
Delta   == [scope : Scopes, type : Types]
Events  == Delta \cup {[scope |-> "none", type |-> t] : t \in {"card", "done"}}
Whole(e)  == e.scope = "none"

Done == \E i \in DOMAIN emitted : emitted[i].type = "done"

(***************************************************************************)
(* Persisting.                                                             *)
(***************************************************************************)
\* _persist, for the rows R in order: the INSERT may fail, _past never does.
Persist(R) ==
    /\ past' = past \o R
    /\ \/ table' = table \o R /\ UNCHANGED <<faults, missed>>
       \/ /\ R # <<>> /\ faults < MaxFaults
          /\ \E i \in DOMAIN R : table' = table \o RemoveAt(R, i)
          /\ faults' = faults + 1 /\ missed' = TRUE

\* A buffer's scope and type are those of its first event.
Key(b) == emitted[Head(b)]
BufferOf(s) == {i \in DOMAIN unflushed : Key(unflushed[i]).scope = s}

(***************************************************************************)
(* put: coalesce or persist, then fan out, without suspending.             *)
(***************************************************************************)
FanOut(n) == client' = [c \in Clients |->
                 IF client[c].on THEN [client[c] EXCEPT !.got = Append(@, <<n>>)]
                 ELSE client[c]]

Mergeable(i, e) == Key(unflushed[i]) = e /\ Len(unflushed[i]) < MaxRow

\* A delta joins its scope's open buffer if the type is the same and the row not
\* full; otherwise that buffer is flushed and a new one opened behind the rest.
PutDelta(e) ==
    /\ up /\ ~Done /\ Len(emitted) < MaxEvents /\ ~Whole(e)
    /\ emitted' = Append(emitted, e)
    /\ LET n == Len(emitted) + 1
       IN /\ FanOut(n)
          /\ \/ \E i \in BufferOf(e.scope) :
                   /\ Mergeable(i, e)
                   /\ unflushed' = [unflushed EXCEPT ![i] = Append(@, n)]
                   /\ UNCHANGED <<past, table, timer, faults, missed>>
             \/ \E i \in BufferOf(e.scope) :
                   /\ ~Mergeable(i, e)
                   /\ Persist(<<unflushed[i]>>)
                   /\ unflushed' = Append(RemoveAt(unflushed, i), <<n>>)
                   /\ timer' = TRUE
             \/ /\ BufferOf(e.scope) = {}
                /\ unflushed' = Append(unflushed, <<n>>)
                /\ timer' = TRUE
                /\ UNCHANGED <<past, table, faults, missed>>
    /\ UNCHANGED up

\* flush: every buffer, in insertion order; the timer is cancelled.
Flushed == unflushed

\* A whole event is persisted behind everything buffered.
PutWhole(e) ==
    /\ up /\ ~Done /\ Len(emitted) < MaxEvents /\ Whole(e)
    /\ emitted' = Append(emitted, e)
    /\ Persist(Append(Flushed, <<Len(emitted) + 1>>))
    /\ FanOut(Len(emitted) + 1)
    /\ unflushed' = SubSeq(unflushed, Len(Flushed) + 1, Len(unflushed))
    /\ timer' = FALSE /\ UNCHANGED up

\* _on_timer, FLUSH_INTERVAL after the first buffer was opened.
Timer ==
    /\ up /\ timer
    /\ Persist(unflushed)
    /\ unflushed' = <<>> /\ timer' = FALSE
    /\ UNCHANGED <<up, emitted, client>>

SubscribeUnflushed(c) ==
    /\ up /\ ~client[c].on
    /\ client' = [client EXCEPT ![c] = [on |-> TRUE, got |-> past]]
    /\ UNCHANGED <<up, emitted, unflushed, timer, past, table, faults, missed>>

\* subscribe: flush, snapshot, register.  A client may also come back.
Subscribe(c) ==
    /\ up /\ ~client[c].on
    /\ Persist(unflushed) /\ unflushed' = <<>> /\ timer' = FALSE
    /\ client' = [client EXCEPT ![c] = [on |-> TRUE, got |-> past']]
    /\ UNCHANGED <<up, emitted>>

Unsubscribe(c) ==
    /\ up /\ client[c].on
    /\ client' = [client EXCEPT ![c] = [on |-> FALSE, got |-> <<>>]]
    /\ UNCHANGED <<up, emitted, unflushed, timer, past, table, faults, missed>>

\* The process dies; the table is what load_events_from_db will read.
Crash ==
    /\ up /\ faults < MaxFaults
    /\ up' = FALSE /\ faults' = faults + 1
    /\ unflushed' = <<>> /\ timer' = FALSE /\ past' = <<>>
    /\ client' = [c \in Clients |-> [on |-> FALSE, got |-> <<>>]]
    /\ UNCHANGED <<emitted, table, missed>>

SinkInit ==
    /\ up = TRUE /\ emitted = <<>> /\ unflushed = <<>> /\ timer = FALSE
    /\ past = <<>> /\ table = <<>>
    /\ client = [c \in Clients |-> [on |-> FALSE, got |-> <<>>]]
    /\ faults = 0 /\ missed = FALSE

SinkNext ==
    \/ \E e \in Events : PutDelta(e) \/ PutWhole(e)
    \/ Timer \/ Crash
    \/ \E c \in Clients : Subscribe(c) \/ Unsubscribe(c)

(***************************************************************************)
(* Properties.                                                             *)
(***************************************************************************)
\* Two events whose order a reader sees: all but deltas of different scopes.
Ordered(i, j) == Whole(emitted[i]) \/ Whole(emitted[j]) \/ emitted[i].scope = emitted[j].scope

\* A reader who gets the rows in turn sees event n; and it sees each event once,
\* and in the order they were put wherever the order shows.
Shows(rows, n) == \E r \in DOMAIN rows : \E p \in DOMAIN rows[r] : rows[r][p] = n
InOrder(rows) ==
    \A r, s \in DOMAIN rows : \A p \in DOMAIN rows[r], q \in DOMAIN rows[s] :
        r < s \/ (r = s /\ p < q) =>
            /\ rows[r][p] # rows[s][q]
            /\ Ordered(rows[r][p], rows[s][q]) => rows[r][p] < rows[s][q]

\* Whenever it joined, a subscriber has received every event of the run, the
\* past coalesced and the rest live, with nothing lost, doubled or out of order.
SubscriberSeesAll ==
    \A c \in Clients : client[c].on =>
        /\ InOrder(client[c].got)
        /\ \A n \in DOMAIN emitted : Shows(client[c].got, n)

\* If no INSERT failed, the log replays, after a crash too, a run without
\* doubles or reordering, and what is missing of it was buffered: once `done`
\* or a card is in the log, so is all that came before.
LogReplays ==
    ~missed =>
        /\ InOrder(table)
        /\ \A n \in DOMAIN emitted : Whole(emitted[n]) => \A m \in 1..n : Shows(table, m)

\* Every reader gets the run, live or from the log (run_sink.py put, flush,
\* subscribe).
ReadersSeeTheRun == SubscriberSeesAll /\ LogReplays
=============================================================================
