---------------------------- MODULE SessionJobs -----------------------------
(***************************************************************************)
(* What is learnt from a conversation after its runs: the three job tables *)
(* with their workers (memory_extract.py, recall_index.py,                 *)
(* notes_extract.py), which have one shape and share nothing but the       *)
(* user's lock, and the memory store (memory_store.py, skills/memory).     *)
(*                                                                         *)
(* kind says which worker this behaviour is about.  A history is its       *)
(* length.  Times are left open: any pending row may be the oldest idle    *)
(* one.  The user's lock is only ever held within a step.  What extraction *)
(* makes of notes is NotesSync's.  Statements on the database succeed.  A  *)
(* conversation may be deleted at any time, also during a call about it or *)
(* a run in it (session_purge.py).                                         *)
(***************************************************************************)
EXTENDS Naturals, FiniteSets

CONSTANTS
    Sessions,
    Channel,       \* the sessions that come from a messaging channel
    Texts,         \* what may be remembered
    MaxAttempts,   \* MAX_ATTEMPTS of the three workers
    ChunkSize,     \* CHUNK_MAX_CHARS, in messages
    Window,        \* HISTORY_MAX_CHARS of an extraction prompt, in messages
    MaxSaid,       \* bound: messages of a session
    MaxMems,       \* bound: memory entries
    MaxAsks,       \* bound: requests for jobs
    MaxToggles,    \* bound: changes of the settings
    MaxDeletes,    \* bound: conversations deleted
    MaxCrashes     \* bound: crashes of the agent

ASSUME JobsConstants ==
    /\ Channel \subseteq Sessions /\ {MaxAttempts, ChunkSize, Window} \subseteq Nat \ {0}
    /\ {MaxSaid, MaxMems, MaxAsks, MaxToggles, MaxDeletes, MaxCrashes} \subseteq Nat

VARIABLES
    kind,      \* "memory" | "recall" | "notes"
    said,      \* [Sessions -> Nat]: messages in the saved history
    deletion,  \* [Sessions -> "no" | "vectors" | "rows"]: how far deleting it has got
    row,       \* [Sessions -> Row]: the job table
    work,      \* the job process_pending_once has in hand
    enabled,   \* memory_enabled, or auto_extract for notes
    offset,    \* [Sessions -> [msgs, chunks]]: recall_indexed_msgs, recall_chunk_seq
    chunks,    \* [Sessions -> [numbers -> sets of messages]]: the recall index
    mems,      \* [1..n -> Entry]: memory_entries, in the order of their making
    asks, toggles, crashes,
    want,      \* ghost: messages there were when a job was last asked for
    seen,      \* ghost: the messages finished jobs have read
    dropped    \* ghost: the job was given up, or its feature was turned off

jobVars == <<kind, said, deletion, row, work, enabled, offset, chunks, mems, asks, toggles, crashes, want, seen, dropped>>
memVars == <<mems>>
indexVars == <<offset, chunks>>
ghostVars == <<want, seen, dropped>>

NoRow == [status |-> "none", attempts |-> 0]
Idle == [pc |-> "idle"]

JobsInit ==
    /\ kind \in {"memory", "recall", "notes"}
    /\ said = [s \in Sessions |-> 0] /\ row = [s \in Sessions |-> NoRow]
    /\ deletion = [s \in Sessions |-> "no"]
    /\ work = Idle /\ enabled = TRUE
    /\ offset = [s \in Sessions |-> [msgs |-> 0, chunks |-> 0]]
    /\ chunks = [s \in Sessions |-> <<>>] /\ mems = <<>>
    /\ asks = 0 /\ toggles = 0 /\ crashes = 0
    /\ want = [s \in Sessions |-> 0] /\ seen = [s \in Sessions |-> {}]
    /\ dropped = [s \in Sessions |-> FALSE]

-----------------------------------------------------------------------------
(* The table.                                                              *)

\* The session's own row is there no more.
Gone(s) == deletion[s] = "rows"

\* What is read from sessions.source: a session without a row counts as web.
FromChannel(s) == s \in Channel /\ ~Gone(s)

\* maybe_enqueue_*_job: one row a session; asking again starts it afresh, also
\* when it is running.  Notes are never made from a channel's session.
Enqueue(s) ==
    IF enabled /\ (kind = "notes" => ~FromChannel(s))
    THEN /\ row' = [row EXCEPT ![s] = [status |-> "pending", attempts |-> 0]]
         /\ want' = [want EXCEPT ![s] = said[s]]
         /\ dropped' = [dropped EXCEPT ![s] = FALSE]
    ELSE UNCHANGED <<row, want, dropped>>

\* A run saves its history, then asks for the jobs in its finally.  There is no
\* history without the session's row (foreign key).
Say(s) ==
    /\ ~Gone(s) /\ said[s] < MaxSaid /\ said' = [said EXCEPT ![s] = @ + 1]
    /\ UNCHANGED <<kind, deletion, asks, row, work, enabled, indexVars, memVars, toggles, crashes, ghostVars>>

\* Asked for at the end of a run, and by compaction at the start of one (recall
\* only): the row is the same, and may be claimed at once.  Nobody looks whether
\* the session is still there.
Ask(s) ==
    /\ asks < MaxAsks /\ asks' = asks + 1
    /\ Enqueue(s)
    /\ UNCHANGED <<kind, deletion, said, work, enabled, indexVars, memVars, toggles, crashes, seen>>

DeletedAnyway(s) == [row EXCEPT ![s] = NoRow]
\* DELETE ... WHERE status='running': a row asked for again since stays.
Deleted(s) == IF row[s].status = "running" THEN [row EXCEPT ![s] = NoRow] ELSE row

Failed(s, attempts) ==
    IF attempts >= MaxAttempts THEN Deleted(s)
    ELSE IF row[s].status = "running" THEN [row EXCEPT ![s].status = "pending"] ELSE row

RequeueNothing == row
\* _requeue_orphaned, when a worker starts.
RequeueOrphaned ==
    [s \in Sessions |-> IF row[s].status = "running" THEN [row[s] EXCEPT !.status = "pending"] ELSE row[s]]

\* The attempt is over.
Finish(s) ==
    /\ row' = Deleted(s) /\ work' = Idle
    /\ seen' = [seen EXCEPT ![s] = @ \cup (work.after + 1 .. work.upto)]

-----------------------------------------------------------------------------
(* The worker.                                                             *)

Active == {i \in DOMAIN mems : mems[i].status = "active"}

\* build_extraction_prompt keeps the end of a conversation of n messages: so many
\* at its start are left out.  The recall index is given everything.
LeftOut(n) == IF kind # "recall" /\ n > Window THEN n - Window ELSE 0

\* process_pending_once up to the call: the row is claimed, the history and
\* what there is already are read.  Nothing new to index ends the job here.
ClaimIdleJob(s) ==
    /\ work.pc = "idle" /\ row[s].status = "pending"
    /\ LET a == row[s].attempts + 1
           off == kind = "notes" /\ ~enabled
           none == kind = "recall" /\ offset[s].msgs >= said[s]
       IN IF off \/ none
          THEN /\ row' = [row EXCEPT ![s] = NoRow] /\ UNCHANGED work
               /\ dropped' = [dropped EXCEPT ![s] = @ \/ off]
               /\ offset' = IF none /\ ~Gone(s) THEN [offset EXCEPT ![s].msgs = said[s]] ELSE offset
          ELSE /\ row' = [row EXCEPT ![s] = [status |-> "running", attempts |-> a]]
               /\ work' = [pc |-> "call", on |-> s, attempts |-> a, upto |-> said[s],
                           after |-> IF kind = "recall" THEN offset[s].msgs ELSE LeftOut(said[s]),
                           snapshot |-> IF kind = "memory" THEN Active ELSE {}]
               /\ UNCHANGED <<dropped, offset>>
    /\ UNCHANGED <<kind, asks, said, deletion, enabled, chunks, memVars, toggles, crashes, want, seen>>

\* chunk_messages: the messages after the offset in groups, numbered on.
ChunksOf(s, n) ==
    LET o == offset[s]
        groups == (n - o.msgs + ChunkSize - 1) \div ChunkSize
    IN [c \in (o.chunks + 1) .. (o.chunks + groups) |->
          {m \in o.msgs + 1 .. n : (m - o.msgs - 1) \div ChunkSize = c - o.chunks - 1}]

Upserted(s, new, upto) ==
    [c \in DOMAIN chunks[s] \cup {d \in DOMAIN new : d <= upto} |->
        IF c \in DOMAIN new /\ c <= upto THEN new[c] ELSE chunks[s][c]]

\* The call fails or times out; for recall some batches may have been stored.
\* The offset stays.
CallFails ==
    /\ work.pc = "call"
    /\ row' = Failed(work.on, work.attempts) /\ work' = Idle
    /\ dropped' = [dropped EXCEPT ![work.on] =
                     @ \/ (row[work.on].status = "running" /\ work.attempts >= MaxAttempts)]
    /\ IF kind = "recall"
       THEN LET new == ChunksOf(work.on, work.upto)
            IN \E c \in {offset[work.on].chunks} \cup DOMAIN new :
                  chunks' = [chunks EXCEPT ![work.on] = Upserted(work.on, new, c)]
       ELSE UNCHANGED chunks
    /\ UNCHANGED <<kind, deletion, asks, said, enabled, offset, memVars, toggles, crashes, want, seen>>

\* recall: every batch is stored.
CallUpserts ==
    /\ work.pc = "call" /\ kind = "recall"
    /\ LET new == ChunksOf(work.on, work.upto)
       IN /\ chunks' = [chunks EXCEPT ![work.on] =
                          Upserted(work.on, new, offset[work.on].chunks + Cardinality(DOMAIN new))]
          /\ work' = [work EXCEPT !.pc = "commit"]
    /\ UNCHANGED <<kind, deletion, asks, said, row, enabled, offset, memVars, toggles, crashes, ghostVars>>

AdvancedMsgs(s, n) == [offset EXCEPT ![s].msgs = n]
\* The offset and the number of chunks move together, with the job's end; both
\* are columns of the session's row.
Advanced(s, n) ==
    [offset EXCEPT ![s] = [msgs |-> n, chunks |-> @.chunks + Cardinality(DOMAIN ChunksOf(s, n))]]

IndexCommit ==
    /\ work.pc = "commit"
    /\ offset' = IF Gone(work.on) THEN offset ELSE Advanced(work.on, work.upto)
    /\ Finish(work.on)
    /\ UNCHANGED <<kind, deletion, asks, said, enabled, chunks, memVars, toggles, crashes, want, dropped>>

\* notes: the drafts are made (NotesSync) and the row goes.
NotesApplied ==
    /\ work.pc = "call" /\ kind = "notes"
    /\ Finish(work.on)
    /\ UNCHANGED <<kind, deletion, asks, said, enabled, indexVars, memVars, toggles, crashes, want, dropped>>

-----------------------------------------------------------------------------
(* The memory store.                                                       *)

\* An entry.  Ghosts: the sessions its lineage was written for, and those of them
\* that had been deleted by then.
Entry(text, trust, root, from, late) ==
    [text |-> text, trust |-> trust, root |-> root, from |-> from, late |-> late, status |-> "active"]

SessionTrust(s) == IF FromChannel(s) THEN "low" ELSE "normal"
Late(s) == {s} \cap {u \in Sessions : Gone(u)}
UpdateTrustSession(s, i) == SessionTrust(s)
UpdateTrust(s, i) == IF SessionTrust(s) = "low" \/ mems[i].trust = "low" THEN "low" ELSE "normal"

Room == Cardinality(DOMAIN mems) < MaxMems
Put(e) == [i \in 1 .. Cardinality(DOMAIN mems) + 1 |-> IF i \in DOMAIN mems THEN mems[i] ELSE e]
Duplicate(t) == \E i \in Active : mems[i].text = t

\* add_memory, unless the text is there already.
Add(s, t) ==
    mems' = IF Duplicate(t) THEN mems
            ELSE Put(Entry(t, SessionTrust(s), Cardinality(DOMAIN mems) + 1, {s}, Late(s)))

\* supersede_memory's first commit: the successor, in the lineage of i.
Successor(s, i, t) ==
    Put(Entry(t, UpdateTrust(s, i), mems[i].root, mems[i].from \cup {s}, mems[i].late \cup Late(s)))

\* apply_extraction of one action, if its target is still active (updated_at
\* moves with the status, or at this worker's own touch): ADD, UPDATE, NOOP.
MemoryApplied ==
    /\ work.pc = "call" /\ kind = "memory"
    /\ \/ UNCHANGED mems
       \/ Room /\ \E t \in Texts : Add(work.on, t)
       \/ /\ Room
          /\ \E i \in work.snapshot \cap Active, t \in Texts :
                mems' = [Successor(work.on, i, t) EXCEPT ![i].status = "superseded"]
    /\ Finish(work.on)
    /\ UNCHANGED <<kind, deletion, asks, said, enabled, indexVars, toggles, crashes, want, dropped>>

\* The two commits of supersede_memory with the end of the process in between.
MemoryTorn ==
    /\ work.pc = "call" /\ kind = "memory" /\ Room /\ crashes < MaxCrashes
    /\ \E i \in work.snapshot \cap Active, t \in Texts : mems' = Successor(work.on, i, t)
    /\ crashes' = crashes + 1 /\ work' = Idle
    /\ row' = RequeueOrphaned
    /\ UNCHANGED <<kind, deletion, asks, said, enabled, indexVars, toggles, ghostVars>>

\* The remember tool of a run in session s, under the user's lock.
Remember(s) ==
    /\ kind = "memory" /\ enabled /\ Room
    /\ \E t \in Texts : ~Duplicate(t) /\ Add(s, t)
    /\ UNCHANGED <<kind, deletion, asks, said, row, work, enabled, indexVars, toggles, crashes, ghostVars>>

\* The forget tool and DELETE /agent/user-memory/{id}; no lock.
Forget ==
    /\ \E i \in Active : mems' = [mems EXCEPT ![i].status = "disabled"]
    /\ UNCHANGED <<kind, deletion, asks, said, row, work, enabled, indexVars, toggles, crashes, ghostVars>>

-----------------------------------------------------------------------------
(* Everything else.                                                        *)

\* DELETE /agent/sessions/{id}, purge_session: the session's chunks, if Parser
\* answers, and after that await every row of it in one commit.  A deletion cut
\* off between the two stays at "vectors"; it may be asked for again.  Neither
\* step stops a run or an attempt, and mems keeps what came of the session.  The
\* offset goes with its row; offset keeps it for the attempt that has read it.
PurgeVectors(s) ==
    /\ ~Gone(s) /\ Cardinality({u \in Sessions \ {s} : deletion[u] # "no"}) < MaxDeletes
    /\ deletion' = [deletion EXCEPT ![s] = "vectors"]
    /\ chunks' = [chunks EXCEPT ![s] = <<>>] \/ UNCHANGED chunks
    /\ UNCHANGED <<kind, asks, said, row, work, enabled, offset, memVars, toggles, crashes, ghostVars>>

DeleteRows(s) ==
    /\ deletion[s] = "vectors" /\ deletion' = [deletion EXCEPT ![s] = "rows"]
    /\ said' = [said EXCEPT ![s] = 0] /\ row' = [row EXCEPT ![s] = NoRow]
    /\ want' = [want EXCEPT ![s] = 0] /\ seen' = [seen EXCEPT ![s] = {}]
    /\ dropped' = [dropped EXCEPT ![s] = FALSE]
    /\ UNCHANGED <<kind, asks, work, enabled, indexVars, memVars, toggles, crashes>>

Toggle ==
    /\ toggles < MaxToggles /\ toggles' = toggles + 1 /\ enabled' = ~enabled
    /\ UNCHANGED <<kind, deletion, asks, said, row, work, indexVars, memVars, crashes, ghostVars>>

Restart ==
    /\ crashes < MaxCrashes /\ crashes' = crashes + 1
    /\ work' = Idle /\ row' = RequeueOrphaned
    /\ UNCHANGED <<kind, deletion, asks, said, enabled, indexVars, memVars, toggles, ghostVars>>

JobsNext ==
    \/ \E s \in Sessions : Say(s) \/ Ask(s) \/ ClaimIdleJob(s) \/ Remember(s) \/ PurgeVectors(s) \/ DeleteRows(s)
    \/ CallFails \/ CallUpserts \/ IndexCommit \/ NotesApplied \/ MemoryApplied \/ MemoryTorn
    \/ Forget \/ Toggle \/ Restart

\* The workers' loops go on, and every call is bounded by a timeout.
JobClaims == \E s \in Sessions : ClaimIdleJob(s)
JobCalls  == CallFails \/ CallUpserts \/ NotesApplied \/ MemoryApplied
JobsFairness == WF_jobVars(JobClaims) /\ WF_jobVars(JobCalls) /\ WF_jobVars(IndexCommit)

-----------------------------------------------------------------------------
(* Properties.                                                             *)

\* Finished jobs have read the conversation as it was when a job was last asked
\* for, or later, but for what a prompt leaves out.
HasRead(s) == \E n \in want[s] .. said[s] : LeftOut(n) + 1 .. n \subseteq seen[s]

\* When a session has no job left, a finished one has read the conversation as it
\* was when a job was last asked for, or as it was later: all of it for the recall
\* index, its last Window messages for memory and notes, whose prompts leave out
\* what came before; or the job was given up.  So asking again while an attempt
\* is under way is never lost (process_pending_once of the workers).  A deleted
\* conversation is of no interest.
NoneMissed ==
    \A s \in Sessions : row[s].status = "none" /\ ~dropped[s] /\ ~Gone(s) => HasRead(s)

\* Every message before the offset is in the recall index: no chunk written
\* later, by a retry or after a crash, takes the place of another
\* (recall_index.process_pending_once, chunk_messages).  It does not hold once a
\* deletion has begun, which takes the chunks first.
Recallable ==
    \A s \in Sessions : deletion[s] = "no" =>
        \A m \in 1 .. offset[s].msgs : \E c \in DOMAIN chunks[s] : m \in chunks[s][c]

\* What may be put into a system prompt (memory_store.render_user_block: active,
\* not of low trust) was never written for a channel's session, through however
\* many updates (memory_extract.apply_extraction, skills/memory), unless that
\* session was deleted before the entry was written: by then its row, and with it
\* its source, is gone, and it counts as a web session.
PromptClean ==
    \A i \in Active : mems[i].trust # "low" => mems[i].from \cap Channel \subseteq mems[i].late

\* Every job ends: done, or given up after its attempts
\* (process_pending_once, _fail_job, _requeue_orphaned).
JobsSettle == \A s \in Sessions : row[s].status # "none" ~> row[s].status = "none"

\* Nothing that was said before a job was asked for is forgotten by the job.
NothingForgotten == NoneMissed /\ Recallable
=============================================================================
