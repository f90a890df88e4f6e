------------------------------ MODULE NotesSync ------------------------------
(***************************************************************************)
(* Knowledge notes: the rows and files of notes/store.py, the requests and *)
(* tools that write them (main.py, skills/notes.py), the search index      *)
(* behind notes/indexer.py, the reconciler of notes/sync.py, and people    *)
(* who edit, move and remove the Markdown files with other programs.       *)
(*                                                                         *)
(* A body is a version number: NoFile when there is none, Empty for an     *)
(* empty body, then one number per write.  A content hash is the version   *)
(* it was taken of, or Sentinel ('': index again).  A step ends at an      *)
(* await; only other programs run between the files of a walk.  Titles,    *)
(* tags, links and the reserved index files are left out, and so are the   *)
(* ids of other users, which the walk skips.                               *)
(***************************************************************************)
EXTENDS Naturals, FiniteSets, FiniteSetsExt

CONSTANTS
    Notes,         \* ids
    Writers,       \* requests and tool calls
    MaxVersion,    \* bound: bodies written
    MaxFaults      \* bound: failed calls of the parser, unreadable files, files put back, crashes

ASSUME SyncConstants == MaxVersion \in Nat /\ MaxFaults \in Nat

Places == {1, 2}   \* two directories of the tree, in the order of the walk
NoFile == 0
Empty == 1
Sentinel == 0

VARIABLES
    notes,     \* [Notes -> [state, hash, path]]
    file,      \* [Notes \X Places -> version]
    index,     \* [Notes -> version]: what search finds, NoFile for nothing
    sweep,     \* the scan_once in progress
    writers,   \* [Writers -> request]
    versions, faults,
    gap        \* ghost: notes whose index calls overlapped or were cut off

syncVars == <<notes, file, index, sweep, writers, versions, faults, gap>>

NoRequest == [pc |-> "idle"]
NoSweep == [pc |-> "idle", seen |-> {}, failed |-> {}]

SyncInit ==
    /\ notes = [n \in Notes |-> [state |-> "none", hash |-> Sentinel, path |-> 1]]
    /\ file = [k \in Notes \X Places |-> NoFile]
    /\ index = [n \in Notes |-> NoFile]
    /\ sweep = NoSweep /\ writers = [w \in Writers |-> NoRequest]
    /\ versions = Empty /\ faults = 0
    /\ gap = {}

-----------------------------------------------------------------------------
Alive(n) == notes[n].state = "alive"
At(n) == <<n, notes[n].path>>
Copies(n) == {p \in Places : file[<<n, p>>] # NoFile}

\* No walk is between two files: a handler may run.
LoopFree == sweep.pc \in {"idle", "index", "deindex"}

InFlight(n) ==
    \/ sweep.pc \in {"index", "deindex"} /\ sweep.note = n
    \/ \E w \in Writers : writers[w].pc = "call" /\ writers[w].note = n

\* notes_upsert (or, with NoFile, notes_delete) is sent; calls on one note in
\* flight together may be applied in either order.
Sends(n) == gap' = IF InFlight(n) THEN gap \cup {n} ELSE gap

Fault == faults < MaxFaults /\ faults' = faults + 1

\* The parser answers, or fails with or without having applied the call.
Answered(n, v, ok) ==
    /\ IF ok THEN index' = [index EXCEPT ![n] = v] /\ UNCHANGED faults
       ELSE /\ Fault
            /\ index' \in {index, [index EXCEPT ![n] = v]}

\* A revision bump makes every revision read before it out of date.
Bumped(ws, n) ==
    [w \in Writers |-> IF ws[w].pc = "read" /\ ws[w].note = n
                       THEN [ws[w] EXCEPT !.fresh = FALSE] ELSE ws[w]]

NextVersion == versions + 1

-----------------------------------------------------------------------------
(* Requests and tools.                                                     *)

\* create_note: the file, then the row, then the index.
CreateNote(w, n) ==
    /\ LoopFree /\ writers[w].pc = "idle" /\ NextVersion <= MaxVersion
    /\ notes[n].state = "none" /\ Copies(n) = {}
    /\ file' = [file EXCEPT ![<<n, 1>>] = NextVersion]
    /\ notes' = [notes EXCEPT ![n] = [state |-> "alive", hash |-> NextVersion, path |-> 1]]
    /\ versions' = NextVersion
    /\ writers' = [writers EXCEPT ![w] = [pc |-> "call", note |-> n, body |-> NextVersion]]
    /\ Sends(n)
    /\ UNCHANGED <<index, sweep, faults>>

\* get_note: the revision of the row and the body on disk.
ReadNote(w, n) ==
    /\ LoopFree /\ writers[w].pc = "idle" /\ Alive(n)
    /\ writers' = [writers EXCEPT ![w] = [pc |-> "read", note |-> n, fresh |-> TRUE]]
    /\ UNCHANGED <<notes, file, index, sweep, versions, faults, gap>>

\* update_note writes only if the revision is still the one that was read.
Updatable(w) == Alive(writers[w].note) /\ writers[w].fresh

\* update_note_api and update_note of the agent, with a new body.
UpdateNote(w) ==
    /\ LoopFree /\ writers[w].pc = "read"
    /\ LET n == writers[w].note
       IN \/ /\ ~Updatable(w)                       \* not found, or revision conflict
             /\ writers' = [writers EXCEPT ![w] = NoRequest]
             /\ UNCHANGED <<notes, file, versions, gap>>
          \/ /\ Updatable(w) /\ NextVersion <= MaxVersion
             /\ file' = [file EXCEPT ![At(n)] = NextVersion]
             /\ notes' = [notes EXCEPT ![n].hash = NextVersion]
             /\ versions' = NextVersion
             /\ writers' = Bumped([writers EXCEPT ![w] = [pc |-> "call", note |-> n,
                                                          body |-> NextVersion]], n)
             /\ Sends(n)
    /\ UNCHANGED <<index, sweep, faults>>

\* _set_status (curate, archive): update_note with the body found on disk, an
\* empty one if the file is not where the row says.
SetStatus(w, n) ==
    /\ LoopFree /\ writers[w].pc = "idle" /\ Alive(n)
    /\ LET v == IF file[At(n)] = NoFile THEN Empty ELSE file[At(n)]
       IN /\ file' = [file EXCEPT ![At(n)] = v]
          /\ notes' = [notes EXCEPT ![n].hash = v]
          /\ writers' = Bumped([writers EXCEPT ![w] = [pc |-> "call", note |-> n, body |-> v]], n)
    /\ Sends(n)
    /\ UNCHANGED <<index, sweep, versions, faults>>

\* delete_note_api: soft_delete_note removes the file at the row's path.
DeleteNote(w, n) ==
    /\ LoopFree /\ writers[w].pc = "idle" /\ Alive(n)
    /\ file' = [file EXCEPT ![At(n)] = NoFile]
    /\ notes' = [notes EXCEPT ![n].state = "deleted"]
    /\ writers' = [writers EXCEPT ![w] = [pc |-> "call", note |-> n, body |-> NoFile]]
    /\ Sends(n)
    /\ UNCHANGED <<index, sweep, versions, faults>>

HashIfFailed(hash, v, ok) == hash

\* _notes_post_write and the tools: a failed upsert leaves the sentinel; a
\* failed delete is ignored.
HashAfterCall(hash, v, ok) == IF ok \/ v = NoFile THEN hash ELSE Sentinel

CallEnds(w) ==
    /\ LoopFree /\ writers[w].pc = "call"
    /\ \E ok \in BOOLEAN :
          LET n == writers[w].note
              v == writers[w].body
          IN /\ Answered(n, v, ok)
             /\ notes' = [notes EXCEPT ![n].hash = HashAfterCall(@, v, ok)]
             /\ gap' = IF ok \/ v # NoFile THEN gap ELSE gap \cup {n}
    /\ writers' = [writers EXCEPT ![w] = NoRequest]
    /\ UNCHANGED <<file, sweep, versions>>

-----------------------------------------------------------------------------
(* The reconciler.                                                         *)

Listed(p) == {n \in Notes : file[<<n, p>>] # NoFile}

SweepStart ==
    /\ sweep.pc = "idle"
    /\ sweep' = [pc |-> "walk", place |-> 1, todo |-> Listed(1), seen |-> {}, failed |-> {}]
    /\ UNCHANGED <<notes, file, index, writers, versions, faults, gap>>

\* The next directory, or the rows whose file was not met.
SweepTurn ==
    /\ sweep.pc = "walk" /\ sweep.todo = {}
    /\ sweep' = IF sweep.place < Cardinality(Places)
                THEN [sweep EXCEPT !.place = @ + 1, !.todo = Listed(sweep.place + 1)]
                ELSE [sweep EXCEPT !.pc = "rows", !.todo = Notes]
    /\ UNCHANGED <<notes, file, index, writers, versions, faults, gap>>

Continue(n) == [sweep EXCEPT !.todo = @ \ {n}, !.seen = @ \cup {n}]
ToIndex(n, v, kind) ==
    [pc |-> "index", place |-> sweep.place, todo |-> sweep.todo \ {n}, seen |-> sweep.seen \cup {n},
     failed |-> sweep.failed, note |-> n, body |-> v, kind |-> kind]

\* A known row whose file is met: undeleted, with the sentinel, and moved.
Resurrected(n, p) ==
    [state |-> "alive", hash |-> IF notes[n].state = "deleted" THEN Sentinel ELSE notes[n].hash,
     path |-> p]

SweepUnreadable(n) ==
    /\ sweep.pc = "walk" /\ n \in sweep.todo
    /\ IF file[<<n, sweep.place>>] = NoFile THEN UNCHANGED faults
       ELSE Fault
    /\ sweep' = [sweep EXCEPT !.todo = @ \ {n}, !.failed = @ \cup {<<n, sweep.place>>}]
    /\ UNCHANGED <<notes, file, index, writers, versions, gap>>

SweepFile(n) ==
    /\ sweep.pc = "walk" /\ n \in sweep.todo /\ file[<<n, sweep.place>>] # NoFile
    /\ LET v == file[<<n, sweep.place>>]
       IN \/ /\ notes[n].state = "none"                          \* adoption
             /\ notes' = [notes EXCEPT ![n] = [state |-> "alive", hash |-> v, path |-> sweep.place]]
             /\ sweep' = ToIndex(n, v, "adopt")
             /\ Sends(n)
          \/ /\ notes[n].state # "none"
             /\ notes' = [notes EXCEPT ![n] = Resurrected(n, sweep.place)]
             /\ IF Resurrected(n, sweep.place).hash = v
                THEN sweep' = Continue(n) /\ UNCHANGED gap
                ELSE sweep' = ToIndex(n, v, "update") /\ Sends(n)
    /\ UNCHANGED <<file, index, writers, versions, faults>>

\* index_note returned: the row takes the hash of what was read, or the
\* sentinel, whatever happened to it meanwhile.
SweepIndexed ==
    /\ sweep.pc = "index"
    /\ \E ok \in BOOLEAN :
          LET n == sweep.note
              v == sweep.body
          IN /\ Answered(n, v, ok)
             /\ notes' = [notes EXCEPT ![n].hash = IF ~ok THEN Sentinel
                                                   ELSE IF sweep.kind = "update" THEN v ELSE @]
             /\ writers' = IF sweep.kind = "update" THEN Bumped(writers, n) ELSE writers
    /\ sweep' = [pc |-> "walk", place |-> sweep.place, todo |-> sweep.todo, seen |-> sweep.seen,
                 failed |-> sweep.failed]
    /\ UNCHANGED <<file, versions, gap>>

\* A live row that no file spoke for is taken out of the index first.
SweepRow(n) ==
    /\ sweep.pc = "rows" /\ n \in sweep.todo
    /\ IF Alive(n) /\ n \notin sweep.seen /\ At(n) \notin sweep.failed
       THEN /\ sweep' = [pc |-> "deindex", todo |-> sweep.todo \ {n}, seen |-> sweep.seen,
                         failed |-> sweep.failed, note |-> n]
            /\ Sends(n)
       ELSE sweep' = [sweep EXCEPT !.todo = @ \ {n}] /\ UNCHANGED gap
    /\ UNCHANGED <<notes, file, index, writers, versions, faults>>

SweepDeindexed ==
    /\ sweep.pc = "deindex"
    /\ \E ok \in BOOLEAN :
          /\ Answered(sweep.note, NoFile, ok)
          /\ notes' = IF ok THEN [notes EXCEPT ![sweep.note].state = "deleted"] ELSE notes
    /\ sweep' = [pc |-> "rows", todo |-> sweep.todo, seen |-> sweep.seen, failed |-> sweep.failed]
    /\ UNCHANGED <<file, writers, versions, gap>>

SweepEnd ==
    /\ sweep.pc = "rows" /\ sweep.todo = {}
    /\ sweep' = NoSweep
    /\ UNCHANGED <<notes, file, index, writers, versions, faults, gap>>

-----------------------------------------------------------------------------
(* Other programs and faults.                                              *)

\* A file is written where there is one, or made by hand.
WriteFile(n, p) ==
    /\ file[<<n, p>>] # NoFile \/ Copies(n) = {}
    /\ NextVersion <= MaxVersion
    /\ file' = [file EXCEPT ![<<n, p>>] = NextVersion]
    /\ versions' = NextVersion    /\ UNCHANGED <<notes, index, sweep, writers, faults, gap>>

\* A removed file comes back as it was.
RestoreFile(n, p) ==
    /\ Copies(n) = {} /\ notes[n].hash # Sentinel
    /\ Fault
    /\ file' = [file EXCEPT ![<<n, p>>] = notes[n].hash]
    /\ UNCHANGED <<notes, index, sweep, writers, versions, gap>>

RemoveFile(n, p) ==
    /\ file[<<n, p>>] # NoFile
    /\ file' = [file EXCEPT ![<<n, p>>] = NoFile]
    /\ UNCHANGED <<notes, index, sweep, writers, versions, faults, gap>>

\* Only forward, to keep the behaviours finite.
MoveFile(n) ==
    /\ file[<<n, 1>>] # NoFile /\ file[<<n, 2>>] = NoFile
    /\ file' = [file EXCEPT ![<<n, 1>>] = NoFile, ![<<n, 2>>] = file[<<n, 1>>]]
    /\ UNCHANGED <<notes, index, sweep, writers, versions, faults, gap>>

\* The agent dies, possibly after the file of a create, update or delete and
\* before its row, and starts again.
SyncRestart ==
    /\ Fault
    /\ \/ UNCHANGED <<file, versions>>
       \/ \E n \in Notes :
             /\ LoopFree /\ NextVersion <= MaxVersion
             /\ \/ Alive(n)
                \/ notes[n].state = "none" /\ Copies(n) = {}
             /\ file' = [file EXCEPT ![At(n)] = NextVersion] /\ versions' = NextVersion
       \/ \E n \in Notes :
             /\ LoopFree /\ Alive(n)
             /\ file' = [file EXCEPT ![At(n)] = NoFile] /\ UNCHANGED versions
    /\ gap' = gap \cup {n \in Notes : InFlight(n)}
    /\ index' \in {index} \cup {[index EXCEPT ![writers[w].note] = writers[w].body] :
                                   w \in {x \in Writers : writers[x].pc = "call"}}
    /\ sweep' = NoSweep /\ writers' = [w \in Writers |-> NoRequest]
    /\ UNCHANGED <<notes>>

-----------------------------------------------------------------------------
Sweeping ==
    \/ SweepStart \/ SweepTurn \/ SweepIndexed \/ SweepDeindexed \/ SweepEnd
    \/ \E n \in Notes : SweepUnreadable(n) \/ SweepFile(n) \/ SweepRow(n)

SyncNext ==
    \/ Sweeping \/ SyncRestart
    \/ \E w \in Writers, n \in Notes :
          CreateNote(w, n) \/ ReadNote(w, n) \/ SetStatus(w, n) \/ DeleteNote(w, n)
    \/ \E w \in Writers : UpdateNote(w) \/ CallEnds(w)
    \/ \E n \in Notes, p \in Places : WriteFile(n, p) \/ RestoreFile(n, p) \/ RemoveFile(n, p)
    \/ \E n \in Notes : MoveFile(n)

\* The reconciler's loop goes on and the parser's calls time out; the walk,
\* between two awaits, holds up the handler that waits but cannot starve it.
SyncFairness ==
    /\ WF_syncVars(Sweeping)
    /\ \A w \in Writers : SF_syncVars(CallEnds(w))

-----------------------------------------------------------------------------
\* scan_once heals every divergence: a note whose id is in one file again has a
\* live row at that file with its hash, a note without a file has none, and if
\* its calls of the parser did not overlap and were not cut off, search finds
\* exactly that file's body.
Healed(n) ==
    /\ Copies(n) = {} => ~Alive(n)
    /\ \A p \in Copies(n) : Alive(n) /\ notes[n].path = p /\ notes[n].hash = file[<<n, p>>]
    /\ n \notin gap => index[n] = IF Copies(n) = {} THEN NoFile ELSE notes[n].hash
NotesHeal == \A n \in Notes : <>[](Cardinality(Copies(n)) < 2) => []<>Healed(n)

=============================================================================
