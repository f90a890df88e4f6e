---------------------------- MODULE FileStaging ----------------------------
(***************************************************************************)
(* File changes of the agent and their undo (fs/ops.py, fs/batch.py,       *)
(* fs/staging.py, fs/snapshots.py and the endpoints of main.py).           *)
(*                                                                         *)
(* A tool call changes the disk at once and leaves a row of staged_changes *)
(* behind; what it overwrote or deleted is kept as a snapshot of the run.  *)
(* The user later commits the session, reverts a run, a batch, or single   *)
(* rows.  Meanwhile other tool calls, the user and later runs change the   *)
(* same paths.                                                             *)
(*                                                                         *)
(* One session.  A path is <<top>> or <<top, name>>: directories are one   *)
(* level deep, which bounds mkdir to top paths.  What a path holds is a    *)
(* tuple: nothing, a directory, or a file's content; a file that was there *)
(* at the start holds its own path.  Ownership and modes are left out.     *)
(***************************************************************************)
EXTENDS Naturals, Sequences, FiniteSets, SequencesExt, FiniteSetsExt

CONSTANTS Tops, Names,
          BinName,      \* name shutil.copy2 gives a snapshot put into a directory
          Present,      \* sets of paths that may be on the disk at the start
          Plans,        \* batches the model may submit, pairs of operations
          Shared,       \* paths the user edits beside the agent
          MaxRows, MaxRuns, MaxEdits, MaxFaults

ASSUME StagingAssumption ==
  /\ BinName \notin Names
  /\ {MaxRows, MaxRuns, MaxEdits, MaxFaults} \subseteq Nat

Gone == <<>>
Dir == <<"dir">>
Blob == <<"tar">>          \* the bytes of an archive
New == <<"agent">>         \* what write_file writes
Edited == <<"user">>       \* what the user writes

Rel == {<<>>} \cup {<<n>> : n \in Names \cup {BinName}}
Paths == {<<t>> \o r : t \in Tops, r \in Rel}
Files == {p \in Paths : Last(p) # BinName}
None == <<"none">>

VARIABLES disk,     \* what each path holds
          rows,     \* staged_changes, in id order
          snaps,    \* snapshot files on disk, by id of the row that took them
          live,     \* the run that holds the session lock, 0 when none
          runs,     \* runs started
          card,     \* batch waiting for its access card, <<>> when none
          edits, faults,
          origin,   \* history: the disk at the start of each run
          others,   \* history: paths changed since then by anything else
          batches,  \* history: each batch committed, the rows before it, the answer
          result    \* what the last revert of a run answered

stagingVars == <<disk, rows, snaps, live, runs, card, edits, faults,
                 origin, others, batches, result>>

Beneath == [p \in Paths |-> {q \in Paths : IsPrefix(p, q)}]
Under(p) == IF p \in Paths THEN Beneath[p] ELSE {}
Suffix(p, q) == SubSeq(q, Len(p) + 1, Len(q))
Inside(d, p) == {q \in Under(p) \ {p} : d[q] # Gone}
HasParent(d, p) == Len(p) = 1 \/ d[<<p[1]>>] = Dir
Tree(d, p) == [r \in Rel |-> IF p \o r \in Paths THEN d[p \o r] ELSE Gone]

Written(d, p, c) ==                      \* os.makedirs of the parent, then the file
  [q \in Paths |-> IF q = p THEN c
                   ELSE IF Len(p) = 2 /\ q = <<p[1]>> THEN Dir ELSE d[q]]
Removed(d, p) == [q \in Paths |-> IF q \in Under(p) THEN Gone ELSE d[q]]
Moved(d, s, t) ==
  [q \in Paths |-> IF q \in Under(t) /\ s \o Suffix(t, q) \in Paths
                   THEN d[s \o Suffix(t, q)]
                   ELSE IF q \in Under(s) THEN Gone ELSE d[q]]

StagingInit ==
  /\ \E ps \in Present :
       disk = [p \in Paths |-> CASE p \notin ps -> Gone
                                [] \E q \in ps : IsStrictPrefix(p, q) -> Dir
                                [] OTHER -> p]
  /\ rows = <<>> /\ snaps = <<>>
  /\ live = 0 /\ runs = 0 /\ card = <<>>
  /\ edits = 0 /\ faults = 0
  /\ origin = <<>> /\ others = <<>> /\ batches = <<>>
  /\ result = [run |-> 0, status |-> "none"]

(***************************************************************************)
(* Staging one operation on the state s = [disk, rows, snaps].             *)
(***************************************************************************)
Seqs(s) == {i \in DOMAIN s.rows : s.rows[i].run = live}
NextSeq(s) == Max({0} \cup {s.rows[i].seq : i \in Seqs(s)}) + 1

(* The first snapshot the run already has for this path, of whatever kind. *)
Earlier(s, p) == {i \in Seqs(s) : s.rows[i].path = p /\ s.rows[i].snap # 0}

(* maybe_take_file_snapshot: the earlier snapshot, or a new one under the
   id of the row about to be recorded. *)
FileSnap(s, p) ==
  IF Earlier(s, p) # {} THEN s.rows[Min(Earlier(s, p))].snap ELSE Len(s.rows) + 1

Record(s, op, p, dst, snap, tar, batch) ==
  Append(s.rows, [run |-> live, seq |-> NextSeq(s), op |-> op, path |-> p, dst |-> dst,
                  snap |-> snap, tar |-> tar, batch |-> batch, st |-> "pending"])
Taken(s, p, snap) ==
  IF snap = Len(s.rows) + 1
  THEN [i \in DOMAIN s.snaps \cup {snap} |-> IF i = snap THEN Tree(s.disk, p) ELSE s.snaps[i]]
  ELSE s.snaps

CanWrite(d, p) == d[p] # Dir /\ (Len(p) = 2 => d[<<p[1]>>] \in {Gone, Dir})
CanMkdir(d, p) == Len(p) = 1 /\ d[p] = Gone
CanRename(d, s, t) ==
  d[s] # Gone /\ d[t] = Gone /\ HasParent(d, t) /\ (d[s] = Dir => Len(t) = 1)
CanDelete(d, p, rec) == d[p] # Gone /\ (Inside(d, p) # {} => rec)

StageWrite(s, p) ==
  LET snap == IF s.disk[p] = Gone THEN 0 ELSE FileSnap(s, p)
  IN [disk |-> Written(s.disk, p, New), snaps |-> Taken(s, p, snap),
      rows |-> Record(s, "write", p, None, snap, FALSE, 0)]

StageMkdir(s, p, b) ==
  [s EXCEPT !.disk[p] = Dir, !.rows = Record(s, "mkdir", p, None, 0, FALSE, b)]

StageRename(s, p, t, b) ==
  [s EXCEPT !.disk = Moved(s.disk, p, t), !.rows = Record(s, "rename", p, t, 0, FALSE, b)]

StageDelete(s, p, b) ==
  LET tar == s.disk[p] = Dir
      snap == CASE ~tar -> FileSnap(s, p)
                [] tar /\ Inside(s.disk, p) # {} -> Len(s.rows) + 1
                [] OTHER -> 0
  IN [disk |-> Removed(s.disk, p), snaps |-> Taken(s, p, snap),
      rows |-> Record(s, IF tar THEN "delete_dir" ELSE "delete_file", p, None, snap, tar, b)]

Now == [disk |-> disk, rows |-> rows, snaps |-> snaps]
Become(s) == disk' = s.disk /\ rows' = s.rows /\ snaps' = s.snaps

(* Every run but r learns that these paths are no longer its own work. *)
Differ(d) == {p \in Paths : d[p] # disk[p]}
Disturb(r, ps) == others' = [q \in DOMAIN others |-> IF q = r THEN others[q] ELSE others[q] \cup ps]

Stage(s) ==
  /\ live # 0 /\ Len(s.rows) <= MaxRows
  /\ Become(s)
  /\ Disturb(live, Differ(s.disk))
  /\ UNCHANGED <<live, runs, edits, origin, result>>

(* What may fail of what is tried. *)
Faulty(is) == {bad \in SUBSET is : faults + Cardinality(bad) <= MaxFaults}

(***************************************************************************)
(* The tools.  An operation whose checks fail changes nothing.             *)
(***************************************************************************)
StartRun ==
  /\ live = 0 /\ runs < MaxRuns
  /\ live' = runs + 1 /\ runs' = runs + 1
  /\ origin' = Append(origin, disk) /\ others' = Append(others, {})
  /\ UNCHANGED <<disk, rows, snaps, card, edits, faults, batches, result>>

EndRun ==
  /\ live # 0 /\ live' = 0 /\ card' = <<>>
  /\ UNCHANGED <<disk, rows, snaps, runs, edits, faults, origin, others, batches, result>>

WriteFile(p) == CanWrite(disk, p) /\ Stage(StageWrite(Now, p)) /\ UNCHANGED <<card, faults, batches>>
Mkdir(p) == CanMkdir(disk, p) /\ Stage(StageMkdir(Now, p, 0)) /\ UNCHANGED <<card, faults, batches>>
Rename(p, t) == CanRename(disk, p, t) /\ Stage(StageRename(Now, p, t, 0)) /\ UNCHANGED <<card, faults, batches>>
DeletePath(p, rec) ==
  CanDelete(disk, p, rec) /\ Stage(StageDelete(Now, p, 0)) /\ UNCHANGED <<card, faults, batches>>

(* rmtree raises midway, in delete_path or in a batch that stops at it (there
   as the step that follows): what it has removed is gone, and no row says so. *)
RemovalTorn(p) ==
  /\ live # 0 /\ faults < MaxFaults /\ faults' = faults + 1
  /\ \E torn \in (SUBSET Inside(disk, p)) \ {{}} :
       /\ disk' = [q \in Paths |-> IF q \in torn THEN Gone ELSE disk[q]]
       /\ Disturb(0, torn)
  /\ UNCHANGED <<rows, snaps, live, runs, card, edits, origin, batches, result>>

(***************************************************************************)
(* batch_fs.  Preflight runs the operations on a virtual tree; commit      *)
(* repeats the cheap checks and applies them in one go.                    *)
(***************************************************************************)
MkdirOp(p) == [op |-> "mkdir", path |-> p, dst |-> None]
RenameOp(p, t) == [op |-> "rename", path |-> p, dst |-> t]
DeleteOp(p) == [op |-> "delete", path |-> p, dst |-> None]
(* A batch the model submits is a pair of these. *)
Operations == {MkdirOp(p) : p \in Files} \cup {DeleteOp(p) : p \in Files}
                \cup {RenameOp(p, t) : p \in Files, t \in Files}

ASSUME PlansAssumption == Plans \subseteq Operations \X Operations

Valid(d, o) == CASE o.op = "mkdir" -> CanMkdir(d, o.path)
                 [] o.op = "rename" -> o.path # o.dst /\ CanRename(d, o.path, o.dst)
                 [] o.op = "delete" -> CanDelete(d, o.path, TRUE)
Effect(d, o) == CASE o.op = "mkdir" -> [d EXCEPT ![o.path] = Dir]
                  [] o.op = "rename" -> Moved(d, o.path, o.dst)
                  [] o.op = "delete" -> Removed(d, o.path)
Preflight(ops) == Valid(disk, ops[1]) /\ Valid(Effect(disk, ops[1]), ops[2])

(* commit: an operation whose last-moment check fails is skipped, but a rename's
   raises.  So does one that is refused: by the file system, or since what it
   deletes is over the snapshots' cap, which preflight does not look at.  What
   is staged by then stays, under the batch's id; a batch whose first operation
   is refused has changed nothing. *)
CommitOp(b, refused, s, o) ==
  CASE s.halt -> s
    [] ~s.halt /\ ~Valid(s.disk, o) -> [s EXCEPT !.halt = o.op = "rename"]
    [] ~s.halt /\ Valid(s.disk, o) /\ o \in refused -> [s EXCEPT !.halt = TRUE]
    [] OTHER ->
       LET t == [disk |-> s.disk, rows |-> s.rows, snaps |-> s.snaps]
           u == CASE o.op = "mkdir" -> StageMkdir(t, o.path, b)
                  [] o.op = "rename" -> StageRename(t, o.path, o.dst, b)
                  [] o.op = "delete" -> StageDelete(t, o.path, b)
       IN [disk |-> u.disk, rows |-> u.rows, snaps |-> u.snaps, halt |-> FALSE]

CommitRun(ops, refused) ==
  FoldLeft(LAMBDA t, o : CommitOp(Len(batches) + 1, refused, t, o),
           [disk |-> disk, rows |-> rows, snaps |-> snaps, halt |-> FALSE], ops)

CommitBatch(ops) ==
  \E refused \in Faulty(Range(Tail(ops))) :
    LET s == CommitRun(ops, refused)
    IN Stage([disk |-> s.disk, rows |-> s.rows, snaps |-> s.snaps])
       /\ faults' = faults + Cardinality(refused)
       /\ batches' = Append(batches, [ops |-> ops, from |-> Len(rows),
                                      told |-> IF s.halt THEN "failed" ELSE "staged"])

RunBatch(ops) == Preflight(ops) /\ CommitBatch(ops) /\ UNCHANGED card

(* Some path is out of scope: one card for all of them. *)
AskBatch(ops) ==
  /\ live # 0 /\ card = <<>> /\ Len(rows) < MaxRows
  /\ Preflight(ops)
  /\ card' = ops
  /\ UNCHANGED <<disk, rows, snaps, live, runs, edits, faults, origin, others, batches, result>>

BatchGrantedStale == card # <<>> /\ CommitBatch(card) /\ card' = <<>>
BatchGranted == card # <<>> /\ Preflight(card) /\ CommitBatch(card) /\ card' = <<>>

BatchRefused ==                   \* denied, or the second preflight rejects it
  /\ card # <<>> /\ card' = <<>>
  /\ UNCHANGED <<disk, rows, snaps, live, runs, edits, faults, origin, others, batches, result>>

(***************************************************************************)
(* Undo.                                                                   *)
(***************************************************************************)
SnapMissing(r) ==
  /\ r.op \in {"write", "delete_file"} \/ (r.op = "delete_dir" /\ r.snap # 0)
  /\ r.snap \notin DOMAIN snaps

FileData(i) == IF snaps[i][<<>>] = Dir THEN Blob ELSE snaps[i][<<>>]

(* _replay_reverse on disk d: the new disk, or why the call raised. *)
Fine(d) == [disk |-> d, err |-> "none"]
Raise(d, why) == [disk |-> d, err |-> why]
ReplayReverse(d, r) ==
  LET p == r.path
  IN CASE r.op \in {"write", "delete_file"} ->
            CASE Len(p) = 2 /\ d[<<p[1]>>] \notin {Gone, Dir} -> Raise(d, "os")
              [] d[p] = Dir -> Fine([d EXCEPT ![p \o <<BinName>>] = FileData(r.snap)])
              [] OTHER -> Fine(Written(d, p, FileData(r.snap)))
       [] r.op = "delete_dir" ->
            IF d[p] \notin {Gone, Dir} THEN Raise(d, "os")
            ELSE Fine([q \in Paths |->
                        IF q = p THEN Dir
                        ELSE IF q \in Under(p) /\ r.snap # 0 /\ snaps[r.snap][Suffix(p, q)] # Gone
                             THEN snaps[r.snap][Suffix(p, q)] ELSE d[q]])
       [] r.op = "mkdir" ->
            CASE d[p] # Dir -> Raise(d, "os")
              [] d[p] = Dir /\ Inside(d, p) # {} -> Raise(d, "notempty")
              [] OTHER -> Fine([d EXCEPT ![p] = Gone])
       [] r.op = "rename" ->
            CASE d[r.dst] = Gone \/ ~HasParent(d, p) -> Raise(d, "os")
              [] d[p] # Gone /\ (d[p] = Dir) # (d[r.dst] = Dir) -> Raise(d, "os")
              [] Inside(d, p) # {} -> Raise(d, "notempty")
              [] OTHER -> Fine(Moved(d, r.dst, p))

(* One row of a revert; the rows in bad fail in the file system.  Only the
   batch and item reverts stop at a directory that is not empty. *)
UndoRow(s, i, bad, stops) ==
  LET r == rows[i]
      res == IF i \in bad THEN Raise(s.disk, "os") ELSE ReplayReverse(s.disk, r)
  IN CASE s.halt -> s
       [] ~s.halt /\ res.err = "none" ->
            [s EXCEPT !.disk = res.disk, !.rows[i].st = "reverted"]
       [] OTHER -> [s EXCEPT !.failed = TRUE, !.halt = stops /\ res.err = "notempty"]

Undo(order, bad, stops) ==
  FoldLeft(LAMBDA s, i : UndoRow(s, i, bad, stops),
           [disk |-> disk, rows |-> rows, failed |-> FALSE, halt |-> FALSE], order)

Pending(r) == {i \in DOMAIN rows : rows[i].run = r /\ rows[i].st = "pending"}

(* ORDER BY seq DESC; rows of two runs may tie.  (Mutant: the oldest first.) *)
NewestLast(is) == {o \in SetToSeqs(is) :
                 \A i, j \in DOMAIN o : i < j => rows[o[i]].seq <= rows[o[j]].seq}
Newest(is) == {o \in SetToSeqs(is) :
                 \A i, j \in DOMAIN o : i < j => rows[o[i]].seq >= rows[o[j]].seq}

(* Endpoint revert_run: refused while a run holds the session. *)
RevertRun(r) ==
  /\ live = 0 /\ Pending(r) # {}
  /\ IF \E i \in Pending(r) : SnapMissing(rows[i])
     THEN /\ result' = [run |-> r, status |-> "snapshot_missing"]
          /\ UNCHANGED <<disk, rows, snaps, faults, others>>
     ELSE \E order \in Newest(Pending(r)), bad \in Faulty(Pending(r)) :
            LET s == Undo(order, bad, FALSE)
            IN /\ disk' = s.disk /\ rows' = s.rows
               /\ snaps' = [i \in {j \in DOMAIN snaps : rows[j].run # r} |-> snaps[i]]
               /\ faults' = faults + Cardinality(bad)
               /\ result' = [run |-> r, status |-> IF s.failed THEN "partial" ELSE "ok"]
               /\ Disturb(r, Differ(s.disk))
  /\ UNCHANGED <<live, runs, card, edits, origin, batches>>

(* Endpoint revert_changes: no lock is asked, no snapshot pruned. *)
RevertRows(is) ==
  /\ is # {} /\ \A i \in is : rows[i].st = "pending" /\ ~SnapMissing(rows[i])
  /\ \E order \in Newest(is), bad \in Faulty(is) :
       LET s == Undo(order, bad, TRUE)
       IN /\ disk' = s.disk /\ rows' = s.rows
          /\ faults' = faults + Cardinality(bad)
          /\ Disturb(0, Differ(s.disk) \cup UNION {Under(rows[i].path) : i \in is})
  /\ UNCHANGED <<snaps, live, runs, card, edits, origin, batches, result>>

RevertItems(is) == RevertRows(is)
RevertBatch(b) ==
  RevertRows({i \in DOMAIN rows : rows[i].batch = b /\ rows[i].st = "pending"})

CommitSession ==
  /\ live = 0
  /\ \E i \in DOMAIN rows : rows[i].st = "pending"
  /\ rows' = [i \in DOMAIN rows |->
                IF rows[i].st = "pending" THEN [rows[i] EXCEPT !.st = "committed"] ELSE rows[i]]
  /\ snaps' = <<>>
  /\ Disturb(0, Paths)
  /\ UNCHANGED <<disk, live, runs, card, edits, faults, origin, batches, result>>

(* Start-up: the run is gone, pending rows without their snapshot are orphans. *)
StagingRestart ==
  /\ faults < MaxFaults /\ faults' = faults + 1
  /\ live' = 0 /\ card' = <<>>
  /\ rows' = [i \in DOMAIN rows |->
                IF /\ rows[i].st = "pending" /\ rows[i].op \notin {"mkdir", "rename"}
                   /\ rows[i].snap # 0 /\ rows[i].snap \notin DOMAIN snaps
                THEN [rows[i] EXCEPT !.st = "orphan"] ELSE rows[i]]
  /\ others' = [r \in DOMAIN others |->
                  IF \E i \in DOMAIN rows : rows[i].run = r /\ rows'[i] # rows[i]
                  THEN Paths ELSE others[r]]
  /\ UNCHANGED <<disk, snaps, runs, edits, origin, batches, result>>

(* The user, or any program, changes a file beside the agent. *)
EditFile(p) ==
  /\ edits < MaxEdits /\ edits' = edits + 1
  /\ CanWrite(disk, p)
  /\ \/ disk' = Written(disk, p, Edited)
     \/ disk[p] # Gone /\ disk' = Removed(disk, p)
  /\ Disturb(0, Differ(disk') \cup {p})
  /\ UNCHANGED <<rows, snaps, live, runs, card, faults, origin, batches, result>>

StagingNext ==
  \/ StartRun \/ EndRun
  \/ \E p \in Files : WriteFile(p) \/ Mkdir(p)
  \/ \E p \in Shared : EditFile(p)
  \/ \E p, t \in Files : p # t /\ Rename(p, t)
  \/ \E p \in Files, rec \in BOOLEAN : DeletePath(p, rec)
  \/ \E p \in Files : RemovalTorn(p)
  \/ \E ops \in Plans : RunBatch(ops) \/ AskBatch(ops)
  \/ BatchGranted \/ BatchRefused
  \/ \E r \in 1..runs : RevertRun(r)
  \/ \E is \in SUBSET DOMAIN rows : RevertItems(is)
  \/ \E b \in DOMAIN batches : RevertBatch(b)
  \/ CommitSession \/ StagingRestart

(***************************************************************************)
(* Properties.                                                             *)
(***************************************************************************)
RunReverted(r) == rows' # rows /\ result' = [run |-> r, status |-> "ok"]
Renamed(r) == UNION {Under(rows[i].path) \cup Under(rows[i].dst) :
                       i \in {j \in DOMAIN rows : rows[j].run = r /\ rows[j].op = "rename"}}

(* When revert_run answers ok, every file the run wrote or deleted and did
   not rename, and nothing else has touched since the run began, holds again
   what it held when the run began, however often the run changed it and in
   whatever mixture of single operations and batches, failed ones included.  A
   file taken by a removal that stopped midway is one that nothing remembers. *)
RevertRestores ==
  [][\A r \in 1..runs : RunReverted(r) =>
       \A p \in Files \ (others[r] \cup Renamed(r)) :
         Dir \notin {origin[r][p], disk'[p]} => disk'[p] = origin[r][p]]_stagingVars

Stages(r, o) ==
  /\ r.path = o.path /\ r.dst = o.dst
  /\ IF o.op = "delete" THEN r.op \in {"delete_file", "delete_dir"} ELSE r.op = o.op

(* A batch that run_batch answered as staged has a row for each of its
   operations, in their order, and nothing else under its id, whatever changed
   while its access card was open.  One that was answered as failed midway,
   which the file system or the snapshots' cap may always bring about, has rows
   for the operations before the one that raised: the part its card undoes. *)
BatchWhole ==
  \A b \in DOMAIN batches :
    \E n \in 0 .. Len(batches[b].ops) :
      /\ {i \in DOMAIN rows : rows[i].batch = b} = batches[b].from + 1 .. batches[b].from + n
      /\ \A k \in 1 .. n : Stages(rows[batches[b].from + k], batches[b].ops[k])
      /\ batches[b].told = "staged" <=> n = Len(batches[b].ops)

(* "delete it first to keep undo history": reverting a run that deleted a
   file, moved another over its path and went on working puts both back, when
   nothing but the run has touched the disk. *)
UndoHistoryKept ==
  [][\A r \in 1..runs : RunReverted(r) /\ others[r] = {} =>
       \A p \in Files :
         origin[r][p] \notin {Gone, Dir} => disk'[p] = origin[r][p]]_stagingVars
=============================================================================
