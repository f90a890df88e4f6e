---------------------------- MODULE NotesDistill ----------------------------
(***************************************************************************)
(* Documents distilled into summary notes: the notes_distill_jobs table,   *)
(* its worker (notes_distill.py), the scanner that feeds it                *)
(* (notes_distill_scan.py) and the user's requests (main.py).              *)
(*                                                                         *)
(* A document is its modification time (0: not on disk), a summary note    *)
(* the time it was made from.  The table is keyed by path alone, so users  *)
(* share a row.  Steps end at awaits.  The scanner's yields every 50 files *)
(* are left out: a root holds few files here.                              *)
(***************************************************************************)
EXTENDS Naturals, FiniteSets

CONSTANTS
    Users, Files,
    MaxMtime,      \* bound: modifications of the documents
    MaxTries,   \* notes_distill.MAX_ATTEMPTS
    DailyCap,      \* notes_store.get_daily_cap
    MaxDays,       \* bound: midnights
    MaxActs,       \* bound: what the users do
    MaxStops       \* bound: crashes of the agent

ASSUME DistillConstants ==
    /\ MaxMtime \in Nat /\ MaxTries \in Nat \ {0} /\ DailyCap \in Nat
    /\ MaxDays \in Nat /\ MaxActs \in Nat /\ MaxStops \in Nat
    /\ IsFiniteSet(Files)

VARIABLES
    disk,      \* [Files -> mtime], 0 when there is no such file
    jobs,      \* [Files -> Job]: notes_distill_jobs
    queued,    \* [Files -> Nat]: the rows' places in the order of enqueued_at
    summary,   \* [Users \X Files -> Summary]: the summary notes
    settings,  \* [Users -> [root, model]]: opted in, background model set
    quota,     \* [Users -> [day, used]]: notes_distill_quota
    today,
    worker,    \* the job process_pending_once has in hand
    scan,      \* the scan_once in progress
    acts, stops,
    made,      \* ghost: distillations of <<user, file, mtime>> still in a note
    refused,   \* ghost: <<user, file, mtime>> given up, and not asked for since
    autos,     \* ghost: automatic documents distilled per user today
    torn       \* ghost: distillations in a note whose row a crash put back in the queue

distillVars == <<disk, jobs, queued, summary, settings, quota, today, worker, scan, acts, stops,
                 made, refused, autos, torn>>

NoJob == [status |-> "none"]
NoWork == [pc |-> "idle"]
NoScan == [pc |-> "idle"]
NoSummary == [status |-> "none", mtime |-> 0, stale |-> FALSE]

Tombstones == {"failed", "skipped"}

DistillInit ==
    /\ disk \in [Files -> {0, 1}]
    /\ jobs = [f \in Files |-> NoJob] /\ queued = [f \in Files |-> 0]
    /\ summary = [k \in Users \X Files |-> NoSummary]
    /\ settings = [u \in Users |-> [root |-> TRUE, model |-> TRUE]]
    /\ quota = [u \in Users |-> [day |-> 0, used |-> 0]] /\ today = 1
    /\ worker = NoWork /\ scan = NoScan /\ acts = 0 /\ stops = 0
    /\ made = {} /\ refused = {} /\ autos = [u \in Users |-> 0]
    /\ torn = {}

-----------------------------------------------------------------------------
(* The table.                                                              *)

\* The upsert: a running row is left alone, a manual origin is never demoted,
\* the budget of attempts starts again and the row goes to the end.
Enqueued(u, f, m, o) ==
    IF jobs[f].status = "running" THEN jobs[f]
    ELSE [status |-> "pending", user |-> u, mtime |-> m, attempts |-> 0, cancelled |-> FALSE,
          origin |-> IF jobs[f].status # "none" /\ jobs[f].origin = "manual" THEN "manual" ELSE o]

ToEnd(q, fs) ==
    [f \in Files |-> IF f \in fs THEN Cardinality(Files \ fs)
                     ELSE Cardinality({g \in Files \ fs : q[g] < q[f]})]

\* finish_job deletes the row; fail_job puts it back until the ceiling, then
\* leaves a tombstone; skip_job leaves a tombstone.
FailJob(j, attempts) == [j EXCEPT !.status = IF attempts >= MaxTries THEN "failed" ELSE "pending"]
SkipJob(j) == [j EXCEPT !.status = "skipped"]

QuotaUsed(u, d) == IF quota[u].day = d THEN quota[u].used ELSE 0
QuotaRemaining(u, d) == IF QuotaUsed(u, d) < DailyCap THEN DailyCap - QuotaUsed(u, d) ELSE 0
QuotaConsumeNot(u, d) == [quota EXCEPT ![u] = [day |-> d, used |-> QuotaUsed(u, d)]]
QuotaConsume(u, d) == [quota EXCEPT ![u] = [day |-> d, used |-> QuotaUsed(u, d) + 1]]

Pending == {f \in Files : jobs[f].status = "pending"}
Oldest(fs) == CHOOSE f \in fs : \A g \in fs : queued[f] <= queued[g]

\* claim_job: manual rows first, automatic ones only while the quota lasts.
Claimable(ok) ==
    LET manual == {f \in Pending : jobs[f].origin = "manual"}
    IN IF manual # {} THEN manual ELSE IF ok THEN Pending ELSE {}

-----------------------------------------------------------------------------
(* The worker.                                                             *)

\* The document in hand, as the row was when it was claimed.
InHand == <<jobs[worker.file].user, worker.file, jobs[worker.file].mtime>>

\* The row of the job in hand becomes j and the worker is free.
Settle(j) ==
    /\ jobs' = [jobs EXCEPT ![worker.file] = j]
    /\ refused' = IF j.status \in Tombstones
                  THEN refused \cup {<<j.user, worker.file, j.mtime>>} ELSE refused
    /\ worker' = NoWork

Fails(attempts) == Settle(FailJob(jobs[worker.file], attempts))

\* process_pending_once up to its first await: the probe of the oldest row's
\* quota, the claim, the model.  The second look at the quota never differs:
\* an automatic row is claimed only when it is the one that was probed.
DistillClaim ==
    /\ worker.pc = "idle" /\ Pending # {}
    /\ LET ok == QuotaRemaining(jobs[Oldest(Pending)].user, today) > 0
           f == Oldest(Claimable(ok))
           j == [jobs[f] EXCEPT !.status = "running", !.attempts = @ + 1]
       IN /\ Claimable(ok) # {}
          /\ \/ /\ ~settings[j.user].model
                /\ jobs' = [jobs EXCEPT ![f] = SkipJob(j)]
                /\ refused' = refused \cup {<<j.user, f, j.mtime>>}
                /\ UNCHANGED worker
             \/ /\ settings[j.user].model
                /\ jobs' = [jobs EXCEPT ![f] = j]
                /\ worker' = [pc |-> "creds", file |-> f, day |-> today]
                /\ UNCHANGED refused
    /\ UNCHANGED <<disk, queued, summary, settings, quota, today, scan, acts, stops, made, autos, torn>>

\* creds_resolver returns or not; then the file is looked at.
DistillCreds ==
    /\ worker.pc = "creds"
    /\ \/ Fails(jobs[worker.file].attempts)                    \* no credentials, or it raised
       \/ Settle(SkipJob(jobs[worker.file]))                   \* gone, or too large
       \/ /\ disk[worker.file] # 0 /\ worker' = [worker EXCEPT !.pc = "text"]
          /\ UNCHANGED <<jobs, refused>>
    /\ UNCHANGED <<disk, queued, summary, settings, quota, today, scan, acts, stops, made, autos, torn>>

\* Extraction and the language model: a 4xx answer of the parser will never
\* work, other errors may, and a document may have no text.
DistillFails ==
    /\ worker.pc = "text"
    /\ \/ Fails(MaxTries)
       \/ Fails(jobs[worker.file].attempts)
       \/ Settle(SkipJob(jobs[worker.file]))
    /\ UNCHANGED <<disk, queued, summary, settings, quota, today, scan, acts, stops, made, autos, torn>>

\* What apply_distillation makes of the user's note: a curated one keeps its
\* text and source and is flagged.
Applied(s, m) ==
    IF s.status = "curated" THEN [s EXCEPT !.stale = TRUE]
    ELSE [status |-> IF s.status = "none" THEN "draft" ELSE s.status, mtime |-> m, stale |-> FALSE]

\* The end of process_pending_once: quota_consume, then finish_job, each a commit.
Spent == LET j == jobs[worker.file]
         IN IF j.origin = "manual" THEN quota ELSE QuotaConsume(j.user, worker.day)
Finished(f) ==
    /\ quota' = Spent
    /\ jobs' = [jobs EXCEPT ![f] = NoJob]
    /\ worker' = NoWork
    /\ torn' = torn \ {InHand}

\* apply_distillation commits the note under the user's lock.
Curated == summary[<<InHand[1], InHand[2]>>].status = "curated"
NoteCommitted ==
    /\ summary' = [summary EXCEPT ![<<InHand[1], InHand[2]>>] = Applied(@, InHand[3])]
    /\ made' = made \cup {InHand}
    /\ autos' = IF jobs[worker.file].origin = "manual" \/ worker.day # today THEN autos
                ELSE [autos EXCEPT ![InHand[1]] = @ + 1]

\* Indexing the note is another await, which a curated one does not reach.
DistillApply ==
    /\ worker.pc = "text"
    /\ NoteCommitted
    /\ IF Curated THEN Finished(worker.file)
       ELSE /\ worker' = [worker EXCEPT !.pc = "index"]
            /\ UNCHANGED <<jobs, quota, torn>>
    /\ UNCHANGED <<disk, queued, settings, today, scan, acts, stops, refused>>

DistillFinish ==
    /\ worker.pc = "index"
    /\ Finished(worker.file)
    /\ UNCHANGED <<disk, queued, summary, settings, today, scan, acts, stops, made, refused, autos>>

-----------------------------------------------------------------------------
(* The scanner.                                                            *)

KnownMtimesQueued(u) ==
    [f \in Files |-> IF jobs[f].status \in {"pending", "running"} /\ jobs[f].user = u
                     THEN {jobs[f].mtime} ELSE {}]

\* _known_mtimes: from the user's notes and from the rows in the user's name (the
\* later one counts: what is scanned is compared with both).
KnownMtimes(u) ==
    [f \in Files |->
        LET n == IF summary[<<u, f>>].status = "none" THEN {} ELSE {summary[<<u, f>>].mtime}
            j == IF jobs[f].status # "none" /\ jobs[f].user = u THEN {jobs[f].mtime} ELSE {}
        IN n \cup j]

\* _opted_in_users and the start of scan_once; the walk runs in a thread.
ScanStart(u) ==
    /\ scan.pc = "idle" /\ settings[u].root /\ settings[u].model
    /\ scan' = [pc |-> "walk", user |-> u, known |-> KnownMtimes(u), asked |-> {}]
    /\ UNCHANGED <<disk, jobs, queued, summary, settings, quota, today, worker, acts, stops,
                   made, refused, autos, torn>>

ScanWalk ==
    /\ scan.pc = "walk"
    /\ scan' = [pc |-> "enqueue", user |-> scan.user, known |-> scan.known, asked |-> scan.asked,
                found |-> disk]
    /\ UNCHANGED <<disk, jobs, queued, summary, settings, quota, today, worker, acts, stops,
                   made, refused, autos, torn>>

\* The documents newer than what is known.
News == {f \in Files : scan.found[f] # 0 /\ \A m \in scan.known[f] : scan.found[f] > m}

\* sweep_dead_tombstones: a tombstone goes with its file, unless the user
\* cancelled it.
Swept(j, f) ==
    IF j.status \in Tombstones /\ ~j.cancelled /\ j.user = scan.user /\ disk[f] = 0 THEN NoJob ELSE j

\* The enqueue loop and the sweep.
ScanEnqueue ==
    /\ scan.pc = "enqueue"
    /\ LET u == scan.user
           upsert == [f \in Files |-> IF f \in News THEN Enqueued(u, f, scan.found[f], "auto")
                                      ELSE jobs[f]]
           moved == {f \in News : jobs[f].status # "running"}
       IN /\ jobs' = [f \in Files |-> Swept(upsert[f], f)]
          /\ queued' = ToEnd(queued, moved)
          \* what the scan overruns: the answers of another user whose row it takes
          \* over, and those to a request made since it read _known_mtimes
          /\ refused' = {r \in refused : ~(r[2] \in moved /\ (r[1] # u \/ r[2] \in scan.asked))}
          /\ made' = {r \in made : ~(r[2] \in moved \cap scan.asked)}
    /\ scan' = NoScan
    /\ UNCHANGED <<disk, summary, settings, quota, today, worker, acts, stops, autos, torn>>

-----------------------------------------------------------------------------
(* The user, the disk, the calendar, faults.                               *)

Act == acts < MaxActs /\ acts' = acts + 1

\* POST /agent/notes/distill; a file in flight is accepted and left alone.
DistillManual(u, f) ==
    /\ Act
    /\ disk[f] # 0 /\ jobs[f].status # "running"
    /\ jobs' = [jobs EXCEPT ![f] = Enqueued(u, f, disk[f], "manual")]
    /\ queued' = ToEnd(queued, {f})
    /\ refused' = {r \in refused : r[2] # f}
    /\ made' = {r \in made : r[2] # f}
    /\ scan' = IF scan.pc = "idle" THEN scan ELSE [scan EXCEPT !.asked = @ \cup {f}]
    /\ UNCHANGED <<disk, summary, settings, quota, today, worker, stops, autos, torn>>

\* POST /agent/notes/distill/jobs/cancel
DistillCancel(u, f) ==
    /\ Act
    /\ jobs[f].status = "pending" /\ jobs[f].user = u
    /\ jobs' = [jobs EXCEPT ![f].status = "skipped", ![f].cancelled = TRUE]
    /\ refused' = refused \cup {<<u, f, jobs[f].mtime>>}
    /\ UNCHANGED <<disk, queued, summary, settings, quota, today, worker, scan, stops, made, autos, torn>>

\* curate_note_api and delete_note_api.
CurateSummary(u, f) ==
    /\ Act
    /\ summary[<<u, f>>].status = "draft"
    /\ summary' = [summary EXCEPT ![<<u, f>>].status = "curated"]
    /\ UNCHANGED <<disk, jobs, queued, settings, quota, today, worker, scan, stops, made, refused, autos, torn>>

DeleteSummary(u, f) ==
    /\ Act
    /\ summary[<<u, f>>].status # "none"
    /\ summary' = [summary EXCEPT ![<<u, f>>] = NoSummary]
    /\ made' = {r \in made : ~(r[1] = u /\ r[2] = f)}
    /\ UNCHANGED <<disk, jobs, queued, settings, quota, today, worker, scan, stops, refused, autos, torn>>

\* put_notes_settings
DistillSettings(u) ==
    /\ Act
    /\ settings' \in {[settings EXCEPT ![u].root = ~@], [settings EXCEPT ![u].model = ~@]}
    /\ UNCHANGED <<disk, jobs, queued, summary, quota, today, worker, scan, stops,
                   made, refused, autos, torn>>

\* A document is written (or comes back) with a later time than any remembered of it,
\* or goes away; 1 is the time of those that are there at the start.
Times(f) ==
    {1, disk[f]} \cup {summary[<<u, f>>].mtime : u \in Users}
        \cup (IF jobs[f].status = "none" THEN {} ELSE {jobs[f].mtime})
        \cup (IF scan.pc = "enqueue" THEN {scan.found[f]} ELSE {})
        \cup {r[3] : r \in {q \in made \cup refused : q[2] = f}}

WriteDocument(f) ==
    /\ \E t \in Times(f) : /\ t < MaxMtime /\ \A s \in Times(f) : s <= t
                            /\ disk' = [disk EXCEPT ![f] = t + 1]
    /\ UNCHANGED <<jobs, queued, summary, settings, quota, today, worker, scan, acts, stops,
                   made, refused, autos, torn>>

RemoveDocument(f) ==
    /\ disk[f] # 0
    /\ disk' = [disk EXCEPT ![f] = 0]
    /\ UNCHANGED <<jobs, queued, summary, settings, quota, today, worker, scan, acts, stops,
                   made, refused, autos, torn>>

Midnight ==
    /\ today < MaxDays
    /\ today' = today + 1 /\ autos' = [u \in Users |-> 0]
    /\ UNCHANGED <<disk, jobs, queued, summary, settings, quota, worker, scan, acts, stops, made, refused, torn>>

RequeueDistillNothing(j) == j

\* requeue_orphaned at start-up: what was running is pending again.
RequeueDistill(j) == IF j.status = "running" THEN [j EXCEPT !.status = "pending"] ELSE j

Restarted ==
    /\ stops < MaxStops /\ stops' = stops + 1
    /\ jobs' = [f \in Files |-> RequeueDistill(jobs[f])]
    /\ worker' = NoWork /\ scan' = NoScan
    /\ UNCHANGED <<disk, queued, settings, today, acts, refused>>

\* A crash at an await: while a note is indexed, it is committed and its row is not done.
DistillRestart ==
    /\ Restarted
    /\ torn' = IF worker.pc = "index" THEN torn \cup {InHand} ELSE torn
    /\ UNCHANGED <<summary, quota, made, autos>>

\* A crash between the commits that end a job: the note's, the quota's, the row's.
DistillTorn ==
    /\ \/ worker.pc = "text" /\ Curated /\ NoteCommitted
       \/ worker.pc = "index" /\ UNCHANGED <<summary, made, autos>>
    /\ quota' \in {quota, Spent}
    /\ torn' = torn \cup {InHand}
    /\ Restarted

-----------------------------------------------------------------------------
DistillWorks == DistillClaim \/ DistillCreds \/ DistillFails \/ DistillApply \/ DistillFinish
Scanning == (\E u \in Users : ScanStart(u)) \/ ScanWalk \/ ScanEnqueue

DistillNext ==
    \/ DistillWorks \/ Scanning \/ Midnight \/ DistillRestart \/ DistillTorn
    \/ \E u \in Users : DistillSettings(u)
    \/ \E f \in Files : WriteDocument(f) \/ RemoveDocument(f)
    \/ \E u \in Users, f \in Files :
          DistillManual(u, f) \/ DistillCancel(u, f) \/ CurateSummary(u, f) \/ DeleteSummary(u, f)

\* The loops of the worker and of the scanner go on; the user, the disk and
\* the calendar owe nothing.
DistillFairness == WF_distillVars(DistillWorks) /\ WF_distillVars(Scanning)

-----------------------------------------------------------------------------
\* fail_job, skip_job, the cancel endpoint: a document given up or cancelled is
\* not sent to the language model again until it changes or is asked for (or
\* until another user's request takes its row over).
GivenUpStaysDown == worker.pc # "idle" => InHand \notin refused

\* scan_root: a document that has not changed is not distilled a second time,
\* unless its note was curated, which keeps the time it was made from, or a crash
\* came after the note's commit and before finish_job's: then it is, once.
RedoneOnlyIfCurated ==
    worker.pc \in {"creds", "text"} /\ InHand \in made => Curated \/ InHand \in torn

\* claim_job and quota_consume: no more automatic documents a day than the cap,
\* but for one a crash, whose quota was not consumed when its note was committed.
QuotaHeld == \A u \in Users : autos[u] <= DailyCap + stops

\* The language model is not asked for more than was agreed over retries,
\* cancellations and days; a restart costs one document at most.
EffortBounded == GivenUpStaysDown /\ RedoneOnlyIfCurated /\ QuotaHeld

\* Every document under the only opted-in user's roots is dealt with again and
\* again: its note is of its time, or it was given up, or a note was curated, or
\* the day's quota is used up.
Dealt(u, f) ==
    \/ disk[f] = 0 \/ summary[<<u, f>>].mtime = disk[f] \/ summary[<<u, f>>].status = "curated"
    \/ jobs[f].status \in Tombstones /\ jobs[f].mtime = disk[f]
    \/ \E v \in Users : QuotaRemaining(v, today) = 0
Alone(u) == settings[u].root /\ settings[u].model /\ \A v \in Users \ {u} : ~settings[v].root
DocumentsDealt ==
    \A u \in Users, f \in Files : <>[]Alone(u) => []<>Dealt(u, f)

=============================================================================
