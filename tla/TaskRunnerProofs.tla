-------------------------- MODULE TaskRunnerProofs --------------------------
(***************************************************************************)
(* Proofs about TaskRunner, for any number of tasks, worker slots,         *)
(* requests, purges, rows and crashes.                                     *)
(*                                                                         *)
(* SharedTranscriptKept is not inductive by itself: Inv adds that rows are *)
(* allocated in order, that slots, purges and requests hold rows that were *)
(* there, and that whoever refers to a session got it from its owner row.  *)
(* Most steps are calm: they refer to no session that was not referred to  *)
(* before, and CalmKeeps disposes of them together.  The others are those  *)
(* that commit a row, claim one, attach a session or decide to delete one. *)
(*                                                                         *)
(* NothingOrphaned needs OrphanInv besides Inv: a row is in one slot, one  *)
(* in setup is running or was dropped while it ran, and a purge knows the  *)
(* session its row has.  SlotsGoOn, SessionsExplained and PurgesGoOn are   *)
(* what a step must respect; each action is shown to respect them.         *)
(***************************************************************************)
EXTENDS TaskRunner, TLAPS

\* The empty tables of a first start satisfy the invariant.
LEMMA InitInv == Init => Inv
<1> SUFFICES ASSUME Init PROVE Inv
  OBVIOUS
<1>1. TypeOK
  BY ConstantsAssumption DEF Init, TypeOK, Row, Job, Request, Purge, NoRow, NoJob, NoRequest,
     NoPurge, Sids, RunIds, Statuses, AgentStates
<1>2. RowsAllocated
  BY DEF Init, RowsAllocated, RunIds
<1>3. SlotsHoldRows /\ WaitersHoldRows /\ FreshHasNone
  BY DEF Init, SlotsHoldRows, WaitersHoldRows, FreshHasNone, NoRow, NoJob, NoPurge, NoRequest
<1>4. SessionsHaveOwner
  BY DEF Init, SessionsHaveOwner, NoRow, NoJob, NoPurge, NoRequest, RunIds
<1>5. SharedTranscriptKept
  BY DEF Init, SharedTranscriptKept, Exists, NoRow, NoJob, NoPurge
<1> QED
  BY <1>1, <1>2, <1>3, <1>4, <1>5 DEF Inv

\* The bound on rows is a number, and rowid + 1 a row id.
LEMMA NextRow == ASSUME TypeOK, rowid < MaxRuns
                 PROVE  rowid + 1 \in RunIds /\ rowid + 1 \in Sids
BY ConstantsAssumption DEF ConstantsAssumption, TypeOK, RunIds, Sids

(***************************************************************************)
(* Most steps refer to no session that was not referred to before.         *)
(***************************************************************************)
\* Every row keeps its session, and a row whose status changes has left the
\* queue; none comes back from deletion.
RowsKeepSession ==
    \A r \in RunIds :
        /\ runs'[r].sid = runs[r].sid /\ runs'[r].resumed = runs[r].resumed
        /\ runs'[r].late = runs[r].late
        /\ \/ runs'[r] = runs[r]
           \/ /\ runs[r].status # "none" /\ runs'[r].status \notin {"none", "queued"}
              /\ runs[r].status = "gone" => runs'[r].status = "gone"

\* A slot goes on with the row it holds, or lets go of it.
SlotsAdvance ==
    \A u \in Slots :
        /\ job'[u].pc # "idle" => job[u].pc # "idle" /\ job'[u].run = job[u].run
        /\ job'[u].pc = "creds" => job[u].pc = "creds"
        /\ job'[u].drop \subseteq job[u].drop

WaitersAdvance ==
    /\ \A p \in Purgers :
          /\ purge'[p].sid \in {0, purge[p].sid}
          /\ purge'[p].pc = "session" =>
                purge[p].pc = "session" /\ purge'[p].run = purge[p].run
                /\ purge'[p].sid = purge[p].sid
    /\ \A q \in Requests :
          /\ req'[q].sid = req[q].sid /\ req'[q].parent = req[q].parent
          /\ req'[q].pc = "body" => req[q].pc = "body"

Calm == rowid' = rowid /\ RowsKeepSession /\ SlotsAdvance /\ WaitersAdvance

\* The part of the invariant that is about rows and slots.
LEMMA CalmKeepsSlots ==
    ASSUME Inv, rowid' = rowid, RowsKeepSession PROVE
      RowsAllocated' /\ (SlotsAdvance => SlotsHoldRows' /\ FreshHasNone')
<1> USE DEF Inv, RowsKeepSession
<1>1. RowsAllocated'
  BY DEF RowsAllocated, NoRow
<1>2. ASSUME SlotsAdvance PROVE SlotsHoldRows'
  BY <1>2 DEF SlotsAdvance, SlotsHoldRows
<1>3. ASSUME SlotsAdvance PROVE FreshHasNone'
  BY <1>3 DEF SlotsAdvance, SlotsHoldRows, FreshHasNone
<1> QED
  BY <1>1, <1>2, <1>3

\* A calm step keeps the whole invariant.
LEMMA CalmKeeps == ASSUME Inv, TypeOK', Calm PROVE Inv'
<1> USE DEF Inv, Calm
<1>1. RowsAllocated' /\ SlotsHoldRows' /\ FreshHasNone'
  BY CalmKeepsSlots
<1>2. WaitersHoldRows'
  BY DEF WaitersHoldRows, WaitersAdvance
<1>3. SessionsHaveOwner'
  BY DEF SessionsHaveOwner, RowsKeepSession, SlotsAdvance, WaitersAdvance, RunIds
<1>4. SharedTranscriptKept'
  <2>1. \A r \in RunIds : Exists(r)' => Exists(r)
    BY DEF Exists, RowsKeepSession
  <2> QED
    BY <2>1 DEF SharedTranscriptKept, RowsKeepSession, SlotsAdvance, WaitersAdvance
<1> QED
  BY <1>1, <1>2, <1>3, <1>4

\* finish_run and the deletions of rows keep the sessions of the rows.
LEMMA EndRowCalm ==
    ASSUME TypeOK, NEW r \in RunIds, runs' = EndRow(r)
    PROVE  RowsKeepSession /\ runs' \in [RunIds -> Row]
BY DEF TypeOK, EndRow, Exists, RowsKeepSession, Row, Statuses

\* So do the deletions of rows by prune_runs and purge_runs.
LEMMA DropRowsCalm ==
    ASSUME TypeOK, NEW D, \A r \in D \cap RunIds : runs[r].status # "none", runs' = DropRows(D)
    PROVE  RowsKeepSession /\ runs' \in [RunIds -> Row]
BY DEF TypeOK, DropRows, RowsKeepSession, Row, Statuses

\* create_run: the new row has no session yet.
LEMMA EnqueueKeeps == ASSUME Inv, NEW t \in Tasks, Enqueue(t) PROVE Inv'
<1> USE DEF Inv, Enqueue
<1>0. rowid + 1 \in RunIds /\ rowid + 1 \in Sids
  BY NextRow
<1>1. TypeOK'
  <2>1. [status |-> "queued", task |-> t, sid |-> 0, resumed |-> FALSE, late |-> FALSE] \in Row
    BY ConstantsAssumption DEF ConstantsAssumption, Row, Sids, Statuses
  <2>2. runs' \in [RunIds -> Row]
    BY <1>0, <2>1 DEF TypeOK
  <2> QED
    BY <1>0, <2>2 DEF TypeOK
<1>2. RowsAllocated'
  BY <1>0 DEF TypeOK, RowsAllocated, Sids, RunIds
<1>3. SlotsHoldRows'
  BY DEF TypeOK, RowsAllocated, SlotsHoldRows, Sids, RunIds, NoRow
<1>4. WaitersHoldRows'
  BY DEF TypeOK, WaitersHoldRows, Sids, RunIds
<1>5. FreshHasNone'
  BY DEF TypeOK, RowsAllocated, SlotsHoldRows, FreshHasNone, Sids, RunIds, NoRow
<1>6. SessionsHaveOwner'
  BY DEF TypeOK, RowsAllocated, SessionsHaveOwner, Sids, RunIds, NoRow
<1>7. SharedTranscriptKept'
  BY DEF TypeOK, RowsAllocated, SharedTranscriptKept, WaitersHoldRows, Exists, Sids, RunIds, NoRow, Job
<1> QED
  BY <1>1, <1>2, <1>3, <1>4, <1>5, <1>6, <1>7

\* The checks of tasks_continue_run pick a session its owner row has.
LEMMA ContinueBeginKeeps ==
    ASSUME Inv, NEW q \in Requests, NEW r \in RunIds, ContinueBegin(q, r) PROVE Inv'
<1> USE DEF Inv, ContinueBegin
<1>1. TypeOK'
  <2>1. [pc |-> "body", parent |-> r, sid |-> runs[r].sid] \in Request
    BY ConstantsAssumption DEF ConstantsAssumption, TypeOK, Row, Request, RunIds, Sids
  <2> QED
    BY <2>1 DEF TypeOK
<1>2. RowsAllocated' /\ SlotsHoldRows' /\ FreshHasNone' /\ SharedTranscriptKept'
  BY DEF RowsAllocated, SlotsHoldRows, FreshHasNone, SharedTranscriptKept, Exists
<1>3. WaitersHoldRows'
  BY DEF TypeOK, WaitersHoldRows
<1>4. SessionsHaveOwner'
  BY DEF TypeOK, SessionsHaveOwner
<1> QED
  BY <1>1, <1>2, <1>3, <1>4

\* create_continue_run: the new row shares a session; if it is being deleted,
\* or already was, the row is marked late.
LEMMA ContinueCommitKeeps ==
    ASSUME Inv, NEW q \in Requests, ContinueCommit(q) PROVE Inv'
<1> DEFINE n == rowid + 1
           s == req[q].sid
           t == runs[req[q].parent].task
           row == [status |-> "queued", task |-> t, sid |-> s, resumed |-> TRUE,
                   late |-> t \notin tasks \/ s \notin sessions \/ s \in Doomed]
<1> USE DEF Inv
<1>1. /\ n \in RunIds /\ n \in Sids /\ rowid' = n /\ runs' = [runs EXCEPT ![n] = row]
      /\ req' = [req EXCEPT ![q].pc = "done"]
      /\ UNCHANGED <<up, tasks, sessions, job, agent, purge, faults, dropped, cut>>
  BY NextRow DEF ContinueCommit
<1>2. row \in Row /\ row.status = "queued" /\ row.resumed /\ row.sid = s
      /\ (s \in Doomed => row.late)
  BY DEF ContinueCommit, TypeOK, WaitersHoldRows, Row, Request, Statuses
<1>3. runs[n] = NoRow /\ rowid \in Nat
  BY <1>1 DEF TypeOK, RowsAllocated, Sids, RunIds
<1>4. \A r \in RunIds : r # n => runs'[r] = runs[r]
  BY <1>1 DEF TypeOK
<1>5. runs'[n] = row
  BY <1>1 DEF TypeOK
<1> HIDE DEF row
<1>6. TypeOK'
  BY <1>1, <1>2 DEF TypeOK, Request
<1>7. RowsAllocated'
  BY <1>1, <1>2, <1>3, <1>4, <1>5 DEF RowsAllocated, RunIds
<1>8. SlotsHoldRows'
  BY <1>1, <1>3, <1>4 DEF SlotsHoldRows, NoRow
<1>9. WaitersHoldRows'
  BY <1>1, <1>3 DEF TypeOK, WaitersHoldRows, RunIds
<1>10. FreshHasNone'
  BY <1>1, <1>2, <1>3, <1>4, <1>5 DEF FreshHasNone, SlotsHoldRows, NoRow
<1>11. SessionsHaveOwner'
  <2> SUFFICES ASSUME NEW x \in RunIds, runs'[x].sid # x
               PROVE  /\ \A r \in RunIds : runs'[r].sid # x
                      /\ \A u \in Slots : x \notin job'[u].drop
                      /\ \A p \in Purgers : purge'[p].sid # x
                      /\ \A z \in Requests : req'[z].sid # x
    BY DEF SessionsHaveOwner
  <2>1. runs[x].sid # x
    BY <1>1, <1>3, <1>4 DEF NoRow, RunIds
  <2>2. s # x
    BY <2>1 DEF SessionsHaveOwner
  <2> QED
    BY <1>1, <1>2, <1>4, <1>5, <2>1, <2>2 DEF TypeOK, SessionsHaveOwner
<1>12. SharedTranscriptKept'
  <2>1. \A u \in Slots : s \in job[u].drop => row.late
    BY <1>2 DEF TypeOK, Job, Doomed, PendingDrops
  <2>2. \A p \in Purgers : purge[p].pc = "session" /\ s = purge[p].sid => row.late
    BY <1>2 DEF Doomed, WaitersHoldRows
  <2> QED
    BY <1>1, <1>2, <1>4, <1>5, <2>1, <2>2 DEF SharedTranscriptKept, Exists
<1> QED
  BY <1>6, <1>7, <1>8, <1>9, <1>10, <1>11, <1>12

\* claim_run: a row leaves the queue for one slot.
LEMMA ClaimKeeps == ASSUME Inv, NEW s \in Slots, Claim(s) PROVE Inv'
<1> USE DEF Inv
<1>1. PICK r \in RunIds :
        /\ runs[r].status = "queued"
        /\ \/ /\ runs' = [runs EXCEPT ![r].status = "running"]
              /\ job' = [job EXCEPT ![s] = [pc |-> "creds", run |-> r,
                                            sid |-> runs[r].sid, drop |-> {}]]
           \/ /\ runs' = [runs EXCEPT ![r].status = "ended"]
              /\ job' = [job EXCEPT ![s] = [pc |-> "notify", run |-> r, sid |-> 0,
                                            drop |-> {}]]
  BY DEF Claim, Queued, EndRow, Exists
<1>2. UNCHANGED <<up, tasks, rowid, sessions, agent, req, purge, faults, dropped, cut>>
  BY DEF Claim
<1>3. /\ RowsKeepSession /\ runs' \in [RunIds -> Row]
      /\ runs'[r].status \in {"running", "ended"}
  BY <1>1 DEF TypeOK, RowsKeepSession, Row, Statuses
<1>4. /\ job' \in [Slots -> Job] /\ job'[s].run = r /\ job'[s].drop = {}
      /\ \A u \in Slots : u # s => job'[u] = job[u]
  <2>0. r \in Sids /\ runs[r].sid \in Sids /\ 0 \in Sids
    BY ConstantsAssumption DEF ConstantsAssumption, TypeOK, Row, RunIds, Sids
  <2>1. /\ [pc |-> "creds", run |-> r, sid |-> runs[r].sid, drop |-> {}] \in Job
        /\ [pc |-> "notify", run |-> r, sid |-> 0, drop |-> {}] \in Job
    BY <2>0 DEF Job
  <2> DEFINE j1 == [pc |-> "creds", run |-> r, sid |-> runs[r].sid, drop |-> {}]
             j2 == [pc |-> "notify", run |-> r, sid |-> 0, drop |-> {}]
  <2>2. PICK j \in {j1, j2} : job' = [job EXCEPT ![s] = j]
    BY <1>1
  <2>3. j \in Job /\ j.run = r /\ j.drop = {}
    BY <2>1
  <2> QED
    BY <2>2, <2>3 DEF TypeOK
<1>5. TypeOK'
  BY <1>2, <1>3, <1>4 DEF TypeOK
<1>6. RowsAllocated'
  BY <1>2, <1>3, CalmKeepsSlots
<1>7. SlotsHoldRows'
  BY <1>1, <1>3, <1>4 DEF SlotsHoldRows, RowsKeepSession
<1>8. WaitersHoldRows'
  BY <1>2 DEF WaitersHoldRows
<1>9. FreshHasNone'
  BY <1>1, <1>3, <1>4 DEF FreshHasNone, SlotsHoldRows, RowsKeepSession
<1>10. SessionsHaveOwner'
  BY <1>2, <1>3, <1>4 DEF SessionsHaveOwner, RowsKeepSession
<1>11. SharedTranscriptKept'
  BY <1>2, <1>3, <1>4 DEF SharedTranscriptKept, Exists, RowsKeepSession
<1> QED
  BY <1>5, <1>6, <1>7, <1>8, <1>9, <1>10, <1>11

\* attach_session: the run that owns a session gets it; nobody had it before.
LEMMA SetupFreshKeeps == ASSUME Inv, NEW s \in Slots, SetupFresh(s) PROVE Inv'
<1> USE DEF Inv
<1>1. PICK r \in RunIds :
        /\ r = job[s].run /\ runs[r].status \notin {"none", "queued"} /\ runs[r].sid = 0
        /\ job[s].pc = "creds"
  BY DEF SetupFresh, SlotsHoldRows, FreshHasNone
<1>2. /\ runs' = Attach(r) /\ sessions' = sessions \cup {r}
      /\ job' = [job EXCEPT ![s] = [@ EXCEPT !.pc = "grant", !.sid = r]]
      /\ UNCHANGED <<up, tasks, rowid, agent, req, purge, faults, dropped, cut>>
  BY <1>1 DEF SetupFresh
<1>3. /\ runs' \in [RunIds -> Row]
      /\ runs'[r] = runs[r] \/ (Exists(r) /\ runs'[r] = [runs[r] EXCEPT !.sid = r])
      /\ \A q \in RunIds : q # r => runs'[q] = runs[q]
  BY <1>1, <1>2 DEF TypeOK, Attach, Row, RunIds, Sids
<1>4. \A q \in RunIds :
        /\ runs'[q].status = runs[q].status /\ runs'[q].late = runs[q].late
        /\ runs'[q].resumed = runs[q].resumed
        /\ runs'[q].sid = runs[q].sid \/ (q = r /\ runs'[q].sid = r)
  BY <1>3 DEF TypeOK, Row
<1>5. /\ job' \in [Slots -> Job] /\ job'[s].pc = "grant"
      /\ \A u \in Slots : job'[u].run = job[u].run /\ job'[u].drop = job[u].drop
      /\ \A u \in Slots : u # s => job'[u] = job[u]
  <2>1. job' = [job EXCEPT ![s] = [@ EXCEPT !.pc = "grant", !.sid = r]] /\ r \in Sids
    BY <1>2 DEF RunIds, Sids
  <2> QED
    BY <2>1 DEF TypeOK, Job
<1>6. TypeOK'
  BY <1>1, <1>2, <1>3, <1>5 DEF TypeOK
<1>7. RowsAllocated'
  <2>1. NoRow.status = "none"
    BY DEF NoRow
  <2> QED
    BY <1>1, <1>2, <1>3, <1>4, <2>1 DEF RowsAllocated
<1>8. SlotsHoldRows'
  <2>1. \A u \in Slots : job'[u].pc # "idle" => job[u].pc # "idle"
    BY <1>1, <1>5
  <2>2. \A u \in Slots : job'[u].pc = "creds" => job[u].pc = "creds" /\ u # s
    BY <1>5
  <2> QED
    BY <1>4, <1>5, <2>1, <2>2 DEF SlotsHoldRows
<1>9. WaitersHoldRows'
  BY <1>2 DEF WaitersHoldRows
<1>10. FreshHasNone'
  <2>1. \A q \in RunIds : runs'[q].status = "queued" => q # r /\ runs'[q].sid = runs[q].sid
    BY <1>1, <1>4
  <2>2. \A u \in Slots : job'[u].pc = "creds" =>
            u # s /\ job[u].pc = "creds" /\ job'[u].run = job[u].run
    BY <1>5
  <2>3. \A u \in Slots : job'[u].pc = "creds" => job[u].run \in RunIds \ {r}
    BY <1>1, <2>2 DEF SlotsHoldRows
  <2> QED
    BY <1>4, <2>1, <2>2, <2>3 DEF FreshHasNone
\* Nobody refers to the session under construction, so nobody is deleting it.
<1>11. /\ \A q \in RunIds : runs[q].sid # r
       /\ \A u \in Slots : r \notin job[u].drop
       /\ \A p \in Purgers : purge[p].sid # r
       /\ \A q \in Requests : req[q].sid # r
  BY <1>1 DEF SessionsHaveOwner, RunIds
<1>12. SessionsHaveOwner'
  <2> SUFFICES ASSUME NEW x \in RunIds, runs'[x].sid # x
               PROVE  /\ \A q \in RunIds : runs'[q].sid # x
                      /\ \A u \in Slots : x \notin job'[u].drop
                      /\ \A p \in Purgers : purge'[p].sid # x
                      /\ \A q \in Requests : req'[q].sid # x
    BY DEF SessionsHaveOwner
  <2>1. CASE x = r
    BY <1>1, <1>2, <1>4, <1>5, <1>11, <2>1
  <2>2. CASE x # r
    BY <1>2, <1>4, <1>5, <2>2 DEF SessionsHaveOwner
  <2> QED
    BY <2>1, <2>2
<1>13. SharedTranscriptKept'
  BY <1>2, <1>4, <1>5, <1>11 DEF SharedTranscriptKept, Exists
<1> QED
  BY <1>6, <1>7, <1>8, <1>9, <1>10, <1>12, <1>13

\* The steps of a slot that only move it on, and may end its run.
LEMMA SlotMoves ==
    ASSUME Inv, NEW s \in Slots, job[s].pc # "idle",
           NEW c \in {"grant", "drive", "cancel", "notify"},
           job' = [job EXCEPT ![s].pc = c],
           runs' = runs \/ runs' = EndRow(job[s].run),
           agent' \in [RunIds -> AgentStates],
           UNCHANGED <<up, tasks, rowid, sessions, req, purge, faults, dropped, cut>>
    PROVE  Inv'
<1> USE DEF Inv
<1>1. runs' \in [RunIds -> Row] /\ RowsKeepSession
  <2>1. CASE runs' = runs
    BY <2>1 DEF TypeOK, RowsKeepSession
  <2>2. CASE runs' = EndRow(job[s].run)
    BY <2>2, EndRowCalm DEF SlotsHoldRows
  <2> QED
    BY <2>1, <2>2
<1>2. job' \in [Slots -> Job] /\ SlotsAdvance
  BY DEF TypeOK, Job, SlotsAdvance
<1>3. TypeOK'
  BY <1>1, <1>2 DEF TypeOK
<1>4. WaitersAdvance
  BY DEF WaitersAdvance
<1> QED
  BY <1>1, <1>2, <1>3, <1>4, CalmKeeps DEF Calm

\* prune_runs: the sessions it drops have no surviving row.
LEMMA PruneKeeps == ASSUME Inv, NEW s \in Slots, Prune(s) PROVE Inv'
<1> DEFINE t == runs[job[s].run].task
           D == PruneRows(t)
           X == PruneSessions(t)
<1> USE DEF Inv
<1>1. /\ runs' = DropRows(D)
      /\ dropped' = dropped \cup {r \in D : runs[r].status \in Active}
      /\ job' = [job EXCEPT ![s] = IF X = {} THEN NoJob
                                   ELSE [@ EXCEPT !.pc = "prune", !.drop = X]]
      /\ job[s].pc = "notify"
      /\ UNCHANGED <<up, tasks, rowid, sessions, agent, req, purge, faults, cut>>
  BY DEF Prune
<1>2. D \subseteq RunIds /\ \A r \in D : Exists(r)
  BY DEF PruneRows, RowsOf
<1>3. /\ X \subseteq RunIds
      /\ \A x \in X : \E r \in RunIds : runs[r].sid = x
      /\ \A q \in RunIds \ D : Exists(q) => runs[q].sid \notin X
  BY <1>2 DEF PruneSessions, TypeOK, Row, RunIds, Sids
<1> HIDE DEF D, X, t
<1>4. RowsKeepSession /\ runs' \in [RunIds -> Row]
  BY <1>1, <1>2, DropRowsCalm DEF Exists
<1>5. \A r \in RunIds : Exists(r)' => Exists(r) /\ r \notin D
  BY <1>1, <1>2 DEF DropRows, Exists, TypeOK, Row
<1>6. /\ job' \in [Slots -> Job] /\ job'[s].pc \in {"idle", "prune"}
      /\ job'[s].run \in {0, job[s].run} /\ (job'[s].pc = "prune" => job'[s].run = job[s].run)
      /\ job'[s].drop \subseteq X
      /\ \A u \in Slots : u # s => job'[u] = job[u]
  <2>1. CASE X = {}
    <3>1. NoJob \in Job
      BY ConstantsAssumption DEF ConstantsAssumption, NoJob, Job, Sids
    <3> QED
      BY <1>1, <2>1, <3>1 DEF TypeOK, NoJob
  <2>2. CASE X # {}
    BY <1>1, <1>3, <2>2 DEF TypeOK, Job
  <2> QED
    BY <2>1, <2>2
<1>7. TypeOK'
  BY <1>1, <1>2, <1>4, <1>6 DEF TypeOK
<1>8. RowsAllocated'
  BY <1>1, <1>4, CalmKeepsSlots
<1>9. SlotsHoldRows'
  BY <1>1, <1>4, <1>6 DEF SlotsHoldRows, RowsKeepSession
<1>10. FreshHasNone'
  BY <1>1, <1>4, <1>6 DEF FreshHasNone, SlotsHoldRows, RowsKeepSession
<1>11. WaitersHoldRows'
  BY <1>1 DEF WaitersHoldRows
<1>12. SessionsHaveOwner'
  BY <1>1, <1>3, <1>4, <1>6 DEF SessionsHaveOwner, RowsKeepSession
<1>13. SharedTranscriptKept'
  BY <1>1, <1>3, <1>4, <1>5, <1>6 DEF SharedTranscriptKept, RowsKeepSession
<1> QED
  BY <1>7, <1>8, <1>9, <1>10, <1>11, <1>12, <1>13

\* DropJob takes one session off the list, and the slot comes free with the last.
LEMMA PruneSessionKeeps ==
    ASSUME Inv, NEW s \in Slots, NEW x \in RunIds,
           PruneSession(s, x) \/ PruneSessionRaises(s, x)
    PROVE  Inv'
<1> USE DEF Inv
<1>1. /\ job[s].pc = "prune" /\ job' = [job EXCEPT ![s] = DropJob(s, x)]
      /\ UNCHANGED <<up, tasks, runs, rowid, agent, req, purge, dropped>>
  BY DEF PruneSession, PruneSessionRaises
<1>2. sessions' \subseteq RunIds /\ cut' \subseteq RunIds /\ faults' \in 0..MaxFaults
  BY ConstantsAssumption
  DEF ConstantsAssumption, TypeOK, PruneSession, PruneSessionRaises
<1>3. job' \in [Slots -> Job] /\ SlotsAdvance
  <2>1. CASE job[s].drop = {x}
    <3>1. NoJob \in Job
      BY ConstantsAssumption DEF ConstantsAssumption, NoJob, Job, Sids
    <3> QED
      BY <1>1, <2>1, <3>1 DEF TypeOK, DropJob, NoJob, SlotsAdvance
  <2>2. CASE job[s].drop # {x}
    BY <1>1, <2>2 DEF TypeOK, DropJob, Job, SlotsAdvance
  <2> QED
    BY <2>1, <2>2
<1>4. TypeOK'
  BY <1>1, <1>2, <1>3 DEF TypeOK
<1>5. RowsKeepSession /\ WaitersAdvance /\ rowid' = rowid
  BY <1>1 DEF RowsKeepSession, WaitersAdvance
<1> QED
  BY <1>3, <1>4, <1>5, CalmKeeps DEF Calm

\* Every step of a worker slot after the claim.
LEMMA SlotStepKeeps == ASSUME Inv, NEW s \in Slots, SlotStep(s) PROVE Inv'
<1> USE DEF Inv
<1>1. CASE FailEarly(s)
  BY <1>1, SlotMoves DEF FailEarly, TypeOK
<1>2. CASE SetupResume(s)
  BY <1>2, SlotMoves DEF SetupResume, TypeOK
<1>3. CASE StartRun(s)
  <2>1. agent' \in [RunIds -> AgentStates]
    BY <1>3 DEF StartRun, TypeOK, AgentStates
  <2> QED
    BY <1>3, <2>1, SlotMoves DEF StartRun
<1>4. CASE DriveDone(s)
  <2>1. agent' \in [RunIds -> AgentStates]
    BY <1>4 DEF DriveDone, TypeOK, AgentStates
  <2> QED
    BY <1>4, <2>1, SlotMoves DEF DriveDone
<1>5. CASE DriveGivesUp(s)
  <2>1. agent' \in [RunIds -> AgentStates]
    BY <1>5 DEF DriveGivesUp, TypeOK, AgentStates
  <2> QED
    BY <1>5, <2>1, SlotMoves DEF DriveGivesUp
<1>6. CASE CancelReturns(s)
  BY <1>6, SlotMoves DEF CancelReturns, TypeOK
<1> QED
  BY <1>1, <1>2, <1>3, <1>4, <1>5, <1>6, SetupFreshKeeps, PruneKeeps, PruneSessionKeeps
  DEF SlotStep

\* The detached agent task touches no row and no session.
LEMMA AgentStepKeeps ==
    ASSUME Inv, NEW r \in RunIds, AgentEnds(r) \/ AgentUnwinds(r) PROVE Inv'
<1>1. agent' \in [RunIds -> AgentStates]
  BY DEF Inv, TypeOK, AgentEnds, AgentUnwinds, AgentStates
<1>2. UNCHANGED <<up, tasks, runs, rowid, sessions, job, req, purge, faults, dropped, cut>>
  BY DEF AgentEnds, AgentUnwinds
<1>3. TypeOK'
  BY <1>1, <1>2 DEF Inv, TypeOK
<1>4. Calm
  BY <1>2 DEF Calm, RowsKeepSession, SlotsAdvance, WaitersAdvance
<1> QED
  BY <1>3, <1>4, CalmKeeps

\* What a purge's record is after an update of its progress.
LEMMA PurgeUpdate ==
    ASSUME TypeOK, NEW p \in Purgers, NEW c \in {"off", "loop", "session"}, NEW r \in Sids,
           NEW y \in Sids
    PROVE  /\ Progress(p, c, r, y) \in Purge
           /\ Progress(p, c, r, y).pc = c /\ Progress(p, c, r, y).run = r
           /\ Progress(p, c, r, y).sid = y
BY DEF TypeOK, Purge, Progress

\* A purge that is not, or no longer, deleting a session.
LEMMA PurgeSet ==
    ASSUME TypeOK, NEW p \in Purgers, NEW z \in Purge, z.pc # "session", z.sid = 0,
           purge' = [purge EXCEPT ![p] = z], UNCHANGED req
    PROVE  purge' \in [Purgers -> Purge] /\ WaitersAdvance
BY DEF TypeOK, WaitersAdvance

\* A delete request starts a purge that holds nothing yet.
LEMMA DeleteTaskKeeps ==
    ASSUME Inv, NEW p \in Deletes, NEW t \in Tasks, DeleteTask(p, t) PROVE Inv'
<1> USE DEF Inv, DeleteTask
<1>1. [pc |-> "loop", bounded |-> TRUE, task |-> t, run |-> 0, sid |-> 0] \in Purge
  BY ConstantsAssumption DEF ConstantsAssumption, Purge, Sids
<1>2. purge' \in [Purgers -> Purge] /\ WaitersAdvance
  BY <1>1 DEF TypeOK, Purgers, WaitersAdvance
<1>3. TypeOK'
  BY <1>2 DEF TypeOK
<1>4. RowsKeepSession /\ SlotsAdvance
  BY DEF RowsKeepSession, SlotsAdvance
<1> QED
  BY <1>2, <1>3, <1>4, CalmKeeps DEF Calm

\* purge_runs starts deleting a session only when no other row has it.
LEMMA PurgeAwaitKeeps ==
    ASSUME Inv, NEW p \in Purgers, NEW r \in RunIds, PurgeAwait(p, r) PROVE Inv'
<1> USE DEF Inv, PurgeAwait
<1>1. /\ Exists(r) /\ runs[r].sid \in RunIds /\ r \in 1..rowid
      /\ \A q \in RunIds : q # r /\ Exists(q) => runs[q].sid # runs[r].sid
  <2>1. Exists(r)
    BY DEF Oldest, Remaining, Orphans, RowsOf
  <2> QED
    BY <2>1 DEF Exists, Referenced, TypeOK, Row, RunIds, Sids, RowsAllocated, NoRow
<1>2. /\ purge' \in [Purgers -> Purge]
      /\ purge'[p].pc = "session" /\ purge'[p].run = r /\ purge'[p].sid = runs[r].sid
      /\ \A o \in Purgers : o # p => purge'[o] = purge[o]
  <2>1. purge[p] \in Purge /\ r \in Sids /\ runs[r].sid \in Sids
    BY <1>1 DEF TypeOK, RunIds, Sids
  <2>2. purge' = [purge EXCEPT ![p] = Progress(p, "session", r, runs[r].sid)]
    OBVIOUS
  <2> QED
    BY <2>1, <2>2, PurgeUpdate DEF TypeOK
<1>3. TypeOK'
  BY <1>2 DEF TypeOK
<1>4. RowsAllocated' /\ SlotsHoldRows' /\ FreshHasNone'
  BY DEF RowsAllocated, SlotsHoldRows, FreshHasNone
<1>5. WaitersHoldRows'
  BY <1>1, <1>2 DEF WaitersHoldRows
<1>6. SessionsHaveOwner'
  BY <1>1, <1>2 DEF SessionsHaveOwner
<1>7. SharedTranscriptKept'
  BY <1>1, <1>2 DEF SharedTranscriptKept, Exists
<1> QED
  BY <1>3, <1>4, <1>5, <1>6, <1>7

\* The steps of a purge that let go of a row or of the task.
LEMMA PurgeMoves ==
    ASSUME Inv, NEW p \in Purgers,
           PurgeDone(p) \/ PurgeSession(p) \/ PurgeSessionRaises(p) \/ PurgeDeadline(p)
           \/ \E r \in RunIds : PurgeRow(p, r)
    PROVE  Inv'
<1> USE DEF Inv
<1>1. rowid' = rowid /\ UNCHANGED <<up, job, agent, req>>
  BY DEF PurgeDone, PurgeSession, PurgeSessionRaises, PurgeDeadline, PurgeRow
<1>2. purge' \in [Purgers -> Purge] /\ WaitersAdvance
  <2>0. purge[p] \in Purge /\ 0 \in Sids /\ UNCHANGED req
    BY <1>1, ConstantsAssumption DEF ConstantsAssumption, TypeOK, Sids
  <2>1. CASE PurgeDone(p)
    <3>1. purge' = [purge EXCEPT ![p] = Progress(p, "off", 0, 0)]
      BY <2>1 DEF PurgeDone, Finished
    <3>2. /\ Progress(p, "off", 0, 0) \in Purge
          /\ Progress(p, "off", 0, 0).pc # "session" /\ Progress(p, "off", 0, 0).sid = 0
      BY <2>0, PurgeUpdate
    <3> QED
      BY <2>0, <3>1, <3>2, PurgeSet
  <2>2. CASE PurgeSession(p) \/ PurgeSessionRaises(p)
    <3>1. purge' = [purge EXCEPT ![p] = Progress(p, "loop", 0, 0)]
      BY <2>2 DEF PurgeSession, PurgeSessionRaises
    <3>2. /\ Progress(p, "loop", 0, 0) \in Purge
          /\ Progress(p, "loop", 0, 0).pc # "session" /\ Progress(p, "loop", 0, 0).sid = 0
      BY <2>0, PurgeUpdate
    <3> QED
      BY <2>0, <3>1, <3>2, PurgeSet
  <2>3. CASE PurgeDeadline(p)
    <3> DEFINE z == [pc |-> "loop", bounded |-> FALSE, task |-> purge[p].task,
                     run |-> 0, sid |-> 0]
    <3>1. purge' = [purge EXCEPT ![p] = z]
      BY <2>3 DEF PurgeDeadline
    <3>2. z \in Purge /\ z.pc # "session" /\ z.sid = 0
      BY <2>0 DEF Purge
    <3> QED
      BY <2>0, <3>1, <3>2, PurgeSet
  <2>4. CASE \E r \in RunIds : PurgeRow(p, r)
    BY <2>4 DEF PurgeRow, TypeOK, WaitersAdvance
  <2> QED
    BY <2>1, <2>2, <2>3, <2>4
<1>3. runs' \in [RunIds -> Row] /\ RowsKeepSession /\ dropped' \subseteq RunIds
  <2>1. CASE PurgeDone(p) \/ PurgeDeadline(p)
    BY <2>1 DEF PurgeDone, PurgeDeadline, TypeOK, RowsKeepSession
  <2>2. ASSUME NEW r \in RunIds, runs[r].status # "none", DropRow(r)
        PROVE  runs' \in [RunIds -> Row] /\ RowsKeepSession /\ dropped' \subseteq RunIds
    <3>1. runs' = DropRows({r})
      BY <2>2 DEF DropRow
    <3>2. dropped' \subseteq RunIds
      BY <2>2 DEF DropRow, TypeOK
    <3> QED
      BY <2>2, <3>1, <3>2, DropRowsCalm
  <2>3. CASE PurgeSession(p) \/ PurgeSessionRaises(p)
    <3>1. purge[p].run \in RunIds /\ runs[purge[p].run].status # "none"
      <4>1. purge[p].run \in 1..rowid /\ rowid \in 0..MaxRuns
        BY <2>3 DEF PurgeSession, PurgeSessionRaises, WaitersHoldRows, TypeOK, Sids
      <4>2. purge[p].run \in RunIds /\ ~(purge[p].run > rowid)
        BY <4>1, ConstantsAssumption DEF ConstantsAssumption, RunIds
      <4> QED
        BY <4>2 DEF RowsAllocated
    <3>2. DropRow(purge[p].run)
      BY <2>3 DEF PurgeSession, PurgeSessionRaises
    <3> QED
      BY <2>2, <3>1, <3>2
  <2>4. CASE \E r \in RunIds : PurgeRow(p, r)
    <3>1. PICK r \in RunIds : PurgeRow(p, r)
      BY <2>4
    <3>2. runs[r].status # "none" /\ DropRow(r)
      BY <3>1 DEF PurgeRow, Oldest, Remaining, Orphans, RowsOf, Exists
    <3> QED
      BY <2>2, <3>2
  <2> QED
    BY <2>1, <2>3, <2>4
<1>4. tasks' \subseteq Tasks /\ sessions' \subseteq RunIds /\ cut' \subseteq RunIds
      /\ faults' \in 0..MaxFaults
  BY ConstantsAssumption
  DEF ConstantsAssumption, TypeOK, WaitersHoldRows,
      PurgeDone, PurgeSession, PurgeSessionRaises, PurgeDeadline, PurgeRow
<1>5. TypeOK'
  BY <1>1, <1>2, <1>3, <1>4 DEF TypeOK
<1>6. SlotsAdvance
  BY <1>1 DEF SlotsAdvance
<1> QED
  BY <1>1, <1>2, <1>3, <1>5, <1>6, CalmKeeps DEF Calm

\* Losing memory frees every slot and ends every request and purge.
LEMMA LoseMemoryCalm ==
    ASSUME Inv, LoseMemory, faults < MaxFaults
    PROVE  /\ SlotsAdvance /\ WaitersAdvance
           /\ job' \in [Slots -> Job] /\ agent' \in [RunIds -> AgentStates]
           /\ req' \in [Requests -> Request] /\ purge' \in [Purgers -> Purge]
           /\ up' \in BOOLEAN /\ faults' \in 0..MaxFaults
<1> USE DEF Inv, LoseMemory
<1>1. NoJob \in Job /\ 0 \in Sids
  BY ConstantsAssumption DEF ConstantsAssumption, NoJob, Job, Sids
<1>2. job' \in [Slots -> Job] /\ SlotsAdvance
  BY <1>1 DEF NoJob, SlotsAdvance
<1>3. agent' \in [RunIds -> AgentStates]
  BY DEF AgentStates
<1>4. /\ req' \in [Requests -> Request]
      /\ \A q \in Requests : /\ req'[q].sid = req[q].sid /\ req'[q].parent = req[q].parent
                              /\ req'[q].pc = "body" => req[q].pc = "body"
  BY DEF TypeOK, Request
<1>5. \A p \in Purgers : /\ Finished(p) \in Purge /\ Finished(p).pc = "off"
                          /\ Finished(p).sid = 0
  BY <1>1, PurgeUpdate DEF Finished
<1>6. /\ purge' \in [Purgers -> Purge]
      /\ \A p \in Purgers : /\ purge'[p].sid \in {0, purge[p].sid}
                             /\ purge'[p].pc # "session"
  BY <1>5 DEF TypeOK, Purge
<1>7. up' \in BOOLEAN
  OBVIOUS
<1>8. faults' \in 0..MaxFaults
  BY ConstantsAssumption DEF ConstantsAssumption, TypeOK
<1> QED
  BY <1>2, <1>3, <1>4, <1>6, <1>7, <1>8 DEF WaitersAdvance

\* The three crashes: in the middle of an await, of the setup, of a purge.
LEMMA CrashKeeps ==
    ASSUME Inv, Crash \/ (\E s \in Slots : SetupCrash(s)) \/ (\E p \in Purgers : PurgeCrash(p))
    PROVE  Inv'
<1> USE DEF Inv
<1>1. LoseMemory /\ faults < MaxFaults /\ UNCHANGED <<tasks, runs, rowid, dropped>>
  BY DEF Crash, SetupCrash, PurgeCrash
<1>2. PendingDrops \subseteq RunIds
  BY DEF PendingDrops
<1>3. sessions' \subseteq RunIds /\ cut' \subseteq RunIds
  <2>1. CASE Crash
    BY <1>2, <2>1 DEF Crash, TypeOK
  <2>2. ASSUME NEW s \in Slots, SetupCrash(s) PROVE sessions' \subseteq RunIds /\ cut' \subseteq RunIds
    <3>1. job[s].run \in RunIds
      BY <2>2 DEF SetupCrash, SlotsHoldRows
    <3> QED
      BY <1>2, <2>2, <3>1 DEF SetupCrash, TypeOK
  <2>3. ASSUME NEW p \in Purgers, PurgeCrash(p) PROVE sessions' \subseteq RunIds /\ cut' \subseteq RunIds
    BY <1>2, <2>3 DEF PurgeCrash, TypeOK
  <2> QED
    BY <2>1, <2>2, <2>3
<1>4. TypeOK' /\ SlotsAdvance /\ WaitersAdvance
  BY <1>1, <1>3, LoseMemoryCalm DEF TypeOK
<1>5. RowsKeepSession
  BY <1>1 DEF RowsKeepSession
<1> QED
  BY <1>1, <1>4, <1>5, CalmKeeps DEF Calm

\* start_worker: interrupted rows end, the reclaim starts.
LEMMA RestartKeeps == ASSUME Inv, Restart PROVE Inv'
<1> USE DEF Inv, Restart
<1>1. runs' \in [RunIds -> Row] /\ RowsKeepSession
  BY DEF TypeOK, RequeueOrphanedRuns, Active, RowsKeepSession, Row, Statuses
<1>2. purge' \in [Purgers -> Purge] /\ WaitersAdvance
  <2> DEFINE z == [pc |-> "loop", bounded |-> FALSE, task |-> "none", run |-> 0, sid |-> 0]
  <2>1. z \in Purge /\ z.pc # "session" /\ z.sid = 0
    BY ConstantsAssumption DEF ConstantsAssumption, Purge, Sids
  <2>2. Reclaim \in Purgers
    BY DEF Purgers
  <2> QED
    BY <2>1, <2>2, PurgeSet
<1>3. TypeOK'
  BY <1>1, <1>2 DEF TypeOK
<1>4. SlotsAdvance
  BY DEF SlotsAdvance
<1> QED
  BY <1>1, <1>2, <1>3, <1>4, CalmKeeps DEF Calm

\* A step that changes no variable.
LEMMA StutterKeeps == ASSUME Inv, UNCHANGED vars PROVE Inv'
<1>1. TypeOK'
  BY DEF Inv, TypeOK, vars
<1>2. Calm
  BY DEF vars, Calm, RowsKeepSession, SlotsAdvance, WaitersAdvance
<1> QED
  BY <1>1, <1>2, CalmKeeps

\* The invariant is inductive: no handler, worker, purge, crash or restart
\* breaks it.
THEOREM Inductive == Inv /\ [Next]_vars => Inv'
<1> SUFFICES ASSUME Inv, [Next]_vars PROVE Inv'
  OBVIOUS
<1>1. CASE UNCHANGED vars
  BY <1>1, StutterKeeps
<1>2. CASE \E t \in Tasks : Enqueue(t)
  BY <1>2, EnqueueKeeps
<1>3. CASE \/ \E q \in Requests, r \in RunIds : ContinueBegin(q, r)
           \/ \E q \in Requests : ContinueCommit(q)
  BY <1>3, ContinueBeginKeeps, ContinueCommitKeeps
<1>4. CASE \E s \in Slots : Claim(s) \/ SlotStep(s)
  BY <1>4, ClaimKeeps, SlotStepKeeps
<1>5. CASE \E s \in Slots, x \in RunIds : PruneSessionRaises(s, x)
  BY <1>5, PruneSessionKeeps
<1>6. CASE \E r \in RunIds : AgentEnds(r) \/ AgentUnwinds(r)
  BY <1>6, AgentStepKeeps
<1>7. CASE \E p \in Deletes, t \in Tasks : DeleteTask(p, t)
  BY <1>7, DeleteTaskKeeps
<1>8. CASE \E p \in Purgers : PurgeStep(p) \/ PurgeSessionRaises(p) \/ PurgeDeadline(p)
  BY <1>8, PurgeMoves, PurgeAwaitKeeps DEF PurgeStep
<1>9. CASE \/ Crash
           \/ \E s \in Slots : SetupCrash(s)
           \/ \E p \in Purgers : PurgeCrash(p)
  BY <1>9, CrashKeeps
<1>10. CASE Restart
  BY <1>10, RestartKeeps
<1> QED
  BY <1>1, <1>2, <1>3, <1>4, <1>5, <1>6, <1>7, <1>8, <1>9, <1>10 DEF Next

\* The inductive invariant holds in every reachable state of the runner.
THEOREM Invariance == Spec => []Inv
BY InitInv, Inductive, PTL DEF Spec

\* Every variable of the runner keeps its type, whatever the number of tasks,
\* worker slots, requests, rows and crashes.
THEOREM TypeCorrect == Spec => []TypeOK
<1>1. Inv => TypeOK
  BY DEF Inv
<1> QED
  BY Invariance, <1>1, PTL

\* A session that prune_runs, purge_runs or the reclaim is about to delete has
\* no other row, except one committed by a continue request in between.
THEOREM TranscriptKept == Spec => []SharedTranscriptKept
<1>1. Inv => SharedTranscriptKept
  BY DEF Inv
<1> QED
  BY Invariance, <1>1, PTL

(***************************************************************************)
(* The rows implement RunLifecycle.                                        *)
(***************************************************************************)
\* finish_run on a row that has left the queue ends a running row and changes
\* no other.
LEMMA EndsOne ==
    ASSUME TypeOK, NEW r \in RunIds, runs[r].status \notin {"none", "queued"},
           runs' = EndRow(r)
    PROVE  [Lifecycle!Next]_Stage
<1>1. CASE runs[r].status = "running"
  <2>1. Lifecycle!Finish(r)
    BY <1>1 DEF EndRow, Exists, TypeOK, Row, Stage, Lifecycle!Finish, Lifecycle!ActiveStages
  <2> QED
    BY <2>1 DEF Lifecycle!Next
<1>2. CASE runs[r].status # "running"
  <2>1. Stage' = Stage
    BY <1>2 DEF EndRow, Exists, TypeOK, Row, Statuses, Stage
  <2> QED
    BY <2>1
<1> QED
  BY <1>1, <1>2

\* prune_runs and purge_runs drop rows that are there.
LEMMA DropsSome ==
    ASSUME TypeOK, NEW D \in SUBSET RunIds, \A r \in D : runs[r].status # "none",
           runs' = DropRows(D)
    PROVE  [Lifecycle!Next]_Stage
<1>1. Lifecycle!Drop(D)
  BY DEF DropRows, TypeOK, Row, Stage, Lifecycle!Drop
<1> QED
  BY <1>1 DEF Lifecycle!Next

\* create_run and create_continue_run add the next row, queued.
LEMMA AddsOne ==
    ASSUME Inv, rowid < MaxRuns, NEW x \in Row, x.status = "queued",
           runs' = [runs EXCEPT ![rowid + 1] = x]
    PROVE  [Lifecycle!Next]_Stage
<1>1. TypeOK /\ RowsAllocated /\ rowid + 1 \in RunIds
  BY NextRow DEF Inv
<1>2. rowid \in Nat /\ \A q \in RunIds : q \in Nat
  BY <1>1, ConstantsAssumption DEF ConstantsAssumption, TypeOK, Sids, RunIds
<1>3. runs[rowid + 1].status = "none"
  BY <1>1, <1>2 DEF RowsAllocated, NoRow
<1>4. \A q \in RunIds : q < rowid + 1 => runs[q].status # "none"
  BY <1>1, <1>2 DEF RowsAllocated
<1>5. Lifecycle!Enqueue(rowid + 1)
  BY <1>1, <1>3, <1>4 DEF TypeOK, Row, Stage, Lifecycle!Enqueue
<1> QED
  BY <1>1, <1>5 DEF Lifecycle!Next

\* claim_run starts the oldest queued row, or fails it at once.
LEMMA ClaimStarts == ASSUME Inv, NEW s \in Slots, Claim(s) PROVE [Lifecycle!Next]_Stage
<1>1. TypeOK
  BY DEF Inv
<1>2. PICK r \in Queued :
        /\ \A q \in Queued : r <= q
        /\ runs' = [runs EXCEPT ![r].status = "running"] \/ runs' = EndRow(r)
  BY DEF Claim
<1>3. r \in RunIds /\ runs[r].status = "queued"
  BY <1>2 DEF Queued
<1>4. Stage[r] = "queued" /\ \A q \in RunIds : Stage[q] = "queued" => r <= q
  BY <1>2, <1>3 DEF Stage, Queued
<1>5. CASE runs' = [runs EXCEPT ![r].status = "running"]
  <2>1. Stage' = [Stage EXCEPT ![r] = "running"]
    BY <1>1, <1>3, <1>5 DEF TypeOK, Row, Stage
  <2> QED
    BY <1>3, <1>4, <2>1 DEF Lifecycle!Next, Lifecycle!Start
<1>6. CASE runs' = EndRow(r)
  <2>1. Stage' = [Stage EXCEPT ![r] = "done"]
    BY <1>1, <1>3, <1>6 DEF TypeOK, Row, Stage, EndRow, Exists
  <2> QED
    BY <1>3, <1>4, <2>1 DEF Lifecycle!Next, Lifecycle!StartAndFail
<1> QED
  BY <1>2, <1>5, <1>6

\* The steps of a slot end the run it holds, prune rows, or keep every stage.
LEMMA SlotStages == ASSUME Inv, NEW s \in Slots, SlotStep(s) PROVE [Lifecycle!Next]_Stage
<1>1. TypeOK
  BY DEF Inv
<1>2. job[s].pc # "idle" => job[s].run \in RunIds /\ runs[job[s].run].status \notin {"none", "queued"}
  BY DEF Inv, SlotsHoldRows
<1>3. CASE FailEarly(s) \/ DriveDone(s) \/ CancelReturns(s)
  <2>1. job[s].pc # "idle" /\ runs' = EndRow(job[s].run)
    BY <1>3 DEF FailEarly, DriveDone, CancelReturns
  <2> QED
    BY <1>1, <1>2, <2>1, EndsOne
<1>4. CASE SetupFresh(s)
  <2>1. job[s].run \in RunIds /\ runs' = Attach(job[s].run)
    BY <1>2, <1>4 DEF SetupFresh
  <2>2. Stage' = Stage
    BY <1>1, <2>1 DEF Attach, TypeOK, Row, Stage
  <2> QED
    BY <2>2
<1>5. CASE Prune(s)
  <2> DEFINE D == PruneRows(runs[job[s].run].task)
  <2>1. runs' = DropRows(D)
    BY <1>5 DEF Prune
  <2>2. D \in SUBSET RunIds /\ \A r \in D : runs[r].status # "none"
    BY DEF PruneRows, RowsOf, Exists
  <2> HIDE DEF D
  <2> QED
    BY <1>1, <2>1, <2>2, DropsSome
<1>6. CASE \/ SetupResume(s) \/ StartRun(s) \/ DriveGivesUp(s)
           \/ \E x \in RunIds : PruneSession(s, x)
  <2>1. runs' = runs
    BY <1>6 DEF SetupResume, StartRun, DriveGivesUp, PruneSession
  <2> QED
    BY <2>1 DEF Stage
<1> QED
  BY <1>3, <1>4, <1>5, <1>6 DEF SlotStep

\* The steps of a purge drop one row or none.
LEMMA PurgeStages ==
    ASSUME Inv, NEW p \in Purgers, PurgeStep(p) \/ PurgeSessionRaises(p) \/ PurgeDeadline(p)
    PROVE  [Lifecycle!Next]_Stage
<1>1. TypeOK /\ RowsAllocated /\ WaitersHoldRows
  BY DEF Inv
<1>2. ASSUME NEW r \in RunIds, runs[r].status # "none", DropRow(r) PROVE [Lifecycle!Next]_Stage
  <2>1. {r} \in SUBSET RunIds /\ runs' = DropRows({r})
    BY <1>2 DEF DropRow
  <2> QED
    BY <1>1, <1>2, <2>1, DropsSome
<1>3. CASE \E r \in RunIds : PurgeRow(p, r)
  <2>1. PICK r \in RunIds : PurgeRow(p, r)
    BY <1>3
  <2>2. runs[r].status # "none" /\ DropRow(r)
    BY <2>1 DEF PurgeRow, Oldest, Remaining, Orphans, RowsOf, Exists
  <2> QED
    BY <1>2, <2>2
<1>4. CASE PurgeSession(p) \/ PurgeSessionRaises(p)
  <2>1. purge[p].run \in 1..rowid /\ DropRow(purge[p].run)
    BY <1>1, <1>4 DEF PurgeSession, PurgeSessionRaises, WaitersHoldRows
  <2>2. purge[p].run \in RunIds /\ runs[purge[p].run].status # "none"
    BY <1>1, <2>1, ConstantsAssumption
    DEF ConstantsAssumption, TypeOK, Sids, RunIds, RowsAllocated
  <2> QED
    BY <1>2, <2>1, <2>2
<1>5. CASE PurgeDone(p) \/ PurgeDeadline(p) \/ \E r \in RunIds : PurgeAwait(p, r)
  <2>1. runs' = runs
    BY <1>5 DEF PurgeDone, PurgeDeadline, PurgeAwait
  <2> QED
    BY <2>1 DEF Stage
<1> QED
  BY <1>3, <1>4, <1>5 DEF PurgeStep

\* Every step of the runner is a step of the lifecycle or changes no stage.
LEMMA NextStages == ASSUME Inv, [Next]_vars PROVE [Lifecycle!Next]_Stage
<1>1. TypeOK
  BY DEF Inv
<1>2. CASE \E t \in Tasks : Enqueue(t)
  <2>1. PICK t \in Tasks : Enqueue(t)
    BY <1>2
  <2> DEFINE x == [status |-> "queued", task |-> t, sid |-> 0, resumed |-> FALSE, late |-> FALSE]
  <2>2. x \in Row /\ x.status = "queued"
    BY ConstantsAssumption DEF ConstantsAssumption, Row, Statuses, Sids
  <2>3. rowid < MaxRuns /\ runs' = [runs EXCEPT ![rowid + 1] = x]
    BY <2>1 DEF Enqueue
  <2> HIDE DEF x
  <2> QED
    BY <2>2, <2>3, AddsOne
<1>3. CASE \E q \in Requests : ContinueCommit(q)
  <2>1. PICK q \in Requests : ContinueCommit(q)
    BY <1>3
  <2>2. PICK t, y, l : /\ t = runs[req[q].parent].task /\ y = req[q].sid /\ l \in BOOLEAN
                       /\ runs' = [runs EXCEPT ![rowid + 1] =
                            [status |-> "queued", task |-> t, sid |-> y, resumed |-> TRUE,
                             late |-> l]]
    BY <2>1 DEF ContinueCommit
  <2>3. req[q].parent \in RunIds
    BY <2>1 DEF ContinueCommit, Inv, WaitersHoldRows
  <2>4. t \in Tasks \cup {"none"} /\ y \in Sids
    BY <1>1, <2>2, <2>3 DEF TypeOK, Row, Request
  <2> DEFINE x == [status |-> "queued", task |-> t, sid |-> y, resumed |-> TRUE, late |-> l]
  <2>5. x \in Row /\ x.status = "queued"
    BY <2>2, <2>4 DEF Row, Statuses
  <2>6. rowid < MaxRuns /\ runs' = [runs EXCEPT ![rowid + 1] = x]
    BY <2>1, <2>2 DEF ContinueCommit
  <2> HIDE DEF x
  <2> QED
    BY <2>5, <2>6, AddsOne
<1>4. CASE \E s \in Slots : Claim(s) \/ SlotStep(s)
  BY <1>4, ClaimStarts, SlotStages
<1>5. CASE \E p \in Purgers : PurgeStep(p) \/ PurgeSessionRaises(p) \/ PurgeDeadline(p)
  BY <1>5, PurgeStages
<1>6. CASE Restart
  <2>1. Lifecycle!Interrupt
    BY <1>1, <1>6 DEF Restart, RequeueOrphanedRuns, Active, TypeOK, Row, Stage,
       Lifecycle!Interrupt, Lifecycle!ActiveStages
  <2> QED
    BY <2>1 DEF Lifecycle!Next
<1>7. CASE \/ \E q \in Requests, r \in RunIds : ContinueBegin(q, r)
           \/ \E s \in Slots, x \in RunIds : PruneSessionRaises(s, x)
           \/ \E r \in RunIds : AgentEnds(r) \/ AgentUnwinds(r)
           \/ \E p \in Deletes, t \in Tasks : DeleteTask(p, t)
           \/ Crash
           \/ \E s \in Slots : SetupCrash(s)
           \/ \E p \in Purgers : PurgeCrash(p)
           \/ UNCHANGED vars
  <2>1. runs' = runs
    BY <1>7 DEF ContinueBegin, PruneSessionRaises, AgentEnds, AgentUnwinds, DeleteTask, Crash,
       SetupCrash, PurgeCrash, vars
  <2> QED
    BY <2>1 DEF Stage
<1> QED
  BY <1>2, <1>3, <1>4, <1>5, <1>6, <1>7 DEF Next

\* The runner implements the lifecycle a reader of task_runs may rely on: rows
\* are queued in order, claimed oldest first, finished once and never revived,
\* through continuations, retention, deletion, crashes and restarts.
THEOREM ImplementsLifecycle == Spec => RunsFollowLifecycle
<1>1. Init => Lifecycle!Init
  BY DEF Init, Stage, NoRow, Lifecycle!Init
<1>2. Inv /\ [Next]_vars => [Lifecycle!Next]_Stage
  BY NextStages
<1> QED
  BY <1>1, <1>2, Invariance, PTL DEF Spec, RunsFollowLifecycle, Lifecycle!Spec

(***************************************************************************)
(* No session and no row is out of everybody's reach.                      *)
(***************************************************************************)
\* Slots go on with the rows they hold, and say what they do to one in setup.
SlotsGoOn ==
    /\ \A u \in Slots :
          /\ job'[u].pc # "idle" => job[u].pc # "idle" /\ job'[u].run = job[u].run
          /\ job'[u].pc = "creds" =>
                /\ job[u].pc = "creds"
                /\ \/ runs'[job[u].run].status = runs[job[u].run].status
                   \/ runs'[job[u].run].status = "gone" /\ job[u].run \in dropped'
          /\ job'[u].pc # "prune" => job'[u].drop = {}
    /\ up' \/ \A u \in Slots : job'[u].pc = "idle"
    /\ dropped \subseteq dropped'

\* Slots that go on still own their rows.
LEMMA SlotsGoOnKeeps == ASSUME Inv, SlotsOwnRows, SlotsGoOn PROVE SlotsOwnRows'
BY DEF SlotsOwnRows, SlotsGoOn

\* Sessions stay explained if none is created, or loses its last row or the slot
\* that is to delete it, without a trace.
SessionsExplained ==
    /\ dropped \subseteq dropped' /\ cut \subseteq cut'
    /\ \A x \in sessions' :
          /\ x \notin sessions => x \in Pointed' \cup cut' \cup dropped'
          /\ x \in PendingDrops => x \in PendingDrops' \cup cut'
          /\ x \in Pointed => x \in Pointed' \cup PendingDrops' \cup cut' \cup dropped'

\* Then every session is still explained.
LEMMA ExplainedKeeps == ASSUME OrphansExplained, SessionsExplained PROVE OrphansExplained'
BY DEF OrphansExplained, SessionsExplained

\* Orphan rows stay attended if a new one is, and a purge leaves none when it
\* ends.
PurgesGoOn ==
    /\ up' => up
    /\ \A r \in RunIds : r \in Orphans' =>
          \/ runs'[r].late
          \/ \E p \in Deletes : purge'[p].pc # "off" /\ purge'[p].task = runs'[r].task
          \/ r \in Orphans /\ runs'[r].task = runs[r].task /\ runs'[r].late = runs[r].late
    /\ \A p \in Purgers : purge[p].pc # "off" =>
          \/ purge'[p].pc # "off" /\ purge'[p].task = purge[p].task
          \/ \A r \in RunIds : r \in Orphans' => r \notin Remaining(p)

\* Then every orphan row still has someone to clear it.
LEMMA PurgesGoOnKeeps == ASSUME Inv, OrphanRowsAttended, PurgesGoOn PROVE OrphanRowsAttended'
<1> SUFFICES ASSUME up', NEW r \in Orphans', ~runs'[r].late
             PROVE  \/ purge'[Reclaim].pc # "off"
                    \/ \E p \in Deletes : purge'[p].pc # "off" /\ purge'[p].task = runs'[r].task
  BY DEF OrphanRowsAttended
<1>1. CASE \E p \in Deletes : purge'[p].pc # "off" /\ purge'[p].task = runs'[r].task
  BY <1>1
<1>2. CASE r \in Orphans /\ runs'[r].task = runs[r].task /\ runs'[r].late = runs[r].late
  <2>1. CASE purge[Reclaim].pc # "off"
    <3>1. Reclaim \in Purgers /\ r \in Remaining(Reclaim) /\ r \in RunIds
      BY <1>2 DEF Purgers, Remaining, Orphans
    <3> QED
      BY <2>1, <3>1 DEF PurgesGoOn
  <2>2. ASSUME NEW p \in Deletes, purge[p].pc # "off", purge[p].task = runs[r].task
        PROVE  purge'[p].pc # "off" /\ purge'[p].task = runs'[r].task
    <3>1. p \in Purgers /\ p # Reclaim
      BY ConstantsAssumption DEF ConstantsAssumption, Purgers
    <3>2. r \in Remaining(p) /\ r \in RunIds
      BY <1>2, <2>2, <3>1 DEF Remaining, RowsOf, Orphans
    <3> QED
      BY <1>2, <2>2, <3>1, <3>2 DEF PurgesGoOn
  <2> QED
    BY <1>2, <2>1, <2>2 DEF OrphanRowsAttended, PurgesGoOn
<1> QED
  BY <1>1, <1>2 DEF PurgesGoOn, Orphans

\* The purges a step leaves alone.
LEMMA PurgesAlone ==
    ASSUME UNCHANGED purge, PurgesKnowRows, Inv,
           \A r \in RunIds : runs[r].sid # 0 => runs'[r].sid = runs[r].sid
    PROVE  PurgesKnowRows'
BY DEF PurgesKnowRows, Inv, WaitersHoldRows, TypeOK, Purge, RunIds, Sids

\* A step that keeps every row but for its status, and adds no task row's worth
\* of orphans, is fine with the purges if it is fine with the tasks.
LEMMA RowsOnly ==
    ASSUME UNCHANGED <<up, tasks, purge>>,
           \A r \in RunIds : /\ runs'[r].task = runs[r].task /\ runs'[r].late = runs[r].late
                             /\ Exists(r)' => Exists(r)
    PROVE  PurgesGoOn
BY DEF PurgesGoOn, Orphans, Exists

\* finish_run keeps a row, whatever else it says, and reaches no other.
LEMMA EndRowFields ==
    ASSUME TypeOK, NEW r \in RunIds, runs' = EndRow(r)
    PROVE  /\ \A q \in RunIds : /\ runs'[q].task = runs[q].task /\ runs'[q].late = runs[q].late
                                /\ runs'[q].sid = runs[q].sid
                                /\ Exists(q)' <=> Exists(q)
           /\ \A q \in RunIds \ {r} : runs'[q] = runs[q]
BY DEF TypeOK, EndRow, Exists, Row

\* The deletions of rows: none comes back, and only those dropped go.
LEMMA DropRowsFields ==
    ASSUME TypeOK, NEW D, runs' = DropRows(D)
    PROVE  \A q \in RunIds : /\ runs'[q].task = runs[q].task /\ runs'[q].late = runs[q].late
                             /\ runs'[q].sid = runs[q].sid
                             /\ Exists(q)' <=> Exists(q) /\ q \notin D
                             /\ q \notin D => runs'[q] = runs[q]
                             /\ q \in D => runs'[q].status = "gone"
BY DEF TypeOK, DropRows, Exists, Row

\* A step after which the same sessions are pointed at, by the same rows.
LEMMA SamePointed ==
    ASSUME \A q \in RunIds : runs'[q].sid = runs[q].sid /\ (Exists(q)' <=> Exists(q))
    PROVE  Pointed' = Pointed
BY DEF Pointed

\* The steps of a slot that only move it on keep what makes up OrphanInv.
LEMMA SlotMovesOrphan ==
    ASSUME Inv, OrphanInv, up, NEW s \in Slots, job[s].pc \notin {"idle", "prune"},
           NEW c \in {"grant", "drive", "cancel", "notify"},
           job' = [job EXCEPT ![s].pc = c],
           runs' = runs \/ runs' = EndRow(job[s].run),
           UNCHANGED <<up, tasks, rowid, sessions, req, purge, faults, dropped, cut>>
    PROVE  OrphanInv'
<1> USE DEF OrphanInv
<1>1. TypeOK /\ job[s].run \in RunIds
  BY DEF Inv, SlotsHoldRows
<1>2. /\ \A q \in RunIds : /\ runs'[q].task = runs[q].task /\ runs'[q].late = runs[q].late
                           /\ runs'[q].sid = runs[q].sid /\ (Exists(q)' <=> Exists(q))
      /\ \A q \in RunIds \ {job[s].run} : runs'[q] = runs[q]
  BY <1>1, EndRowFields DEF Exists
<1>3. /\ job'[s].pc = c /\ job'[s].run = job[s].run /\ job'[s].drop = job[s].drop
      /\ \A u \in Slots \ {s} : job'[u] = job[u]
  BY <1>1 DEF TypeOK, Job
<1>4. SlotsGoOn
  <2>1. \A u \in Slots \ {s} : job[u].pc = "creds" => job[u].run \in RunIds \ {job[s].run}
    BY DEF SlotsOwnRows, Inv, SlotsHoldRows
  <2> QED
    BY <1>2, <1>3, <2>1 DEF SlotsGoOn, SlotsOwnRows
<1>5. SlotsOwnRows'
  BY <1>4, SlotsGoOnKeeps
<1>6. PurgesKnowRows'
  BY <1>2, PurgesAlone
<1>7. Pointed' = Pointed /\ PendingDrops' = PendingDrops
  BY <1>2, <1>3, SamePointed DEF PendingDrops
<1>8. OrphansExplained'
  BY <1>7, ExplainedKeeps DEF SessionsExplained, NothingOrphaned
<1>9. OrphanRowsAttended'
  BY <1>2, RowsOnly, PurgesGoOnKeeps DEF NothingOrphaned
<1> QED
  BY <1>5, <1>6, <1>8, <1>9 DEF NothingOrphaned

\* session_factory and attach_session: the new session is pointed at by its row,
\* or the row was dropped while its run was going.
LEMMA SetupFreshOrphan ==
    ASSUME Inv, OrphanInv, NEW s \in Slots, SetupFresh(s) PROVE OrphanInv'
<1> USE DEF OrphanInv
<1>1. PICK r \in RunIds : r = job[s].run /\ runs[r].sid = 0 /\ job[s].pc = "creds"
  BY DEF SetupFresh, Inv, SlotsHoldRows, FreshHasNone
<1>2. /\ runs' = Attach(r) /\ sessions' = sessions \cup {r}
      /\ job' = [job EXCEPT ![s] = [@ EXCEPT !.pc = "grant", !.sid = r]]
      /\ up /\ UNCHANGED <<up, tasks, rowid, agent, req, purge, faults, dropped, cut>>
  BY <1>1 DEF SetupFresh
<1>3. \A q \in RunIds : /\ runs'[q].task = runs[q].task /\ runs'[q].late = runs[q].late
                        /\ runs'[q].status = runs[q].status /\ (Exists(q)' <=> Exists(q))
                        /\ q # r => runs'[q].sid = runs[q].sid
                        /\ q = r /\ Exists(r) => runs'[q].sid = r
  BY <1>2 DEF Inv, TypeOK, Row, Attach, Exists
<1>4. /\ job'[s].pc = "grant" /\ job'[s].run = r /\ job'[s].drop = job[s].drop
      /\ \A u \in Slots \ {s} : job'[u] = job[u]
  BY <1>1, <1>2 DEF Inv, TypeOK, Job
<1>5. SlotsOwnRows'
  <2>1. \A u \in Slots : job[u].pc = "creds" => job[u].run \in RunIds
    BY DEF Inv, SlotsHoldRows
  <2>2. SlotsGoOn
    BY <1>1, <1>2, <1>3, <1>4, <2>1 DEF SlotsGoOn, SlotsOwnRows
  <2> QED
    BY <2>2, SlotsGoOnKeeps
<1>6. PurgesKnowRows'
  <2>1. \A q \in RunIds : runs[q].sid # 0 => runs'[q].sid = runs[q].sid
    BY <1>1, <1>3
  <2> QED
    BY <1>2, <2>1, PurgesAlone
<1>7. OrphansExplained'
  <2>1. PendingDrops' = PendingDrops
    BY <1>4 DEF PendingDrops
  <2>2. \A x \in RunIds : x \in Pointed => x \in Pointed'
    <3> SUFFICES ASSUME NEW x \in RunIds, NEW q \in RunIds, Exists(q), runs[q].sid = x
                 PROVE  \E z \in RunIds : Exists(z)' /\ runs'[z].sid = x
      BY DEF Pointed
    <3>1. q # r
      BY <1>1 DEF RunIds
    <3> QED
      BY <1>3, <3>1
  <2>3. r \in Pointed' \cup dropped'
    <3>1. CASE Exists(r)
      BY <1>3, <3>1 DEF Pointed
    <3>2. CASE ~Exists(r)
      BY <1>1, <1>2, <3>2 DEF SlotsOwnRows, Exists
    <3> QED
      BY <3>1, <3>2
  <2>4. \A x \in sessions' : x \in RunIds
    BY <1>2 DEF Inv, TypeOK
  <2> QED
    BY <1>2, <2>1, <2>2, <2>3, <2>4, ExplainedKeeps DEF SessionsExplained, NothingOrphaned
<1>8. OrphanRowsAttended'
  BY <1>2, <1>3, RowsOnly, PurgesGoOnKeeps DEF NothingOrphaned
<1> QED
  BY <1>5, <1>6, <1>7, <1>8 DEF NothingOrphaned

\* prune_runs: a session whose last row goes is in the slot's list.
LEMMA PruneOrphan == ASSUME Inv, OrphanInv, NEW s \in Slots, Prune(s) PROVE OrphanInv'
<1> DEFINE t == runs[job[s].run].task
           D == PruneRows(t)
           X == PruneSessions(t)
<1> USE DEF OrphanInv
<1>1. /\ runs' = DropRows(D)
      /\ dropped' = dropped \cup {r \in D : runs[r].status \in Active}
      /\ job' = [job EXCEPT ![s] = IF X = {} THEN NoJob
                                   ELSE [@ EXCEPT !.pc = "prune", !.drop = X]]
      /\ job[s].pc = "notify" /\ up
      /\ UNCHANGED <<up, tasks, rowid, sessions, agent, req, purge, faults, cut>>
  BY DEF Prune
<1>2. D \subseteq RunIds /\ \A r \in D : Exists(r)
  BY DEF PruneRows, RowsOf
<1>3. \A r \in D : runs[r].sid \in RunIds =>
         runs[r].sid \in X \/ \E q \in RunIds \ D : Exists(q) /\ runs[q].sid = runs[r].sid
  BY DEF PruneSessions, RunIds
<1> HIDE DEF D, X, t
<1>4. \A q \in RunIds : /\ runs'[q].task = runs[q].task /\ runs'[q].late = runs[q].late
                        /\ runs'[q].sid = runs[q].sid /\ (Exists(q)' <=> Exists(q) /\ q \notin D)
                        /\ q \notin D => runs'[q] = runs[q]
                        /\ q \in D => runs'[q].status = "gone"
  BY <1>1, DropRowsFields DEF Inv
<1>5. /\ job'[s].pc \in {"idle", "prune"} /\ (job'[s].pc = "prune" => job'[s].run = job[s].run)
      /\ job'[s].drop = X /\ (X # {} => job'[s].pc = "prune")
      /\ \A u \in Slots \ {s} : job'[u] = job[u]
  <2>1. CASE X = {}
    BY <1>1, <2>1 DEF Inv, TypeOK, NoJob
  <2>2. CASE X # {}
    BY <1>1, <2>2 DEF Inv, TypeOK, Job
  <2> QED
    BY <2>1, <2>2
<1>6. SlotsOwnRows'
  <2>1. ASSUME NEW u \in Slots, job'[u].pc = "creds"
        PROVE  /\ job[u].pc = "creds"
               /\ \/ runs'[job[u].run].status = runs[job[u].run].status
                  \/ runs'[job[u].run].status = "gone" /\ job[u].run \in dropped'
    <3>1. u # s /\ job[u].pc = "creds" /\ job[u].run \in RunIds
      BY <1>5, <2>1 DEF Inv, SlotsHoldRows
    <3>2. CASE job[u].run \notin D
      BY <1>4, <3>1, <3>2
    <3>3. CASE job[u].run \in D
      <4>1. runs[job[u].run].status = "running"
        BY <1>2, <3>1, <3>3 DEF SlotsOwnRows, Exists
      <4> QED
        BY <1>1, <1>4, <3>1, <3>3, <4>1 DEF Active
    <3> QED
      BY <3>1, <3>2, <3>3
  <2>2. SlotsGoOn
    BY <1>1, <1>5, <2>1 DEF SlotsGoOn, SlotsOwnRows
  <2> QED
    BY <2>2, SlotsGoOnKeeps
<1>7. PurgesKnowRows'
  BY <1>1, <1>4, PurgesAlone
<1>8. OrphansExplained'
  <2>1. job[s].drop = {}
    BY <1>1 DEF SlotsOwnRows
  <2>2. \A x \in RunIds : x \in PendingDrops => x \in PendingDrops'
    BY <1>5, <2>1 DEF PendingDrops
  <2>3. \A x \in RunIds : x \in Pointed => x \in Pointed' \cup PendingDrops'
    <3> SUFFICES ASSUME NEW x \in RunIds, NEW q \in RunIds, Exists(q), runs[q].sid = x
                 PROVE  x \in Pointed' \cup PendingDrops'
      BY DEF Pointed
    <3>1. CASE q \notin D
      BY <1>4, <3>1 DEF Pointed
    <3>2. CASE q \in D /\ x \in X
      BY <1>5, <3>2 DEF PendingDrops
    <3>3. CASE q \in D /\ x \notin X
      <4>1. PICK z \in RunIds \ D : Exists(z) /\ runs[z].sid = x
        BY <1>3, <3>3
      <4> QED
        BY <1>4, <4>1 DEF Pointed
    <3> QED
      BY <3>1, <3>2, <3>3
  <2>4. sessions \subseteq RunIds
    BY DEF Inv, TypeOK
  <2> QED
    BY <1>1, <2>2, <2>3, <2>4, ExplainedKeeps DEF SessionsExplained, NothingOrphaned
<1>9. OrphanRowsAttended'
  BY <1>1, <1>4, RowsOnly, PurgesGoOnKeeps DEF NothingOrphaned
<1> QED
  BY <1>6, <1>7, <1>8, <1>9 DEF NothingOrphaned

\* A pruned session is deleted, or its deletion raised and it is cut.
LEMMA PruneSessionOrphan ==
    ASSUME Inv, OrphanInv, NEW s \in Slots, NEW x \in RunIds,
           PruneSession(s, x) \/ PruneSessionRaises(s, x)
    PROVE  OrphanInv'
<1> USE DEF OrphanInv
<1>1. /\ job[s].pc = "prune" /\ job' = [job EXCEPT ![s] = DropJob(s, x)] /\ up
      /\ UNCHANGED <<up, tasks, runs, rowid, agent, req, purge, dropped>>
      /\ \/ sessions' = sessions \ {x} /\ cut' = cut
         \/ sessions' = sessions /\ cut' = cut \cup {x}
  BY DEF PruneSession, PruneSessionRaises
<1>2. /\ job'[s].pc \in {"idle", "prune"} /\ (job'[s].pc = "prune" => job'[s].run = job[s].run)
      /\ job'[s].drop = job[s].drop \ {x} /\ (job'[s].pc # "prune" => job'[s].drop = {})
      /\ \A u \in Slots \ {s} : job'[u] = job[u]
  <2>1. CASE job[s].drop = {x}
    BY <1>1, <2>1 DEF Inv, TypeOK, NoJob, DropJob
  <2>2. CASE job[s].drop # {x}
    BY <1>1, <2>2 DEF Inv, TypeOK, Job, DropJob
  <2> QED
    BY <2>1, <2>2
<1>3. SlotsGoOn
  BY <1>1, <1>2 DEF SlotsGoOn, SlotsOwnRows
<1>4. SlotsOwnRows'
  BY <1>3, SlotsGoOnKeeps
<1>5. PurgesKnowRows'
  BY <1>1, PurgesAlone
<1>6. OrphansExplained'
  <2>1. \A y \in RunIds : y \in PendingDrops => y = x \/ y \in PendingDrops'
    BY <1>2 DEF PendingDrops
  <2>2. Pointed' = Pointed
    BY <1>1 DEF Pointed, Exists
  <2>3. sessions \subseteq RunIds
    BY DEF Inv, TypeOK
  <2> QED
    BY <1>1, <2>1, <2>2, <2>3, ExplainedKeeps DEF SessionsExplained, NothingOrphaned
<1>7. OrphanRowsAttended'
  BY <1>1, RowsOnly, PurgesGoOnKeeps DEF NothingOrphaned, Exists
<1> QED
  BY <1>4, <1>5, <1>6, <1>7 DEF NothingOrphaned

\* claim_run: a queued row is in no slot, so it gets the only one.
LEMMA ClaimOrphan == ASSUME Inv, OrphanInv, NEW s \in Slots, Claim(s) PROVE OrphanInv'
<1> USE DEF OrphanInv
<1>1. PICK r \in RunIds :
        /\ runs[r].status = "queued"
        /\ \/ /\ runs' = [runs EXCEPT ![r].status = "running"]
              /\ job' = [job EXCEPT ![s] = [pc |-> "creds", run |-> r,
                                            sid |-> runs[r].sid, drop |-> {}]]
           \/ /\ runs' = [runs EXCEPT ![r].status = "ended"]
              /\ job' = [job EXCEPT ![s] = [pc |-> "notify", run |-> r, sid |-> 0,
                                            drop |-> {}]]
  BY DEF Claim, Queued, EndRow, Exists
<1>2. up /\ job[s].pc = "idle" /\ UNCHANGED <<up, tasks, rowid, sessions, agent, req, purge, faults, dropped, cut>>
  BY DEF Claim
<1>3. /\ \A q \in RunIds : /\ runs'[q].task = runs[q].task /\ runs'[q].late = runs[q].late
                           /\ runs'[q].sid = runs[q].sid /\ (Exists(q)' <=> Exists(q))
                           /\ q # r => runs'[q] = runs[q]
  <2>1. PICK z \in {"running", "ended"} : runs' = [runs EXCEPT ![r].status = z]
    BY <1>1
  <2> QED
    BY <1>1, <2>1 DEF Inv, TypeOK, Row, Exists
<1>4. /\ job'[s].run = r /\ job'[s].drop = {}
      /\ job'[s].pc = "creds" => runs'[r].status = "running"
      /\ \A u \in Slots \ {s} : job'[u] = job[u]
  <2>1. CASE /\ runs' = [runs EXCEPT ![r].status = "running"]
             /\ job' = [job EXCEPT ![s] = [pc |-> "creds", run |-> r,
                                           sid |-> runs[r].sid, drop |-> {}]]
    BY <2>1 DEF Inv, TypeOK, Row
  <2>2. CASE job' = [job EXCEPT ![s] = [pc |-> "notify", run |-> r, sid |-> 0, drop |-> {}]]
    BY <2>2 DEF Inv, TypeOK
  <2> QED
    BY <1>1, <2>1, <2>2
<1>5. \A u \in Slots \ {s} : job[u].pc # "idle" => job[u].run \in RunIds \ {r}
  BY <1>1 DEF Inv, SlotsHoldRows
<1>6. SlotsOwnRows'
  BY <1>2, <1>3, <1>4, <1>5 DEF SlotsOwnRows
<1>7. PurgesKnowRows'
  BY <1>2, <1>3, PurgesAlone
<1>8. OrphansExplained'
  <2>1. Pointed' = Pointed
    BY <1>3, SamePointed
  <2>2. job[s].drop = {}
    BY <1>2 DEF SlotsOwnRows
  <2>3. PendingDrops' = PendingDrops
    BY <1>4, <2>2 DEF PendingDrops
  <2> QED
    BY <1>2, <2>1, <2>3, ExplainedKeeps DEF SessionsExplained, NothingOrphaned
<1>9. OrphanRowsAttended'
  BY <1>2, <1>3, RowsOnly, PurgesGoOnKeeps DEF NothingOrphaned
<1> QED
  BY <1>6, <1>7, <1>8, <1>9 DEF NothingOrphaned

\* create_run and create_continue_run: the new row is of a task that is there,
\* or it is marked late.
LEMMA AddOrphan ==
    ASSUME Inv, OrphanInv, up, rowid < MaxRuns, NEW x, runs' = [runs EXCEPT ![rowid + 1] = x],
           x.task \in tasks \/ x.late,
           UNCHANGED <<up, tasks, sessions, job, purge, dropped, cut>>
    PROVE  OrphanInv'
<1> USE DEF OrphanInv
<1>1. PICK n \in RunIds : n = rowid + 1 /\ rowid \in Nat
  BY NextRow DEF Inv, TypeOK, Sids
<1>2. runs'[n] = x /\ runs[n] = NoRow /\ \A q \in RunIds \ {n} : runs'[q] = runs[q]
  BY <1>1 DEF Inv, TypeOK, RowsAllocated
<1>3. \A s \in Slots : job[s].pc # "idle" => job[s].run \in RunIds \ {n}
  BY <1>2 DEF Inv, SlotsHoldRows, NoRow
<1>4. \A p \in Purgers : purge[p].pc = "session" => purge[p].run \in RunIds \ {n}
  BY <1>1, ConstantsAssumption
  DEF Inv, WaitersHoldRows, TypeOK, ConstantsAssumption, RunIds, Sids
<1>5. SlotsOwnRows'
  BY <1>2, <1>3 DEF SlotsOwnRows
<1>6. PurgesKnowRows'
  BY <1>2, <1>4 DEF PurgesKnowRows
<1>7. OrphansExplained'
  <2>1. PendingDrops' = PendingDrops
    BY DEF PendingDrops
  <2>2. ASSUME NEW y \in Pointed PROVE y \in Pointed'
    <3>1. PICK q \in RunIds : Exists(q) /\ runs[q].sid = y
      BY DEF Pointed
    <3>2. runs'[q] = runs[q]
      BY <1>2, <3>1 DEF Exists, NoRow
    <3> QED
      BY <3>1, <3>2 DEF Pointed, Exists
  <2> QED
    BY <2>1, <2>2, ExplainedKeeps DEF SessionsExplained, NothingOrphaned
<1>8. OrphanRowsAttended'
  <2>1. \A q \in RunIds : q \in Orphans' => runs'[q].late \/ (q \in Orphans /\ runs'[q] = runs[q])
    BY <1>2 DEF Orphans, Exists
  <2>2. PurgesGoOn
    BY <2>1 DEF PurgesGoOn
  <2> QED
    BY <2>2, PurgesGoOnKeeps DEF NothingOrphaned
<1> QED
  BY <1>5, <1>6, <1>7, <1>8 DEF NothingOrphaned

\* Steps that touch only requests and agent tasks.
LEMMA AsideOrphan ==
    ASSUME Inv, OrphanInv, UNCHANGED <<up, tasks, runs, sessions, job, purge, dropped, cut>>
    PROVE  OrphanInv'
<1>1. UNCHANGED <<Pointed, PendingDrops, Orphans>>
  BY DEF Pointed, PendingDrops, Orphans, Exists
<1>2. SlotsOwnRows' /\ PurgesKnowRows'
  BY DEF OrphanInv, SlotsOwnRows, PurgesKnowRows
<1>3. OrphansExplained' /\ OrphanRowsAttended'
  BY <1>1 DEF OrphanInv, NothingOrphaned, OrphansExplained, OrphanRowsAttended
<1> QED
  BY <1>2, <1>3 DEF OrphanInv, NothingOrphaned

\* A row is deleted by a purge or with its session: another row still has the
\* session, or the session goes too, or it is cut.
LEMMA DropRowOrphan ==
    ASSUME Inv, OrphanInv, NEW r \in RunIds, DropRow(r),
           cut \subseteq cut', sessions' \subseteq sessions,
           \/ runs[r].sid = 0 \/ runs[r].sid \notin sessions' \/ runs[r].sid \in cut'
           \/ Referenced(runs[r].sid, r),
           UNCHANGED <<up, tasks, job>>,
           \A p \in Purgers : /\ purge'[p].pc = "session" => purge'[p] = purge[p]
                              /\ purge[p].pc # "off" => purge'[p].pc # "off"
                              /\ purge'[p].task = purge[p].task
                              /\ purge'[p].bounded = purge[p].bounded
    PROVE  OrphanInv'
<1> USE DEF OrphanInv
<1>1. /\ runs' = DropRows({r})
      /\ dropped' = IF runs[r].status \in Active THEN dropped \cup {r} ELSE dropped
  BY DEF DropRow
<1>2. /\ \A q \in RunIds : /\ runs'[q].task = runs[q].task /\ runs'[q].late = runs[q].late
                           /\ runs'[q].sid = runs[q].sid /\ (Exists(q)' <=> Exists(q) /\ q # r)
                           /\ q # r => runs'[q] = runs[q]
      /\ runs'[r].status = "gone"
  <2> DEFINE D == {r}
  <2>1. TypeOK /\ runs' = DropRows(D) /\ r \in D /\ \A q : q \in D <=> q = r
    BY <1>1 DEF Inv
  <2> HIDE DEF D
  <2> QED
    BY <2>1, DropRowsFields
<1>3. SlotsOwnRows'
  <2>1. ASSUME NEW u \in Slots, job[u].pc = "creds"
        PROVE  \/ runs'[job[u].run].status = runs[job[u].run].status
               \/ runs'[job[u].run].status = "gone" /\ job[u].run \in dropped'
    <3>1. job[u].run \in RunIds
      BY <2>1 DEF Inv, SlotsHoldRows
    <3>2. CASE job[u].run # r
      BY <1>2, <3>1, <3>2
    <3>3. CASE job[u].run = r
      BY <1>1, <1>2, <2>1, <3>3 DEF SlotsOwnRows, Active
    <3> QED
      BY <3>2, <3>3
  <2>2. dropped \subseteq dropped'
    BY <1>1
  <2>3. SlotsGoOn
    BY <2>1, <2>2 DEF SlotsGoOn, SlotsOwnRows
  <2> QED
    BY <2>3, SlotsGoOnKeeps
<1>4. PurgesKnowRows'
  <2>1. \A p \in Purgers : purge[p].pc = "session" => purge[p].run \in RunIds
    BY ConstantsAssumption DEF Inv, WaitersHoldRows, TypeOK, ConstantsAssumption, RunIds, Sids
  <2>2. Reclaim \in Purgers
    BY DEF Purgers
  <2> QED
    BY <1>2, <2>1, <2>2 DEF PurgesKnowRows
<1>5. OrphansExplained'
  <2>1. PendingDrops' = PendingDrops /\ sessions \subseteq RunIds
    BY DEF PendingDrops, Inv, TypeOK
  <2>2. ASSUME NEW x \in sessions', x \in Pointed PROVE x \in Pointed' \cup cut'
    <3>1. PICK q \in RunIds : Exists(q) /\ runs[q].sid = x
      BY <2>2 DEF Pointed
    <3>2. CASE q # r
      BY <1>2, <3>1, <3>2 DEF Pointed
    <3>3. CASE q = r /\ Referenced(x, r)
      <4>1. PICK z \in RunIds : z # r /\ Exists(z) /\ runs[z].sid = x
        BY <3>3 DEF Referenced
      <4> QED
        BY <1>2, <4>1 DEF Pointed
    <3>4. CASE q = r /\ ~Referenced(x, r)
      BY <2>1, <2>2, <3>1, <3>4 DEF RunIds
    <3> QED
      BY <3>2, <3>3, <3>4
  <2>3. dropped \subseteq dropped'
    BY <1>1
  <2> QED
    BY <2>1, <2>2, <2>3, ExplainedKeeps DEF SessionsExplained, NothingOrphaned
<1>6. OrphanRowsAttended'
  <2>1. PurgesGoOn
    BY <1>2 DEF PurgesGoOn, Orphans
  <2> QED
    BY <2>1, PurgesGoOnKeeps DEF NothingOrphaned
<1> QED
  BY <1>3, <1>4, <1>5, <1>6 DEF NothingOrphaned

\* The steps of a purge that keep every row.
LEMMA PurgeAdvanceOrphan ==
    ASSUME Inv, OrphanInv, NEW p \in Purgers,
           PurgeDone(p) \/ PurgeDeadline(p) \/ \E r \in RunIds : PurgeAwait(p, r)
    PROVE  OrphanInv'
<1> USE DEF OrphanInv
<1>1. UNCHANGED <<up, runs, sessions, job, dropped, cut>> /\ up
  BY DEF PurgeDone, PurgeDeadline, PurgeAwait
<1>2. SlotsOwnRows'
  BY <1>1 DEF SlotsOwnRows
<1>3. UNCHANGED <<Pointed, PendingDrops>> /\ \A r \in RunIds : Exists(r)' <=> Exists(r)
  BY <1>1 DEF Pointed, PendingDrops, Exists
<1>4. OrphansExplained'
  BY <1>1, <1>3 DEF OrphansExplained, NothingOrphaned
<1>5. Reclaim \in Purgers /\ purge \in [Purgers -> Purge]
  BY DEF Purgers, Inv, TypeOK
<1>6. PurgesKnowRows' /\ PurgesGoOn
  <2>1. CASE PurgeDone(p)
    <3>1. /\ purge' = [purge EXCEPT ![p] = Finished(p)] /\ tasks' = tasks \ {purge[p].task}
          /\ Remaining(p) = {}
      BY <2>1 DEF PurgeDone
    <3>2. Finished(p).pc = "off" /\ Finished(p).task = purge[p].task /\ Finished(p).bounded = purge[p].bounded
      BY DEF Finished, Progress
    <3>3. PurgesKnowRows'
      BY <1>1, <1>5, <3>1, <3>2 DEF PurgesKnowRows
    <3>4. ASSUME NEW r \in RunIds, r \in Orphans' PROVE r \in Orphans
      <4>1. CASE p = Reclaim
        <5>1. purge[p].task \notin tasks
          BY <4>1, ConstantsAssumption DEF PurgesKnowRows, ConstantsAssumption, Inv, TypeOK
        <5> QED
          BY <1>1, <1>3, <3>1, <3>4, <5>1 DEF Orphans
      <4>2. CASE p # Reclaim
        <5>1. runs[r].task # purge[p].task \/ ~Exists(r)
          BY <3>1, <4>2 DEF Remaining, RowsOf
        <5> QED
          BY <1>1, <1>3, <3>1, <3>4, <5>1 DEF Orphans
      <4> QED
        BY <4>1, <4>2
    <3>5. PurgesGoOn
      BY <1>1, <1>5, <3>1, <3>2, <3>4 DEF PurgesGoOn
    <3> QED
      BY <3>3, <3>5
  <2>2. CASE PurgeDeadline(p)
    <3> DEFINE z == [pc |-> "loop", bounded |-> FALSE, task |-> purge[p].task, run |-> 0, sid |-> 0]
    <3>1. /\ purge' = [purge EXCEPT ![p] = z] /\ tasks' = tasks \ {purge[p].task}
          /\ purge[p].bounded /\ purge[p].pc # "off"
      BY <2>2 DEF PurgeDeadline
    <3>2. z.pc = "loop" /\ z.task = purge[p].task /\ ~z.bounded
      OBVIOUS
    <3> HIDE DEF z
    <3>3. p \in Deletes
      BY <3>1 DEF PurgesKnowRows, Purgers
    <3>4. PurgesKnowRows'
      BY <1>1, <1>5, <3>1, <3>2 DEF PurgesKnowRows
    <3>5. ASSUME NEW r \in RunIds, r \in Orphans'
          PROVE  r \in Orphans \/ runs[r].task = purge[p].task
      BY <1>1, <1>3, <3>1, <3>5 DEF Orphans
    <3>6. PurgesGoOn
      BY <1>1, <1>5, <3>1, <3>2, <3>3, <3>5 DEF PurgesGoOn
    <3> QED
      BY <3>4, <3>6
  <2>3. ASSUME NEW r \in RunIds, PurgeAwait(p, r) PROVE PurgesKnowRows' /\ PurgesGoOn
    <3>1. purge' = [purge EXCEPT ![p] = Progress(p, "session", r, runs[r].sid)] /\ tasks' = tasks
          /\ purge[p].pc = "loop"
      BY <2>3 DEF PurgeAwait
    <3> DEFINE z == Progress(p, "session", r, runs[r].sid)
    <3>2. /\ z.pc = "session" /\ z.task = purge[p].task /\ z.bounded = purge[p].bounded
          /\ z.run = r /\ z.sid = runs[r].sid
      BY DEF Progress
    <3> HIDE DEF z
    <3>3. purge' = [purge EXCEPT ![p] = z]
      BY <3>1 DEF z
    <3>4. PurgesKnowRows'
      BY <1>1, <1>5, <3>2, <3>3 DEF PurgesKnowRows
    <3>5. PurgesGoOn
      BY <1>1, <1>3, <1>5, <3>1, <3>2, <3>3 DEF PurgesGoOn, Orphans
    <3> QED
      BY <3>4, <3>5
  <2> QED
    BY <2>1, <2>2, <2>3
<1>7. OrphanRowsAttended'
  BY <1>6, PurgesGoOnKeeps DEF NothingOrphaned
<1> QED
  BY <1>2, <1>4, <1>6, <1>7 DEF NothingOrphaned

\* The steps of a purge that delete a row.
LEMMA PurgeDropOrphan ==
    ASSUME Inv, OrphanInv, NEW p \in Purgers,
           PurgeSession(p) \/ PurgeSessionRaises(p) \/ \E r \in RunIds : PurgeRow(p, r)
    PROVE  OrphanInv'
<1>1. CASE \E r \in RunIds : PurgeRow(p, r)
  <2>1. PICK r \in RunIds : PurgeRow(p, r)
    BY <1>1
  <2> QED
    BY <2>1, DropRowOrphan DEF PurgeRow
<1>2. CASE PurgeSession(p) \/ PurgeSessionRaises(p)
  <2>1. PICK r \in RunIds : r = purge[p].run /\ runs[r].sid = purge[p].sid
    BY <1>2, ConstantsAssumption
    DEF PurgeSession, PurgeSessionRaises, Inv, WaitersHoldRows, TypeOK, ConstantsAssumption, RunIds,
        Sids, OrphanInv, PurgesKnowRows
  <2>2. DropRow(r) /\ UNCHANGED <<up, tasks, job>>
    BY <1>2, <2>1 DEF PurgeSession, PurgeSessionRaises
  <2>3. /\ sessions' \subseteq sessions /\ cut \subseteq cut'
        /\ runs[r].sid \notin sessions' \/ runs[r].sid \in cut'
    BY <1>2, <2>1 DEF PurgeSession, PurgeSessionRaises
  <2>4. \A o \in Purgers : /\ purge'[o].pc = "session" => purge'[o] = purge[o]
                           /\ purge[o].pc # "off" => purge'[o].pc # "off"
                           /\ purge'[o].task = purge[o].task
                           /\ purge'[o].bounded = purge[o].bounded
    BY <1>2 DEF PurgeSession, PurgeSessionRaises, Progress, Inv, TypeOK
  <2> QED
    BY <2>2, <2>3, <2>4, DropRowOrphan
<1> QED
  BY <1>1, <1>2

\* A delete request starts a purge.
LEMMA DeleteTaskOrphan ==
    ASSUME Inv, OrphanInv, NEW p \in Deletes, NEW t \in Tasks, DeleteTask(p, t)
    PROVE  OrphanInv'
<1> DEFINE z == [pc |-> "loop", bounded |-> TRUE, task |-> t, run |-> 0, sid |-> 0]
<1> USE DEF OrphanInv
<1>1. /\ purge' = [purge EXCEPT ![p] = z] /\ purge[p].pc = "off" /\ z.pc = "loop"
      /\ UNCHANGED <<up, tasks, runs, sessions, job, dropped, cut>>
  BY DEF DeleteTask, NoPurge
<1> HIDE DEF z
<1>2. p \in Purgers /\ Reclaim \in Purgers /\ p # Reclaim /\ purge \in [Purgers -> Purge]
  BY ConstantsAssumption DEF ConstantsAssumption, Purgers, Inv, TypeOK
<1>3. SlotsOwnRows' /\ OrphansExplained'
  BY <1>1 DEF SlotsOwnRows, OrphansExplained, Pointed, PendingDrops, Exists, NothingOrphaned
<1>4. PurgesKnowRows'
  BY <1>1, <1>2 DEF PurgesKnowRows
<1>5. PurgesGoOn
  BY <1>1, <1>2 DEF PurgesGoOn, Orphans, Exists
<1>6. OrphanRowsAttended'
  BY <1>5, PurgesGoOnKeeps DEF NothingOrphaned
<1> QED
  BY <1>3, <1>4, <1>6 DEF NothingOrphaned

\* A crash gives up the sessions that were to be deleted, and the one under
\* construction.
LEMMA CrashOrphan ==
    ASSUME Inv, OrphanInv,
           Crash \/ (\E s \in Slots : SetupCrash(s)) \/ (\E p \in Purgers : PurgeCrash(p))
    PROVE  OrphanInv'
<1> USE DEF OrphanInv
<1>1. LoseMemory /\ UNCHANGED <<tasks, runs, rowid, dropped>>
  BY DEF Crash, SetupCrash, PurgeCrash
<1>2. cut \cup PendingDrops \subseteq cut' /\ sessions' \subseteq sessions \cup cut'
  BY DEF Crash, SetupCrash, PurgeCrash
<1>3. SlotsOwnRows'
  <2>1. ~up' /\ \A s \in Slots : job'[s].pc = "idle" /\ job'[s].drop = {}
    BY <1>1 DEF LoseMemory, NoJob
  <2> QED
    BY <2>1 DEF SlotsOwnRows
<1>4. PurgesKnowRows'
  <2>1. \A p \in Purgers : /\ purge'[p].pc # "session" /\ purge'[p].task = purge[p].task
                           /\ purge'[p].bounded = purge[p].bounded
    BY <1>1 DEF LoseMemory, Finished, Progress
  <2>2. Reclaim \in Purgers
    BY DEF Purgers
  <2> QED
    BY <2>1, <2>2 DEF PurgesKnowRows
<1>5. OrphansExplained'
  <2>1. Pointed' = Pointed
    BY <1>1 DEF Pointed, Exists
  <2> QED
    BY <1>1, <1>2, <2>1, ExplainedKeeps DEF SessionsExplained, NothingOrphaned
<1>6. OrphanRowsAttended'
  BY <1>1 DEF LoseMemory, OrphanRowsAttended
<1> QED
  BY <1>3, <1>4, <1>5, <1>6 DEF NothingOrphaned

\* start_worker: the reclaim is on whatever rows are orphaned.
LEMMA RestartOrphan == ASSUME Inv, OrphanInv, Restart PROVE OrphanInv'
<1> DEFINE z == [pc |-> "loop", bounded |-> FALSE, task |-> "none", run |-> 0, sid |-> 0]
<1> USE DEF OrphanInv
<1>1. /\ purge' = [purge EXCEPT ![Reclaim] = z] /\ z.pc = "loop" /\ z.task = "none" /\ ~z.bounded
      /\ ~up /\ UNCHANGED <<tasks, sessions, job, dropped, cut>>
  BY DEF Restart
<1> HIDE DEF z
<1>2. \A q \in RunIds : runs'[q].sid = runs[q].sid /\ (Exists(q)' <=> Exists(q))
  <2> SUFFICES ASSUME NEW q \in RunIds
               PROVE  runs'[q].sid = runs[q].sid /\ (Exists(q)' <=> Exists(q))
    OBVIOUS
  <2>1. CASE runs[q].status \in Active
    <3>1. runs'[q] = [runs[q] EXCEPT !.status = "ended"]
      BY <2>1 DEF Restart, RequeueOrphanedRuns
    <3> QED
      BY <2>1, <3>1 DEF Inv, TypeOK, Row, Exists, Active
  <2>2. CASE runs[q].status \notin Active
    <3>1. runs'[q] = runs[q]
      BY <2>2 DEF Restart, RequeueOrphanedRuns
    <3> QED
      BY <3>1 DEF Exists
  <2> QED
    BY <2>1, <2>2
<1>3. purge'[Reclaim] = z /\ \A p \in Purgers \ {Reclaim} : purge'[p] = purge[p]
  BY <1>1 DEF Inv, TypeOK, Purgers
<1>4. SlotsOwnRows'
  BY <1>1 DEF SlotsOwnRows
<1>5. PurgesKnowRows'
  <2>1. \A p \in Purgers : purge[p].pc = "session" => purge[p].run \in RunIds
    BY ConstantsAssumption DEF Inv, WaitersHoldRows, TypeOK, ConstantsAssumption, RunIds, Sids
  <2> QED
    BY <1>1, <1>2, <1>3, <2>1 DEF PurgesKnowRows
<1>6. OrphansExplained'
  <2>1. Pointed' = Pointed /\ PendingDrops' = PendingDrops
    BY <1>1, <1>2, SamePointed DEF PendingDrops
  <2> QED
    BY <1>1, <2>1, ExplainedKeeps DEF SessionsExplained, NothingOrphaned
<1>7. OrphanRowsAttended'
  BY <1>1, <1>3 DEF OrphanRowsAttended
<1> QED
  BY <1>4, <1>5, <1>6, <1>7 DEF NothingOrphaned

\* The steps of a slot after the claim.
LEMMA SlotStepOrphan == ASSUME Inv, OrphanInv, NEW s \in Slots, SlotStep(s) PROVE OrphanInv'
<1>1. CASE FailEarly(s)
  BY <1>1, SlotMovesOrphan DEF FailEarly
<1>2. CASE SetupResume(s)
  BY <1>2, SlotMovesOrphan DEF SetupResume
<1>3. CASE StartRun(s)
  BY <1>3, SlotMovesOrphan DEF StartRun
<1>4. CASE DriveDone(s)
  BY <1>4, SlotMovesOrphan DEF DriveDone
<1>5. CASE DriveGivesUp(s)
  BY <1>5, SlotMovesOrphan DEF DriveGivesUp
<1>6. CASE CancelReturns(s)
  BY <1>6, SlotMovesOrphan DEF CancelReturns
<1> QED
  BY <1>1, <1>2, <1>3, <1>4, <1>5, <1>6, SetupFreshOrphan, PruneOrphan, PruneSessionOrphan
  DEF SlotStep

\* No handler, worker, purge, crash or restart orphans a session or a row.
LEMMA OrphanInductive == Inv /\ OrphanInv /\ [Next]_vars => OrphanInv'
<1> SUFFICES ASSUME Inv, OrphanInv, [Next]_vars PROVE OrphanInv'
  OBVIOUS
<1>1. CASE UNCHANGED vars
  BY <1>1, AsideOrphan DEF vars
<1>2. ASSUME NEW t \in Tasks, Enqueue(t) PROVE OrphanInv'
  <2> DEFINE x == [status |-> "queued", task |-> t, sid |-> 0, resumed |-> FALSE, late |-> FALSE]
  <2>1. /\ up /\ rowid < MaxRuns /\ x.task \in tasks /\ runs' = [runs EXCEPT ![rowid + 1] = x]
        /\ UNCHANGED <<up, tasks, sessions, job, purge, dropped, cut>>
    BY <1>2 DEF Enqueue
  <2> HIDE DEF x
  <2> QED
    BY <2>1, AddOrphan
<1>3. ASSUME NEW q \in Requests, ContinueCommit(q) PROVE OrphanInv'
  <2> DEFINE t == runs[req[q].parent].task
             y == req[q].sid
             x == [status |-> "queued", task |-> t, sid |-> y, resumed |-> TRUE,
                   late |-> \/ t \notin tasks \/ y \notin sessions \/ y \in Doomed]
  <2>1. /\ up /\ rowid < MaxRuns /\ runs' = [runs EXCEPT ![rowid + 1] = x]
        /\ UNCHANGED <<up, tasks, sessions, job, purge, dropped, cut>>
    BY <1>3 DEF ContinueCommit
  <2>2. x.task \in tasks \/ x.late
    OBVIOUS
  <2> HIDE DEF x
  <2> QED
    BY <2>1, <2>2, AddOrphan
<1>4. CASE \/ \E q \in Requests, r \in RunIds : ContinueBegin(q, r)
           \/ \E r \in RunIds : AgentEnds(r) \/ AgentUnwinds(r)
  BY <1>4, AsideOrphan DEF ContinueBegin, AgentEnds, AgentUnwinds
<1>5. CASE \E s \in Slots : Claim(s) \/ SlotStep(s)
  BY <1>5, ClaimOrphan, SlotStepOrphan
<1>6. CASE \E s \in Slots, x \in RunIds : PruneSessionRaises(s, x)
  BY <1>6, PruneSessionOrphan
<1>7. CASE \E p \in Deletes, t \in Tasks : DeleteTask(p, t)
  BY <1>7, DeleteTaskOrphan
<1>8. CASE \E p \in Purgers : PurgeStep(p) \/ PurgeSessionRaises(p) \/ PurgeDeadline(p)
  BY <1>8, PurgeAdvanceOrphan, PurgeDropOrphan DEF PurgeStep
<1>9. CASE \/ Crash
           \/ \E s \in Slots : SetupCrash(s)
           \/ \E p \in Purgers : PurgeCrash(p)
  BY <1>9, CrashOrphan
<1>10. CASE Restart
  BY <1>10, RestartOrphan
<1> QED
  BY <1>1, <1>2, <1>3, <1>4, <1>5, <1>6, <1>7, <1>8, <1>9, <1>10 DEF Next

\* Nothing a run leaves behind, row or session, is out of everybody's reach,
\* but for the ways the code is known to give one up.
THEOREM NothingOrphanedHolds == Spec => []NothingOrphaned
<1>1. Init => OrphanInv
  <2> SUFFICES ASSUME Init PROVE OrphanInv
    OBVIOUS
  <2>1. SlotsOwnRows
    BY DEF Init, SlotsOwnRows, NoJob
  <2>2. PurgesKnowRows
    BY DEF Init, PurgesKnowRows, NoPurge, Purgers
  <2>3. OrphansExplained /\ OrphanRowsAttended
    BY DEF Init, OrphansExplained, OrphanRowsAttended, Orphans, Exists, NoRow
  <2> QED
    BY <2>1, <2>2, <2>3 DEF OrphanInv, NothingOrphaned
<1>2. OrphanInv => NothingOrphaned
  BY DEF OrphanInv
<1> QED
  BY Invariance, OrphanInductive, <1>1, <1>2, PTL DEF Spec
=============================================================================
