--------------------------- MODULE LearningProofs ---------------------------
(***************************************************************************)
(* Proofs about what is learned in the background: SessionJobs, for any    *)
(* number of sessions, attempts, messages and entries, and any size of a   *)
(* chunk; and NotesDistill, for any users, documents, attempts, days and   *)
(* daily cap.                                                              *)
(***************************************************************************)
EXTENDS SessionJobs, NotesDistill, FiniteSetTheorems, WellFoundedInduction, TLAPS

JobsSpec == JobsInit /\ [][JobsNext]_jobVars

-----------------------------------------------------------------------------
(* Arithmetic of the chunks.                                               *)

\* Division with remainder, as the groups of a chunk's size need it.
LEMMA Quotient ==
    ASSUME NEW x \in Nat, NEW c \in Nat \ {0}
    PROVE  x \div c \in Nat /\ x % c \in 0..(c - 1) /\ x = c * (x \div c) + (x % c)
  BY Z3

\* Of two groups the later one starts where the earlier one has ended, or after.
LEMMA Multiples ==
    ASSUME NEW a \in Nat, NEW b \in Nat, NEW c \in Nat \ {0}, a < b
    PROVE  c * a + c <= c * b
  BY Z3

\* A larger message is in no earlier group; one group further on is the next.
LEMMA GroupsGrow ==
    ASSUME NEW x \in Nat, NEW y \in Nat, NEW c \in Nat \ {0}, x + c <= y
    PROVE  x \div c + 1 <= y \div c
<1> DEFINE p == x \div c
           q == y \div c
<1>1. p \in Nat /\ x % c \in 0..(c - 1) /\ x = c * p + (x % c)
  BY Quotient
<1>2. q \in Nat /\ y % c \in 0..(c - 1) /\ y = c * q + (y % c)
  BY Quotient
<1> HIDE DEF p, q
<1>3. ASSUME q < p + 1 PROVE FALSE
  <2>1. c * q + c <= c * (p + 1)
    BY <1>1, <1>2, <1>3, Multiples
  <2>2. c * (p + 1) = c * p + c
    BY <1>1, Z3
  <2>3. c * q \in Int /\ c * p \in Int
    BY <1>1, <1>2
  <2> QED
    BY <1>1, <1>2, <2>1, <2>2, <2>3
<1>4. p + 1 <= q
  BY <1>1, <1>2, <1>3
<1> QED
  BY <1>4 DEF p, q

-----------------------------------------------------------------------------
(* The job tables.                                                         *)

Rows  == [status : {"none", "pending", "running"}, attempts : Nat]
Works == [pc : {"call", "commit"}, on : Sessions, attempts : Nat, upto : Nat, after : Nat,
          snapshot : SUBSET Nat]

JobsTypeOK ==
    /\ kind \in {"memory", "recall", "notes"}
    /\ said \in [Sessions -> Nat] /\ want \in [Sessions -> Nat] /\ seen \in [Sessions -> SUBSET Nat]
    /\ deletion \in [Sessions -> {"no", "vectors", "rows"}]
    /\ row \in [Sessions -> Rows]
    /\ work = Idle \/ work \in Works
    /\ dropped \in [Sessions -> BOOLEAN]
    /\ offset \in [Sessions -> [msgs : Nat, chunks : Nat]]

\* An entry of the memory is as clean as its trust says, active or not.
Entries == [text : Texts, trust : {"low", "normal"}, root : Nat, from : SUBSET Sessions, late : SUBSET Sessions,
            status : {"active", "superseded", "disabled"}]
Clean(e) == e.trust # "low" => e.from \cap Channel \subseteq e.late
MemInv == \E n \in Nat : mems \in [1..n -> Entries] /\ \A i \in 1..n : Clean(mems[i])

\* The row of a session is running only under the worker that reads all that was
\* there when the job was last asked for.  An attempt and the jobs before it read
\* everything up to its end, and the recall offset is no further than was read.
RowsRun ==
    \A s \in Sessions :
        /\ want[s] <= said[s]
        /\ row[s].status = "running" => work.pc # "idle" /\ work.on = s /\ work.upto >= want[s]
AttemptReads ==
    work.pc # "idle" /\ ~Gone(work.on) =>
        work.upto <= said[work.on] /\ LeftOut(work.upto) + 1 .. work.after \subseteq seen[work.on]
OffsetRead == kind = "recall" => \A s \in Sessions : ~Gone(s) => 1 .. offset[s].msgs \subseteq seen[s]

RowInv == RowsRun /\ AttemptReads /\ OffsetRead /\ NoneMissed

\* An empty memory is clean.
LEMMA MemInitInv == JobsInit => MemInv
<1> SUFFICES ASSUME JobsInit PROVE MemInv
  OBVIOUS
<1>1. mems \in [1..0 -> Entries] /\ \A i \in 1..0 : Clean(mems[i])
  BY DEF JobsInit
<1> QED
  BY <1>1 DEF MemInv

\* Clean entries make a clean prompt.
LEMMA MemInvSound == MemInv => PromptClean
  BY DEF MemInv, PromptClean, Active, Clean

\* An entry is added behind the others.
LEMMA PutKeeps ==
    ASSUME MemInv, NEW e \in Entries, Clean(e)
    PROVE  \E n \in Nat : Put(e) \in [1..n -> Entries] /\ \A i \in 1..n : Clean(Put(e)[i])
<1>1. PICK n \in Nat : mems \in [1..n -> Entries] /\ \A i \in 1..n : Clean(mems[i])
  BY DEF MemInv
<1>2. DOMAIN mems = 1..n /\ Cardinality(1..n) = n
  BY <1>1, FS_Interval
<1>3. Put(e) = [i \in 1..(n + 1) |-> IF i \in 1..n THEN mems[i] ELSE e]
  BY <1>2 DEF Put
<1>4. \A i \in 1..(n + 1) : Put(e)[i] \in Entries /\ Clean(Put(e)[i])
  BY <1>1, <1>3
<1>5. Put(e) \in [1..(n + 1) -> Entries]
  BY <1>3, <1>4
<1> QED
  BY <1>4, <1>5

\* Changing the status of an entry changes nothing about what shaped it.
LEMMA StatusKeeps ==
    ASSUME NEW m, NEW n \in Nat, m \in [1..n -> Entries], \A i \in 1..n : Clean(m[i]), NEW i \in 1..n,
           NEW st \in {"superseded", "disabled"}
    PROVE  LET t == [m EXCEPT ![i].status = st]
           IN  t \in [1..n -> Entries] /\ \A j \in 1..n : Clean(t[j])
<1> DEFINE e == [m[i] EXCEPT !.status = st]
           t == [m EXCEPT ![i] = e]
<1>1. m[i] \in Entries /\ Clean(m[i])
  OBVIOUS
<1>2. e \in Entries /\ e.trust = m[i].trust /\ e.from = m[i].from /\ e.late = m[i].late
  BY <1>1 DEF Entries
<1>3. Clean(e)
  BY <1>1, <1>2 DEF Clean
<1> HIDE DEF e
<1>4. t \in [1..n -> Entries] /\ \A j \in 1..n : t[j] = IF j = i THEN e ELSE m[j]
  BY <1>2
<1>5. \A j \in 1..n : Clean(t[j])
  BY <1>3, <1>4
<1> QED
  BY <1>4, <1>5 DEF e

\* An entry that is added carries the trust of the session it is from.
LEMMA AddKeeps ==
    ASSUME MemInv, NEW s \in Sessions, NEW t \in Texts, Add(s, t)
    PROVE  MemInv'
<1>1. CASE mems' = mems
  BY <1>1 DEF MemInv
<1>2. CASE ~Duplicate(t)
  <2>1. PICK n \in Nat : mems \in [1..n -> Entries]
    BY DEF MemInv
  <2>2. Cardinality(DOMAIN mems) + 1 \in Nat
    BY <2>1, FS_Interval
  <2> DEFINE e == Entry(t, SessionTrust(s), Cardinality(DOMAIN mems) + 1, {s}, Late(s))
  <2>3. e \in Entries /\ Clean(e)
    BY <2>2 DEF Entry, Entries, Clean, SessionTrust, FromChannel, Late
  <2>4. mems' = Put(e)
    BY <1>2 DEF Add
  <2> HIDE DEF e
  <2> QED
    BY <2>3, <2>4, PutKeeps DEF MemInv
<1> QED
  BY <1>1, <1>2 DEF Add

\* A successor is of low trust when its session or what it follows was.
LEMMA SuccessorKeeps ==
    ASSUME MemInv, NEW s \in Sessions, NEW t \in Texts, NEW i \in DOMAIN mems
    PROVE  \E n \in Nat : /\ Successor(s, i, t) \in [1..n -> Entries] /\ i \in 1..n
                          /\ \A j \in 1..n : Clean(Successor(s, i, t)[j])
<1>1. PICK n \in Nat : mems \in [1..n -> Entries] /\ \A j \in 1..n : Clean(mems[j])
  BY DEF MemInv
<1>2. i \in 1..n /\ mems[i] \in Entries /\ Clean(mems[i])
  BY <1>1
<1> DEFINE e == Entry(t, UpdateTrust(s, i), mems[i].root, mems[i].from \cup {s}, mems[i].late \cup Late(s))
<1>3. e \in Entries
  BY <1>2 DEF Entry, Entries, UpdateTrust, Late
<1>4. Clean(e)
  BY <1>2 DEF Entry, Clean, UpdateTrust, SessionTrust, FromChannel, Late
<1>5. Successor(s, i, t) = Put(e)
  BY DEF Successor
<1> HIDE DEF e
<1>6. PICK k \in Nat : Put(e) \in [1..k -> Entries] /\ \A j \in 1..k : Clean(Put(e)[j])
  BY <1>3, <1>4, PutKeeps
<1>7. DOMAIN Put(e) = 1..(n + 1)
  BY <1>1, FS_Interval DEF Put
<1>8. i \in 1..k
  BY <1>2, <1>6, <1>7
<1> QED
  BY <1>5, <1>6, <1>8

\* Every step keeps the memory clean.
LEMMA MemNext == JobsTypeOK /\ MemInv /\ [JobsNext]_jobVars => MemInv'
<1> SUFFICES ASSUME JobsTypeOK, MemInv, [JobsNext]_jobVars PROVE MemInv'
  OBVIOUS
<1>1. CASE mems' = mems
  BY <1>1 DEF MemInv
<1>2. ASSUME work.pc = "call" PROVE work.on \in Sessions
  BY <1>2 DEF JobsTypeOK, Idle, Works
<1>3. CASE MemoryApplied
  <2>1. work.on \in Sessions
    BY <1>2, <1>3 DEF MemoryApplied
  <2>2. ASSUME NEW t \in Texts, Add(work.on, t) PROVE MemInv'
    BY <2>1, <2>2, AddKeeps
  <2>3. ASSUME NEW i \in work.snapshot \cap Active, NEW t \in Texts,
               mems' = [Successor(work.on, i, t) EXCEPT ![i].status = "superseded"]
        PROVE  MemInv'
    <3>1. i \in DOMAIN mems
      BY DEF Active
    <3>2. PICK n \in Nat : /\ Successor(work.on, i, t) \in [1..n -> Entries] /\ i \in 1..n
                           /\ \A j \in 1..n : Clean(Successor(work.on, i, t)[j])
      BY <2>1, <3>1, SuccessorKeeps
    <3>3. mems' \in [1..n -> Entries] /\ \A j \in 1..n : Clean(mems'[j])
      BY <2>3, <3>2, StatusKeeps
    <3> QED
      BY <3>3 DEF MemInv
  <2> QED
    BY <1>1, <1>3, <2>2, <2>3 DEF MemoryApplied
<1>4. CASE MemoryTorn
  <2>1. work.on \in Sessions
    BY <1>2, <1>4 DEF MemoryTorn
  <2>2. PICK i \in work.snapshot \cap Active, t \in Texts : mems' = Successor(work.on, i, t)
    BY <1>4 DEF MemoryTorn
  <2>3. i \in DOMAIN mems
    BY DEF Active
  <2> QED
    BY <2>1, <2>2, <2>3, SuccessorKeeps DEF MemInv
<1>5. ASSUME NEW s \in Sessions, Remember(s) PROVE MemInv'
  BY <1>5, AddKeeps DEF Remember
<1>6. CASE Forget
  <2>1. PICK i \in Active : mems' = [mems EXCEPT ![i].status = "disabled"]
    BY <1>6 DEF Forget
  <2>2. PICK n \in Nat : mems \in [1..n -> Entries] /\ \A j \in 1..n : Clean(mems[j])
    BY DEF MemInv
  <2>3. i \in 1..n
    BY <2>2 DEF Active
  <2>4. mems' \in [1..n -> Entries] /\ \A j \in 1..n : Clean(mems'[j])
    BY <2>1, <2>2, <2>3, StatusKeeps
  <2> QED
    BY <2>4 DEF MemInv
<1>7. ASSUME NEW s \in Sessions, Say(s) \/ Ask(s) \/ ClaimIdleJob(s) \/ PurgeVectors(s) \/ DeleteRows(s)
      PROVE  MemInv'
  BY <1>1, <1>7 DEF Say, Ask, ClaimIdleJob, PurgeVectors, DeleteRows, memVars
<1>8. CASE CallFails \/ CallUpserts \/ IndexCommit \/ NotesApplied \/ Toggle \/ Restart \/ UNCHANGED jobVars
  BY <1>1, <1>8 DEF CallFails, CallUpserts, IndexCommit, NotesApplied, Toggle, Restart, memVars, jobVars
<1> QED
  BY <1>3, <1>4, <1>5, <1>6, <1>7, <1>8 DEF JobsNext
\* The rows a handler writes are of the type of rows.
LEMMA RowTypes ==
    ASSUME row \in [Sessions -> Rows]
    PROVE  /\ NoRow \in Rows /\ RequeueOrphaned \in [Sessions -> Rows]
           /\ \A s \in Sessions, a \in Nat : Deleted(s) \in [Sessions -> Rows]
                                             /\ Failed(s, a) \in [Sessions -> Rows]
<1>1. NoRow \in Rows
  BY DEF NoRow, Rows
<1>2. \A s \in Sessions : [row[s] EXCEPT !.status = "pending"] \in Rows
  BY DEF Rows
<1>3. RequeueOrphaned \in [Sessions -> Rows]
  BY <1>2 DEF RequeueOrphaned
<1>4. \A s \in Sessions : Deleted(s) \in [Sessions -> Rows]
  BY <1>1 DEF Deleted
<1>5. \A s \in Sessions : [row EXCEPT ![s].status = "pending"] \in [Sessions -> Rows]
  BY <1>2
<1>6. \A s \in Sessions, a \in Nat : Failed(s, a) \in [Sessions -> Rows]
  BY <1>4, <1>5 DEF Failed
<1> QED
  BY <1>1, <1>3, <1>4, <1>6

\* What a busy worker knows of its job.
LEMMA WorkTypes ==
    ASSUME JobsTypeOK, work.pc # "idle"
    PROVE  /\ work \in Works /\ work.on \in Sessions /\ work.upto \in Nat /\ work.attempts \in Nat
           /\ work.pc \in {"call", "commit"}
  BY DEF JobsTypeOK, Idle, Works

\* An attempt that is over leaves a row and messages read.
LEMMA FinishTypes ==
    ASSUME JobsTypeOK, work.pc # "idle", Finish(work.on)
    PROVE  row' \in [Sessions -> Rows] /\ seen' \in [Sessions -> SUBSET Nat]
<1>1. work.on \in Sessions /\ work.upto \in Nat /\ work.after \in Nat
  BY WorkTypes DEF Works
<1>2. work.after + 1 .. work.upto \subseteq Nat
  BY <1>1
<1>3. row' \in [Sessions -> Rows]
  BY <1>1, RowTypes DEF Finish, JobsTypeOK
<1> DEFINE new == work.after + 1 .. work.upto
<1>4. seen' = [seen EXCEPT ![work.on] = @ \cup new]
  BY DEF Finish
<1> HIDE DEF new
<1>5. seen' \in [Sessions -> SUBSET Nat]
  BY <1>1, <1>2, <1>4 DEF JobsTypeOK, new
<1> QED
  BY <1>3, <1>5

\* Every step keeps the types.
LEMMA JobsTypes == JobsTypeOK /\ MemInv /\ [JobsNext]_jobVars => JobsTypeOK'
<1> SUFFICES ASSUME JobsTypeOK, MemInv, [JobsNext]_jobVars PROVE JobsTypeOK'
  OBVIOUS
<1>0. row \in [Sessions -> Rows]
  BY DEF JobsTypeOK
<1>1. ASSUME NEW s \in Sessions, Say(s) \/ Remember(s) PROVE JobsTypeOK'
  BY <1>1 DEF Say, Remember, indexVars, ghostVars, JobsTypeOK
<1>2. ASSUME NEW s \in Sessions, Ask(s) PROVE JobsTypeOK'
  <2>1. [status |-> "pending", attempts |-> 0] \in Rows
    BY DEF Rows
  <2> QED
    BY <1>2, <2>1 DEF Ask, Enqueue, indexVars, JobsTypeOK
<1>3. ASSUME NEW s \in Sessions, ClaimIdleJob(s) PROVE JobsTypeOK'
  <2> DEFINE a == row[s].attempts + 1
             off == kind = "notes" /\ ~enabled
             none == kind = "recall" /\ offset[s].msgs >= said[s]
             b == IF kind = "recall" THEN offset[s].msgs ELSE LeftOut(said[s])
             w == [pc |-> "call", on |-> s, attempts |-> a, upto |-> said[s], after |-> b,
                   snapshot |-> IF kind = "memory" THEN Active ELSE {}]
  <2>0. b \in Nat
    <3>1. said[s] \in Nat /\ offset[s].msgs \in Nat /\ Window \in Nat
      BY JobsConstants DEF JobsTypeOK
    <3> QED
      BY <3>1 DEF LeftOut
  <2>1. a \in Nat /\ said[s] \in Nat
    BY <1>0 DEF Rows, JobsTypeOK
  <2> HIDE DEF b
  <2>2. Active \in SUBSET Nat
    BY DEF Active, MemInv
  <2>3. w \in Works
    BY <2>0, <2>1, <2>2 DEF Works
  <2>4. [status |-> "running", attempts |-> a] \in Rows /\ NoRow \in Rows
    BY <2>1, <1>0, RowTypes DEF Rows
  <2>6. UNCHANGED <<kind, said, want, seen, deletion>>
    BY <1>3 DEF ClaimIdleJob
  <2>7. \/ /\ row' = [row EXCEPT ![s] = NoRow] /\ UNCHANGED work
           /\ dropped' = [dropped EXCEPT ![s] = @ \/ off]
           /\ offset' = IF none /\ ~Gone(s) THEN [offset EXCEPT ![s].msgs = said[s]] ELSE offset
        \/ /\ row' = [row EXCEPT ![s] = [status |-> "running", attempts |-> a]]
           /\ work' = w /\ UNCHANGED <<dropped, offset>>
    BY <1>3, Zenon DEF ClaimIdleJob, b
  <2>8. dropped' \in [Sessions -> BOOLEAN]
    <3>1. [dropped EXCEPT ![s] = @ \/ off] \in [Sessions -> BOOLEAN]
      BY Zenon DEF JobsTypeOK
    <3> QED
      BY <2>7, <3>1 DEF JobsTypeOK
  <2> HIDE DEF w, off, none, a
  <2>9. offset' \in [Sessions -> [msgs : Nat, chunks : Nat]]
    <3>1. said[s] \in Nat
      BY DEF JobsTypeOK
    <3>2. [offset EXCEPT ![s].msgs = said[s]] \in [Sessions -> [msgs : Nat, chunks : Nat]]
      BY <3>1 DEF JobsTypeOK
    <3>3. offset' = offset \/ offset' = [offset EXCEPT ![s].msgs = said[s]]
      BY <2>7
    <3> QED
      BY <3>2, <3>3 DEF JobsTypeOK
  <2>10. (work' = Idle \/ work' \in Works) /\ row' \in [Sessions -> Rows]
    BY <1>0, <2>3, <2>4, <2>7 DEF JobsTypeOK
  <2> QED
    BY <2>6, <2>8, <2>9, <2>10 DEF JobsTypeOK
<1>4. CASE CallFails
  <2>1. work.on \in Sessions /\ work.attempts \in Nat
    BY <1>4, WorkTypes DEF CallFails
  <2>2. row' \in [Sessions -> Rows]
    BY <1>0, <1>4, <2>1, RowTypes DEF CallFails
  <2>3. dropped' \in [Sessions -> BOOLEAN]
    <3>1. dropped' = [dropped EXCEPT ![work.on] =
                        @ \/ (row[work.on].status = "running" /\ work.attempts >= MaxAttempts)]
      BY <1>4, Zenon DEF CallFails
    <3> QED
      BY <3>1, Zenon DEF JobsTypeOK
  <2> QED
    BY <1>4, <2>2, <2>3 DEF CallFails, JobsTypeOK
<1>5. CASE CallUpserts
  <2>1. work \in Works /\ work' = [work EXCEPT !.pc = "commit"]
    BY <1>5, WorkTypes DEF CallUpserts
  <2>2. work' \in Works
    BY <2>1 DEF Works
  <2> QED
    BY <1>5, <2>2 DEF CallUpserts, ghostVars, JobsTypeOK
<1>6. CASE IndexCommit
  <2>1. work.on \in Sessions /\ work.upto \in Nat
    BY <1>6, WorkTypes DEF IndexCommit
  <2> DEFINE o == offset[work.on]
             groups == (work.upto - o.msgs + ChunkSize - 1) \div ChunkSize
             D == DOMAIN ChunksOf(work.on, work.upto)
  <2>2. groups \in Int /\ o \in [msgs : Nat, chunks : Nat]
    BY <2>1, JobsConstants DEF JobsTypeOK
  <2>3. D = (o.chunks + 1) .. (o.chunks + groups)
    BY DEF ChunksOf
  <2> HIDE DEF groups, D
  <2>4. Cardinality(D) \in Nat
    <3>1. o.chunks + 1 \in Int /\ o.chunks + groups \in Int
      BY <2>2
    <3>2. IsFiniteSet(D)
      BY <2>3, <3>1, FS_Interval
    <3> QED
      BY <3>2, FS_CardinalityType
  <2>5. offset' \in {offset, [offset EXCEPT ![work.on] = [msgs |-> work.upto, chunks |-> @.chunks + Cardinality(D)]]}
    BY <1>6 DEF IndexCommit, Advanced, D
  <2>6. offset' \in [Sessions -> [msgs : Nat, chunks : Nat]]
    <3>1. [offset EXCEPT ![work.on] = [msgs |-> work.upto, chunks |-> @.chunks + Cardinality(D)]]
             \in [Sessions -> [msgs : Nat, chunks : Nat]]
      BY <2>1, <2>2, <2>4 DEF JobsTypeOK
    <3> QED
      BY <2>5, <3>1 DEF JobsTypeOK
  <2>7. row' \in [Sessions -> Rows] /\ seen' \in [Sessions -> SUBSET Nat]
    BY <1>0, <1>6, FinishTypes DEF IndexCommit
  <2> QED
    BY <1>6, <2>6, <2>7 DEF IndexCommit, Finish, JobsTypeOK
<1>7. CASE NotesApplied \/ MemoryApplied
  <2>1. work.pc # "idle"
    BY <1>7 DEF NotesApplied, MemoryApplied
  <2>2. Finish(work.on) /\ UNCHANGED <<kind, said, offset, want, dropped, deletion>>
    BY <1>7 DEF NotesApplied, MemoryApplied, indexVars
  <2>3. row' \in [Sessions -> Rows] /\ seen' \in [Sessions -> SUBSET Nat]
    BY <1>0, <2>1, <2>2, FinishTypes
  <2> QED
    BY <2>2, <2>3 DEF Finish, JobsTypeOK
<1>8. CASE MemoryTorn \/ Restart
  BY <1>0, <1>8, RowTypes DEF MemoryTorn, Restart, indexVars, ghostVars, JobsTypeOK
<1>9. CASE Forget \/ Toggle \/ UNCHANGED jobVars
  BY <1>9 DEF Forget, Toggle, indexVars, ghostVars, jobVars, JobsTypeOK
<1>10. ASSUME NEW s \in Sessions, PurgeVectors(s) PROVE JobsTypeOK'
  BY <1>10 DEF PurgeVectors, ghostVars, JobsTypeOK
<1>11. ASSUME NEW s \in Sessions, DeleteRows(s) PROVE JobsTypeOK'
  <2>1. NoRow \in Rows
    BY <1>0, RowTypes
  <2> QED
    BY <1>11, <2>1 DEF DeleteRows, indexVars, JobsTypeOK
<1> QED
  BY <1>1, <1>2, <1>3, <1>4, <1>5, <1>6, <1>7, <1>8, <1>9, <1>10, <1>11 DEF JobsNext
-----------------------------------------------------------------------------
(* The steps by what they do to the table.                                 *)

\* What a job has read it keeps, whatever is said, asked or read later.
LEMMA HasReadKeeps ==
    ASSUME JobsTypeOK, NEW s \in Sessions, HasRead(s), UNCHANGED <<kind, want>>,
           said'[s] \in Nat, said[s] <= said'[s], seen[s] \subseteq seen'[s]
    PROVE  HasRead(s)'
<1>1. PICK n \in want[s] .. said[s] : LeftOut(n) + 1 .. n \subseteq seen[s]
  BY DEF HasRead
<1>2. n \in want[s] .. said'[s]
  BY DEF JobsTypeOK
<1>3. LeftOut(n)' = LeftOut(n)
  BY DEF LeftOut
<1> QED
  BY <1>1, <1>2, <1>3 DEF HasRead

\* A step of a worker, or of nobody: no row starts to run, no job is asked for, no
\* session goes; a row goes only when it is given up or its session has been read.
LEMMA RowStep ==
    ASSUME JobsTypeOK, JobsTypeOK', RowInv, UNCHANGED <<kind, deletion, want>>,
           \A s \in Sessions : said[s] <= said'[s] /\ seen[s] \subseteq seen'[s],
           \/ work'.pc = "idle" /\ \A s \in Sessions : row'[s].status # "running"
           \/ /\ work'.pc # "idle" /\ work.pc # "idle"
              /\ work'.on = work.on /\ work'.upto = work.upto /\ work'.after = work.after
              /\ \A s \in Sessions : row'[s].status = "running" => row[s].status = "running"
           \/ work' = work /\ \A s \in Sessions : row'[s].status = "running" => row[s].status = "running",
           \A s \in Sessions : row'[s].status = "none" /\ ~dropped'[s] /\ ~Gone(s) =>
               (row[s].status = "none" /\ ~dropped[s]) \/ HasRead(s)',
           kind = "recall" => \A s \in Sessions : ~Gone(s) => 1 .. offset'[s].msgs \subseteq seen'[s]
    PROVE  RowInv'
<1>1. \A s \in Sessions : said[s] \in Nat /\ said'[s] \in Nat /\ want[s] \in Nat /\ (Gone(s)' <=> Gone(s))
  BY DEF JobsTypeOK, Gone
<1>2. RowsRun'
  <2>1. \A s \in Sessions : want'[s] <= said'[s]
    BY <1>1 DEF RowInv, RowsRun
  <2>2. \A s \in Sessions : row'[s].status = "running" =>
           work'.pc # "idle" /\ work'.on = s /\ work'.upto >= want'[s]
    BY DEF RowInv, RowsRun
  <2> QED
    BY <2>1, <2>2 DEF RowsRun
<1>4. AttemptReads'
  <2> SUFFICES ASSUME work'.pc # "idle", ~Gone(work.on)'
               PROVE  work'.upto <= said'[work'.on] /\ (LeftOut(work.upto) + 1 .. work.after \subseteq seen[work.on])'
    BY DEF AttemptReads
  <2>1. work.pc # "idle" /\ work'.on = work.on /\ work'.upto = work.upto /\ work'.after = work.after
    BY DEF Idle
  <2>2. work.on \in Sessions /\ work.upto \in Nat
    BY <2>1, WorkTypes
  <2>3. ~Gone(work.on)
    BY <2>1 DEF Gone
  <2>4. work.upto <= said[work.on] /\ LeftOut(work.upto) + 1 .. work.after \subseteq seen[work.on]
    BY <2>1, <2>3 DEF RowInv, AttemptReads
  <2>5. LeftOut(work.upto)' = LeftOut(work.upto)
    BY <2>1 DEF LeftOut
  <2>6. work.upto <= said'[work.on] /\ seen[work.on] \subseteq seen'[work.on]
    BY <1>1, <2>2, <2>4
  <2> QED
    BY <2>1, <2>4, <2>5, <2>6
<1>5. OffsetRead'
  BY <1>1 DEF OffsetRead
<1>6. ASSUME NEW s \in Sessions, row'[s].status = "none", ~dropped'[s], ~Gone(s)' PROVE HasRead(s)'
  <2>1. CASE row[s].status = "none" /\ ~dropped[s]
    <3>1. HasRead(s)
      BY <1>1, <1>6, <2>1 DEF RowInv, RowsRun, AttemptReads, OffsetRead, NoneMissed
    <3> QED
      BY <1>1, <3>1, HasReadKeeps
  <2> QED
    BY <1>1, <1>6, <2>1
<1> QED
  BY <1>2, <1>4, <1>5, <1>6 DEF RowInv, NoneMissed

\* A restart turns running rows into pending ones.
LEMMA RowRestart ==
    ASSUME JobsTypeOK, JobsTypeOK', RowInv, row' = RequeueOrphaned, work' = Idle,
           UNCHANGED <<kind, deletion, offset, said, want, seen, dropped>>
    PROVE  RowInv'
<1>1. \A s \in Sessions : row'[s].status # "running" /\ (row'[s].status = "none" => row[s].status = "none")
  <2> SUFFICES ASSUME NEW s \in Sessions
               PROVE  row'[s].status # "running" /\ (row'[s].status = "none" => row[s].status = "none")
    OBVIOUS
  <2>1. row[s] \in Rows
    BY DEF JobsTypeOK
  <2>2. row'[s] = IF row[s].status = "running" THEN [row[s] EXCEPT !.status = "pending"] ELSE row[s]
    BY DEF RequeueOrphaned
  <2> QED
    BY <2>1, <2>2 DEF Rows
<1>2. work'.pc = "idle"
  BY DEF Idle
<1>3. \A s \in Sessions : said[s] <= said'[s] /\ seen[s] \subseteq seen'[s]
  BY DEF JobsTypeOK
<1>4. kind = "recall" => \A s \in Sessions : ~Gone(s) => 1 .. offset'[s].msgs \subseteq seen'[s]
  BY DEF RowInv, RowsRun, AttemptReads, OffsetRead
<1> QED
  BY <1>1, <1>2, <1>3, <1>4, RowStep

\* Deleting a job's row takes it only while it is running, and touches no other.
LEMMA DeletedRow ==
    ASSUME JobsTypeOK, NEW s \in Sessions
    PROVE  /\ Deleted(s)[s].status # "running"
           /\ Deleted(s)[s].status = "none" => row[s].status \in {"running", "none"}
           /\ \A u \in Sessions : u # s => Deleted(s)[u] = row[u]
<1>1. row \in [Sessions -> Rows] /\ NoRow.status = "none"
  BY DEF JobsTypeOK, NoRow
<1> QED
  BY <1>1 DEF Deleted

\* Two ranges of messages read one after the other.
LEMMA RangesJoin ==
    ASSUME NEW a \in Nat, NEW b \in Nat, NEW n \in Nat, NEW R, a + 1 .. b \subseteq R
    PROVE  a + 1 .. n \subseteq R \cup (b + 1 .. n)
<1> SUFFICES ASSUME NEW m \in a + 1 .. n, ~(m \in b + 1 .. n) PROVE m \in R
  OBVIOUS
<1>1. m \in a + 1 .. b
  OBVIOUS
<1> QED
  BY <1>1

\* A worker that finishes its job has read up to its end, and leaves no row running.
LEMMA RowFinish ==
    ASSUME JobsTypeOK, JobsTypeOK', RowInv, work.pc # "idle", Finish(work.on),
           UNCHANGED <<kind, deletion, said, want, dropped>>,
           \A s \in Sessions : ~Gone(s) => \/ offset'[s].msgs = offset[s].msgs
                                           \/ s = work.on /\ offset'[s].msgs = work.upto
    PROVE  RowInv'
<1>1. PICK s \in Sessions : s = work.on
  BY WorkTypes
<1>2. PICK n \in Nat, b \in Nat : n = work.upto /\ b = work.after
  BY WorkTypes DEF Works
<1> DEFINE new == b + 1 .. n
<1>3. row' = Deleted(s) /\ work' = Idle /\ seen' = [seen EXCEPT ![s] = @ \cup new]
  BY <1>1, <1>2 DEF Finish
<1> HIDE DEF new
<1>4. seen'[s] = seen[s] \cup new /\ \A u \in Sessions : u # s => seen'[u] = seen[u]
  BY <1>3 DEF JobsTypeOK
<1>5. \A u \in Sessions : row'[u].status # "running"
  BY <1>1, <1>3, DeletedRow DEF RowInv, RowsRun, AttemptReads, OffsetRead
<1>6. \A u \in Sessions : u # s => row'[u] = row[u]
  BY <1>3, DeletedRow
<1>7. LeftOut(n) \in Nat
  BY JobsConstants DEF LeftOut
<1>8. ~Gone(s) => n <= said[s] /\ LeftOut(n) + 1 .. n \subseteq seen'[s]
  <2> SUFFICES ASSUME ~Gone(s) PROVE n <= said[s] /\ LeftOut(n) + 1 .. n \subseteq seen'[s]
    OBVIOUS
  <2>1. n <= said[s] /\ LeftOut(n) + 1 .. b \subseteq seen[s]
    BY <1>1, <1>2 DEF RowInv, RowsRun, AttemptReads, OffsetRead
  <2> QED
    BY <1>4, <1>7, <2>1, RangesJoin DEF new
<1>9. ASSUME row'[s].status = "none", row[s].status # "none", ~Gone(s) PROVE HasRead(s)'
  <2>1. row[s].status = "running"
    BY <1>3, <1>9, DeletedRow
  <2>2. n >= want[s]
    BY <1>1, <1>2, <2>1 DEF RowInv, RowsRun, AttemptReads, OffsetRead
  <2>3. n \in want'[s] .. said'[s]
    BY <1>8, <1>9, <2>2 DEF JobsTypeOK
  <2>4. LeftOut(n)' = LeftOut(n)
    BY DEF LeftOut
  <2> QED
    BY <1>8, <1>9, <2>3, <2>4 DEF HasRead
<1>10. ASSUME kind = "recall", NEW u \in Sessions, ~Gone(u) PROVE 1 .. offset'[u].msgs \subseteq seen'[u]
  <2>1. 1 .. offset[u].msgs \subseteq seen[u]
    BY <1>10 DEF RowInv, RowsRun, AttemptReads, OffsetRead
  <2>2. CASE offset'[u].msgs = offset[u].msgs
    BY <1>4, <2>1, <2>2
  <2>3. CASE u = s /\ offset'[u].msgs = n
    <3>1. LeftOut(n) = 0
      BY <1>10 DEF LeftOut
    <3> QED
      BY <1>8, <1>10, <2>3, <3>1
  <2> QED
    BY <1>1, <1>2, <1>10, <2>2, <2>3
<1>11. \A u \in Sessions : said[u] <= said'[u] /\ seen[u] \subseteq seen'[u]
  BY <1>4 DEF JobsTypeOK
<1>12. work'.pc = "idle"
  BY <1>3 DEF Idle
<1>13. ASSUME NEW u \in Sessions, row'[u].status = "none", ~dropped'[u], ~Gone(u)
       PROVE  (row[u].status = "none" /\ ~dropped[u]) \/ HasRead(u)'
  BY <1>6, <1>9, <1>13
<1> QED
  BY <1>5, <1>10, <1>11, <1>12, <1>13, RowStep

\* A call that fails: the row is retried or given up, not left running.
LEMMA RowFails == ASSUME JobsTypeOK, JobsTypeOK', RowInv, CallFails PROVE RowInv'
<1>1. work.pc # "idle" /\ UNCHANGED <<kind, deletion, offset, said, want, seen>> /\ work' = Idle
  BY DEF CallFails
<1>2. PICK s \in Sessions : s = work.on
  BY <1>1, WorkTypes
<1> DEFINE up == row[s].status = "running" /\ work.attempts >= MaxAttempts
<1>3. row' = Failed(s, work.attempts) /\ dropped' = [dropped EXCEPT ![s] = @ \/ up]
  BY <1>2, Zenon DEF CallFails
<1>4. dropped'[s] = (dropped[s] \/ up) /\ \A u \in Sessions : u # s => dropped'[u] = dropped[u]
  BY <1>3, Zenon DEF JobsTypeOK
<1>5. row \in [Sessions -> Rows] /\ row[s] \in Rows
  BY <1>2 DEF JobsTypeOK
<1>6. /\ \A u \in Sessions : u # s => row'[u] = row[u]
      /\ row'[s].status # "running"
      /\ row'[s].status = "none" => row[s].status = "none" \/ up
  <2>1. CASE work.attempts >= MaxAttempts
    <3>1. row' = Deleted(s)
      BY <1>3, <2>1 DEF Failed
    <3> QED
      BY <2>1, <3>1, DeletedRow
  <2>2. CASE ~(work.attempts >= MaxAttempts)
    <3>1. row' = IF row[s].status = "running" THEN [row EXCEPT ![s].status = "pending"] ELSE row
      BY <1>3, <2>2 DEF Failed
    <3> QED
      BY <1>5, <3>1 DEF Rows
  <2> QED
    BY <2>1, <2>2
<1> HIDE DEF up
<1>7. \A u \in Sessions : row'[u].status # "running"
  BY <1>2, <1>6 DEF RowInv, RowsRun, AttemptReads, OffsetRead
<1>8. \A u \in Sessions : row'[u].status = "none" /\ ~dropped'[u] => row[u].status = "none" /\ ~dropped[u]
  BY <1>4, <1>6
<1>9. work'.pc = "idle"
  BY <1>1 DEF Idle
<1>10. \A u \in Sessions : said[u] <= said'[u] /\ seen[u] \subseteq seen'[u]
  BY <1>1 DEF JobsTypeOK
<1>11. kind = "recall" => \A u \in Sessions : ~Gone(u) => 1 .. offset'[u].msgs \subseteq seen'[u]
  BY <1>1 DEF RowInv, RowsRun, AttemptReads, OffsetRead
<1> QED
  BY <1>1, <1>7, <1>8, <1>9, <1>10, <1>11, RowStep

\* A new message asks for the job, whatever the worker is doing.
LEMMA RowAsk == ASSUME JobsTypeOK, RowInv, NEW s \in Sessions, Ask(s) PROVE RowInv'
<1>1. UNCHANGED <<kind, deletion, offset, said, work, seen>>
  BY DEF Ask, indexVars
<1>2. CASE UNCHANGED <<row, want, dropped>>
  BY <1>1, <1>2, Zenon DEF RowInv, RowsRun, AttemptReads, OffsetRead, NoneMissed, HasRead, LeftOut, Gone
<1>3. CASE /\ row' = [row EXCEPT ![s] = [status |-> "pending", attempts |-> 0]]
           /\ want' = [want EXCEPT ![s] = said[s]]
           /\ dropped' = [dropped EXCEPT ![s] = FALSE]
  <2>1. row'[s].status = "pending" /\ want'[s] = said[s]
    BY <1>3 DEF JobsTypeOK
  <2>2. \A u \in Sessions : u # s => row'[u] = row[u] /\ want'[u] = want[u] /\ dropped'[u] = dropped[u]
    BY <1>3 DEF JobsTypeOK
  <2>3. \A u \in Sessions : want'[u] <= said'[u]
    BY <1>1, <2>1, <2>2 DEF RowInv, RowsRun, AttemptReads, OffsetRead, JobsTypeOK
  <2>4. \A u \in Sessions : row'[u].status = "running" => work'.pc # "idle" /\ work'.on = u /\ work'.upto >= want'[u]
    BY <1>1, <2>1, <2>2 DEF RowInv, RowsRun, AttemptReads, OffsetRead
  <2>5. \A u \in Sessions : (Gone(u)' <=> Gone(u)) /\ \A n : LeftOut(n)' = LeftOut(n)
    BY <1>1 DEF Gone, LeftOut
  <2>6. ASSUME NEW u \in Sessions, row'[u].status = "none", ~dropped'[u], ~Gone(u)' PROVE HasRead(u)'
    <3>1. u # s /\ HasRead(u)
      BY <2>1, <2>2, <2>5, <2>6 DEF RowInv, RowsRun, AttemptReads, OffsetRead, NoneMissed
    <3> QED
      BY <1>1, <2>2, <2>5, <3>1 DEF HasRead
  <2>7. AttemptReads'
    BY <1>1, Zenon DEF RowInv, AttemptReads, Gone, LeftOut
  <2>8. OffsetRead'
    BY <1>1, <2>5 DEF RowInv, OffsetRead
  <2> QED
    BY <2>3, <2>4, <2>6, <2>7, <2>8 DEF RowInv, RowsRun, NoneMissed
<1> QED
  BY <1>2, <1>3 DEF Ask, Enqueue

\* A claim takes a row nobody works on, and is to read all there is.
LEMMA RowClaim ==
    ASSUME JobsTypeOK, JobsTypeOK', RowInv, NEW s \in Sessions, ClaimIdleJob(s) PROVE RowInv'
<1> DEFINE a == row[s].attempts + 1
           off == kind = "notes" /\ ~enabled
           none == kind = "recall" /\ offset[s].msgs >= said[s]
           b == IF kind = "recall" THEN offset[s].msgs ELSE LeftOut(said[s])
<1>1. work.pc = "idle" /\ row[s].status = "pending" /\ UNCHANGED <<kind, deletion, said, want, seen>>
  BY DEF ClaimIdleJob
<1>2. \A u \in Sessions : /\ row[u].status # "running" /\ want[u] <= said[u] /\ said[u] \in Nat /\ want[u] \in Nat
                          /\ (Gone(u)' <=> Gone(u))
  BY <1>1 DEF RowInv, RowsRun, AttemptReads, OffsetRead, JobsTypeOK, Gone
<1>3. CASE off \/ none
  <2>1. /\ row' = [row EXCEPT ![s] = NoRow] /\ work' = work
        /\ dropped' = [dropped EXCEPT ![s] = @ \/ off]
        /\ offset' = IF none /\ ~Gone(s) THEN [offset EXCEPT ![s].msgs = said[s]] ELSE offset
    BY <1>3, Zenon DEF ClaimIdleJob
  <2>2. dropped'[s] = (dropped[s] \/ off) /\ \A u \in Sessions : u # s => dropped'[u] = dropped[u]
    BY <2>1, Zenon DEF JobsTypeOK
  <2>3. row'[s].status = "none" /\ \A u \in Sessions : u # s => row'[u] = row[u]
    BY <2>1 DEF NoRow, JobsTypeOK
  <2>4. \A u \in Sessions : offset[u].msgs \in Nat /\ offset'[u].msgs \in Nat /\ offset'[u].msgs <= offset[u].msgs
    BY <1>2, <2>1 DEF JobsTypeOK
  <2>5. kind = "recall" => \A u \in Sessions : ~Gone(u) => 1 .. offset'[u].msgs \subseteq seen'[u]
    <3>1. \A u \in Sessions : 1 .. offset'[u].msgs \subseteq 1 .. offset[u].msgs
      BY <2>4
    <3> QED
      BY <1>1, <3>1 DEF RowInv, RowsRun, AttemptReads, OffsetRead
  <2>6. none /\ ~Gone(s) => HasRead(s)'
    <3> SUFFICES ASSUME none, ~Gone(s) PROVE HasRead(s)'
      OBVIOUS
    <3>1. 1 .. said[s] \subseteq seen'[s]
      <4>1. 1 .. said[s] \subseteq 1 .. offset[s].msgs
        BY <1>2, <2>4
      <4> QED
        BY <1>1, <4>1 DEF RowInv, RowsRun, AttemptReads, OffsetRead
    <3>2. said[s] \in want'[s] .. said'[s] /\ kind' = "recall"
      BY <1>1, <1>2
    <3>3. \A n : LeftOut(n)' = 0
      BY <3>2 DEF LeftOut
    <3> QED
      BY <3>1, <3>2, <3>3 DEF HasRead
  <2>7. ~dropped'[s] => none
    BY <1>3, <2>2, Zenon
  <2> HIDE DEF none, off
  <2>8. \A u \in Sessions : row'[u].status # "running"
    BY <1>2, <2>3
  <2>9. ASSUME NEW u \in Sessions, row'[u].status = "none", ~dropped'[u], ~Gone(u)
        PROVE  (row[u].status = "none" /\ ~dropped[u]) \/ HasRead(u)'
    BY <2>2, <2>3, <2>6, <2>7, <2>9
  <2>10. \A u \in Sessions : said[u] <= said'[u] /\ seen[u] \subseteq seen'[u]
    BY <1>1, <1>2
  <2> QED
    BY <1>1, <2>1, <2>5, <2>8, <2>9, <2>10, RowStep
<1>4. CASE ~(off \/ none)
  <2>1. /\ row' = [row EXCEPT ![s] = [status |-> "running", attempts |-> a]]
        /\ work' = [pc |-> "call", on |-> s, attempts |-> a, upto |-> said[s], after |-> b,
                    snapshot |-> IF kind = "memory" THEN Active ELSE {}]
        /\ UNCHANGED <<dropped, offset>>
    BY <1>4, Zenon DEF ClaimIdleJob
  <2>2. work'.pc = "call" /\ work'.on = s /\ work'.upto = said[s] /\ work'.after = b
    BY <2>1
  <2>3. row'[s].status = "running" /\ \A u \in Sessions : u # s => row'[u] = row[u]
    BY <2>1 DEF JobsTypeOK
  <2>4. ~Gone(s) => LeftOut(said[s]) + 1 .. b \subseteq seen[s]
    <3> SUFFICES ASSUME ~Gone(s) PROVE LeftOut(said[s]) + 1 .. b \subseteq seen[s]
      OBVIOUS
    <3>1. LeftOut(said[s]) \in Nat
      BY <1>1, <1>2, JobsConstants DEF LeftOut
    <3>2. CASE kind = "recall"
      <4>1. LeftOut(said[s]) = 0 /\ b = offset[s].msgs
        BY <3>2 DEF LeftOut
      <4> QED
        BY <3>1, <3>2, <4>1 DEF RowInv, RowsRun, AttemptReads, OffsetRead
    <3>3. CASE kind # "recall"
      BY <3>1, <3>3
    <3> QED
      BY <3>2, <3>3
  <2> HIDE DEF none, off, a, b
  <2>5. \A u \in Sessions : row'[u].status = "running" => u = s
    BY <1>2, <2>3
  <2>6. \A u \in Sessions : row'[u].status = "running" =>
           work'.pc # "idle" /\ work'.on = u /\ work'.upto >= want'[u]
    BY <1>1, <1>2, <2>2, <2>5
  <2>7. AttemptReads'
    <3> SUFFICES ASSUME ~Gone(s)
                 PROVE  said[s] <= said'[s] /\ (LeftOut(work.upto) + 1 .. work.after \subseteq seen[work.on])'
      BY <1>2, <2>2 DEF AttemptReads
    <3>1. LeftOut(work.upto)' = LeftOut(said[s])
      BY <1>1, <2>2 DEF LeftOut
    <3> QED
      BY <1>1, <1>2, <2>2, <2>4, <3>1
  <2>8. OffsetRead'
    BY <1>1, <1>2, <2>1 DEF RowInv, OffsetRead
  <2>9. ASSUME NEW u \in Sessions, row'[u].status = "none", ~dropped'[u], ~Gone(u)' PROVE HasRead(u)'
    <3>1. HasRead(u)
      BY <1>2, <2>1, <2>3, <2>9 DEF RowInv, RowsRun, AttemptReads, OffsetRead, NoneMissed
    <3> QED
      BY <1>1, <1>2, <3>1, HasReadKeeps
  <2> QED
    BY <1>1, <1>2, <2>6, <2>7, <2>8, <2>9 DEF RowInv, RowsRun, NoneMissed
<1> QED
  BY <1>3, <1>4

\* A deletion takes the chunks, which no row depends on, and then the session's row,
\* after which nothing is promised of it.
LEMMA RowDeletes ==
    ASSUME JobsTypeOK, JobsTypeOK', RowInv, NEW s \in Sessions, PurgeVectors(s) \/ DeleteRows(s)
    PROVE  RowInv'
<1>1. UNCHANGED <<kind, offset, work>>
  BY DEF PurgeVectors, DeleteRows, indexVars
<1>2. \A u \in Sessions : u # s =>
         /\ said'[u] = said[u] /\ want'[u] = want[u] /\ seen'[u] = seen[u] /\ row'[u] = row[u]
         /\ dropped'[u] = dropped[u] /\ (Gone(u)' <=> Gone(u))
  BY DEF PurgeVectors, DeleteRows, ghostVars, JobsTypeOK, Gone
<1>3. \/ /\ said'[s] = said[s] /\ want'[s] = want[s] /\ seen'[s] = seen[s] /\ row'[s] = row[s]
         /\ dropped'[s] = dropped[s] /\ ~Gone(s)
      \/ said'[s] = 0 /\ want'[s] = 0 /\ row'[s].status = "none" /\ Gone(s)'
  BY DEF PurgeVectors, DeleteRows, ghostVars, JobsTypeOK, NoRow, Gone
<1>4. \A n : LeftOut(n)' = LeftOut(n)
  BY <1>1 DEF LeftOut
<1>5. \A u \in Sessions : ~Gone(u)' =>
         /\ said'[u] = said[u] /\ want'[u] = want[u] /\ seen'[u] = seen[u] /\ row'[u] = row[u]
         /\ dropped'[u] = dropped[u] /\ ~Gone(u)
  BY <1>2, <1>3
<1>6. \A u \in Sessions : want'[u] <= said'[u]
  BY <1>2, <1>3 DEF RowInv, RowsRun, AttemptReads, OffsetRead
<1>7. \A u \in Sessions : row'[u].status = "running" => row[u].status = "running" /\ want'[u] = want[u]
  BY <1>2, <1>3
<1>8. AttemptReads'
  <2> SUFFICES ASSUME work.pc # "idle", ~Gone(work.on)'
               PROVE  work.upto <= said'[work.on] /\ (LeftOut(work.upto) + 1 .. work.after \subseteq seen[work.on])'
    BY <1>1 DEF AttemptReads
  <2>1. work.on \in Sessions /\ work' = work
    BY <1>1, WorkTypes
  <2>2. ~Gone(work.on) /\ said'[work.on] = said[work.on] /\ seen'[work.on] = seen[work.on]
    BY <1>5, <2>1 DEF Gone
  <2>3. work.upto <= said[work.on] /\ LeftOut(work.upto) + 1 .. work.after \subseteq seen[work.on]
    BY <2>2 DEF RowInv, AttemptReads
  <2>4. LeftOut(work.upto)' = LeftOut(work.upto)
    BY <1>1 DEF LeftOut
  <2> QED
    BY <2>1, <2>2, <2>3, <2>4
<1>9. OffsetRead'
  BY <1>1, <1>5 DEF RowInv, OffsetRead
<1>10. ASSUME NEW u \in Sessions, row'[u].status = "none", ~dropped'[u], ~Gone(u)' PROVE HasRead(u)'
  BY <1>4, <1>5, <1>10 DEF RowInv, RowsRun, AttemptReads, OffsetRead, NoneMissed, HasRead
<1> QED
  BY <1>1, <1>6, <1>7, <1>8, <1>9, <1>10 DEF RowInv, RowsRun, NoneMissed

\* Every step keeps the rows and the worker in agreement.
LEMMA RowNext == JobsTypeOK /\ JobsTypeOK' /\ RowInv /\ [JobsNext]_jobVars => RowInv'
<1> SUFFICES ASSUME JobsTypeOK, JobsTypeOK', RowInv, [JobsNext]_jobVars PROVE RowInv'
  OBVIOUS
<1>0. kind = "recall" => \A s \in Sessions : ~Gone(s) => 1 .. offset[s].msgs \subseteq seen[s]
  BY DEF RowInv, RowsRun, AttemptReads, OffsetRead
<1>1. ASSUME NEW s \in Sessions, Say(s) PROVE RowInv'
  <2>1. \A u \in Sessions : said[u] <= said'[u]
    BY <1>1 DEF Say, JobsTypeOK
  <2>2. UNCHANGED <<kind, deletion, offset, row, work, want, seen, dropped>>
    BY <1>1 DEF Say, indexVars, ghostVars
  <2> QED
    BY <1>0, <2>1, <2>2, RowStep
<1>2. CASE (\E s \in Sessions : Remember(s)) \/ Forget \/ Toggle \/ UNCHANGED jobVars
  <2>1. UNCHANGED <<kind, deletion, offset, row, work, want, seen, dropped, said>>
    BY <1>2 DEF Remember, Forget, Toggle, indexVars, ghostVars, jobVars
  <2>2. \A u \in Sessions : said[u] <= said'[u]
    BY <2>1 DEF JobsTypeOK
  <2> QED
    BY <1>0, <2>1, <2>2, RowStep
<1>3. CASE MemoryTorn \/ Restart
  BY <1>3, RowRestart DEF MemoryTorn, Restart, indexVars, ghostVars
<1>4. CASE NotesApplied \/ MemoryApplied
  BY <1>4, RowFinish DEF NotesApplied, MemoryApplied, indexVars
<1>5. CASE IndexCommit
  <2>1. work.pc # "idle" /\ Finish(work.on) /\ UNCHANGED <<kind, deletion, said, want, dropped>>
    BY <1>5 DEF IndexCommit
  <2> DEFINE k == Cardinality(DOMAIN ChunksOf(work.on, work.upto))
  <2>2. offset' = IF Gone(work.on) THEN offset
                  ELSE [offset EXCEPT ![work.on] = [msgs |-> work.upto, chunks |-> @.chunks + k]]
    BY <1>5 DEF IndexCommit, Advanced
  <2> HIDE DEF k
  <2>3. \A s \in Sessions : offset'[s].msgs = offset[s].msgs \/ (s = work.on /\ offset'[s].msgs = work.upto)
    BY <2>2 DEF JobsTypeOK
  <2> QED
    BY <2>1, <2>3, RowFinish
<1>6. CASE CallUpserts
  <2>1. work \in Works /\ work' = [work EXCEPT !.pc = "commit"] /\ work.pc # "idle"
    BY <1>6, WorkTypes DEF CallUpserts
  <2>2. work'.pc = "commit" /\ work'.on = work.on /\ work'.upto = work.upto /\ work'.after = work.after
    BY <2>1 DEF Works
  <2>3. UNCHANGED <<kind, deletion, offset, row, want, seen, dropped, said>>
    BY <1>6 DEF CallUpserts, ghostVars
  <2>4. \A u \in Sessions : said[u] <= said'[u]
    BY <2>3 DEF JobsTypeOK
  <2> QED
    BY <1>0, <2>1, <2>2, <2>3, <2>4, RowStep
<1> QED
  BY <1>1, <1>2, <1>3, <1>4, <1>5, <1>6, RowAsk, RowClaim, RowFails, RowDeletes DEF JobsNext
-----------------------------------------------------------------------------
(* The recall index.                                                       *)

\* Every message before the offset is in a chunk with a number the offset counts,
\* and a retry or the next job writes only beyond those numbers.  Between the last
\* batch and its commit, the messages of the job are in the index as well.  A
\* deletion ends both.
Stored(s, m, c) == c \in DOMAIN chunks[s] /\ m \in chunks[s][c]
NewChunks == DOMAIN ChunksOf(work.on, work.upto)

IndexInv ==
    /\ DOMAIN chunks = Sessions /\ \A s \in Sessions : DOMAIN chunks[s] \subseteq Nat
    /\ \A s \in Sessions : deletion[s] = "no" =>
          \A m \in 1 .. offset[s].msgs : \E c \in 0 .. offset[s].chunks : Stored(s, m, c)
    /\ work.pc # "idle" /\ kind = "recall" => work.upto > offset[work.on].msgs
    /\ work.pc = "commit" =>
          /\ kind = "recall"
          /\ deletion[work.on] = "no" => \A m \in offset[work.on].msgs + 1 .. work.upto :
                \E c \in 0 .. offset[work.on].chunks + Cardinality(NewChunks) : Stored(work.on, m, c)

\* Nothing is indexed at the start.
LEMMA IndexInitInv == JobsInit => IndexInv
<1> SUFFICES ASSUME JobsInit PROVE IndexInv
  OBVIOUS
<1>1. DOMAIN chunks = Sessions /\ \A s \in Sessions : DOMAIN chunks[s] = {}
  BY DEF JobsInit
<1>2. work.pc = "idle" /\ \A s \in Sessions : offset[s].msgs = 0
  BY DEF JobsInit, Idle
<1> QED
  BY <1>1, <1>2 DEF IndexInv

\* Messages before the offset that are in a chunk can be recalled.
LEMMA IndexInvSound == IndexInv => Recallable
  BY DEF IndexInv, Recallable, Stored

\* The chunks of a job are numbered on from those the offset counts, and hold
\* every message it has read.
LEMMA ChunksCover ==
    ASSUME JobsTypeOK, NEW s \in Sessions, NEW n \in Nat, n > offset[s].msgs
    PROVE  LET new == ChunksOf(s, n)
               k   == Cardinality(DOMAIN new)
           IN  /\ k \in Nat /\ DOMAIN new = offset[s].chunks + 1 .. offset[s].chunks + k
               /\ \A m \in offset[s].msgs + 1 .. n : \E c \in DOMAIN new : m \in new[c]
<1> DEFINE o == offset[s]
           g == (n - o.msgs + ChunkSize - 1) \div ChunkSize
           new == ChunksOf(s, n)
           D == DOMAIN new
<1>1. o.msgs \in Nat /\ o.chunks \in Nat /\ ChunkSize \in Nat \ {0}
  BY JobsConstants DEF JobsTypeOK
<1>2. new = [c \in (o.chunks + 1) .. (o.chunks + g) |->
                {m \in o.msgs + 1 .. n : (m - o.msgs - 1) \div ChunkSize = c - o.chunks - 1}]
  BY DEF ChunksOf
<1>3. n - o.msgs + ChunkSize - 1 \in Nat
  BY <1>1
<1>4. g \in Nat
  BY <1>1, <1>3, Quotient
<1>5. ASSUME NEW m \in o.msgs + 1 .. n
      PROVE  (m - o.msgs - 1) \div ChunkSize \in Nat /\ (m - o.msgs - 1) \div ChunkSize + 1 <= g
  <2>1. m - o.msgs - 1 \in Nat /\ m - o.msgs - 1 + ChunkSize <= n - o.msgs + ChunkSize - 1
    BY <1>1
  <2> QED
    BY <1>1, <1>3, <2>1, Quotient, GroupsGrow
<1> HIDE DEF g, new
<1>6. D = (o.chunks + 1) .. (o.chunks + g)
  BY <1>2
<1>7. o.chunks + 1 \in Int /\ o.chunks + g \in Int /\ (o.chunks + g) - (o.chunks + 1) + 1 = g
  BY <1>1, <1>4
<1>8. Cardinality(D) = g
  <2>1. CASE o.chunks + 1 > o.chunks + g
    <3>1. g = 0
      BY <1>1, <1>4, <2>1
    <3> QED
      BY <1>6, <1>7, <2>1, <3>1, FS_Interval
  <2>2. CASE ~(o.chunks + 1 > o.chunks + g)
    BY <1>6, <1>7, <2>2, FS_Interval
  <2> QED
    BY <2>1, <2>2
<1>9. ASSUME NEW m \in o.msgs + 1 .. n PROVE \E c \in D : m \in new[c]
  <2> DEFINE q == (m - o.msgs - 1) \div ChunkSize
             c == o.chunks + 1 + q
  <2>1. q \in Nat /\ q + 1 <= g
    BY <1>5
  <2> HIDE DEF q
  <2>2. c \in (o.chunks + 1) .. (o.chunks + g) /\ q = c - o.chunks - 1
    BY <1>1, <1>4, <2>1
  <2>3. m \in new[c]
    BY <1>2, <2>2 DEF q
  <2> QED
    BY <1>6, <2>2, <2>3
<1>10. D = o.chunks + 1 .. o.chunks + Cardinality(D)
  BY <1>6, <1>8
<1> QED
  BY <1>4, <1>8, <1>9, <1>10 DEF new
\* What a batch stores leaves the counted chunks as they are.
LEMMA UpsertKeeps ==
    ASSUME JobsTypeOK, IndexInv, NEW s \in Sessions, NEW n \in Nat, n > offset[s].msgs, NEW upto \in Nat,
           chunks' = [chunks EXCEPT ![s] = Upserted(s, ChunksOf(s, n), upto)]
    PROVE  /\ DOMAIN chunks' = Sessions /\ \A u \in Sessions : DOMAIN chunks'[u] \subseteq Nat
           /\ \A u \in Sessions : \A m : \A c \in 0 .. offset[u].chunks : Stored(u, m, c) => Stored(u, m, c)'
           /\ \A c \in DOMAIN ChunksOf(s, n) : \A m \in ChunksOf(s, n)[c] :
                 c <= upto => Stored(s, m, c)'
<1> DEFINE new == ChunksOf(s, n)
           k == Cardinality(DOMAIN new)
           all == DOMAIN chunks[s] \cup {d \in DOMAIN new : d <= upto}
<1>1. k \in Nat /\ DOMAIN new = offset[s].chunks + 1 .. offset[s].chunks + k
  BY ChunksCover
<1>2. offset[s].chunks \in Nat /\ DOMAIN chunks = Sessions /\ \A u \in Sessions : DOMAIN chunks[u] \subseteq Nat
  BY DEF JobsTypeOK, IndexInv
<1> HIDE DEF new, k
<1>3. chunks' = [chunks EXCEPT ![s] =
                   [c \in all |-> IF c \in DOMAIN new /\ c <= upto THEN new[c] ELSE chunks[s][c]]]
  BY DEF Upserted, new
<1>4. /\ DOMAIN chunks' = Sessions /\ \A u \in Sessions : u # s => chunks'[u] = chunks[u]
      /\ chunks'[s] = [c \in all |-> IF c \in DOMAIN new /\ c <= upto THEN new[c] ELSE chunks[s][c]]
  BY <1>2, <1>3
<1>5. all \subseteq Nat
  BY <1>1, <1>2
<1>6. \A c \in 0 .. offset[s].chunks : c \notin DOMAIN new
  BY <1>1, <1>2
<1>7. ASSUME NEW u \in Sessions, NEW m, NEW c \in 0 .. offset[u].chunks, Stored(u, m, c)
      PROVE  Stored(u, m, c)'
  <2>1. CASE u # s
    BY <1>4, <1>7, <2>1 DEF Stored
  <2>2. CASE u = s
    BY <1>4, <1>6, <1>7, <2>2 DEF Stored
  <2> QED
    BY <2>1, <2>2
<1>8. ASSUME NEW c \in DOMAIN new, NEW m \in new[c], c <= upto PROVE Stored(s, m, c)'
  BY <1>4, <1>8 DEF Stored
<1>9. ASSUME NEW u \in Sessions PROVE DOMAIN chunks'[u] \subseteq Nat
  <2>1. DOMAIN chunks'[s] = all
    BY <1>4
  <2> QED
    BY <1>2, <1>4, <1>5, <2>1
<1>10. \A c \in DOMAIN new : \A m \in new[c] : c <= upto => Stored(s, m, c)'
  BY <1>8
<1>11. \A u \in Sessions : \A m : \A c \in 0 .. offset[u].chunks : Stored(u, m, c) => Stored(u, m, c)'
  BY <1>7
<1>12. DOMAIN chunks' = Sessions
  BY <1>4
<1> QED
  BY <1>9, <1>10, <1>11, <1>12 DEF new

\* Neither the index nor the offset changes, and the worker goes on or down.
LEMMA IndexQuiet ==
    ASSUME IndexInv, UNCHANGED <<chunks, offset, kind, deletion>>, work' = work \/ work' = Idle
    PROVE  IndexInv'
<1>1. CASE work' = Idle
  <2>1. work'.pc = "idle"
    BY <1>1 DEF Idle
  <2> QED
    BY <2>1 DEF IndexInv, Stored
<1>2. CASE work' = work
  BY <1>2 DEF IndexInv, Stored, NewChunks, ChunksOf
<1> QED
  BY <1>1, <1>2

\* A worker that starts has written nothing yet.
LEMMA IndexClaim == ASSUME JobsTypeOK, IndexInv, NEW s \in Sessions, ClaimIdleJob(s) PROVE IndexInv'
<1> DEFINE a == row[s].attempts + 1
           off == kind = "notes" /\ ~enabled
           none == kind = "recall" /\ offset[s].msgs >= said[s]
<1>0. /\ work.pc = "idle" /\ UNCHANGED <<chunks, kind, deletion>> /\ said[s] \in Nat
      /\ offset \in [Sessions -> [msgs : Nat, chunks : Nat]]
  BY DEF ClaimIdleJob, JobsTypeOK
<1>1. CASE off \/ none
  <2>1. work' = work /\ offset' = IF none /\ ~Gone(s) THEN [offset EXCEPT ![s].msgs = said[s]] ELSE offset
    BY <1>1, Zenon DEF ClaimIdleJob
  <2>2. CASE ~(none /\ ~Gone(s))
    BY <1>0, <2>1, <2>2, IndexQuiet
  <2>3. CASE none /\ ~Gone(s)
    <3>1. \A u \in Sessions : offset'[u].chunks = offset[u].chunks /\ offset'[u].msgs <= offset[u].msgs
                              /\ offset'[u].msgs \in Nat
      BY <1>0, <2>1, <2>3
    <3>2. \A u \in Sessions : 1 .. offset'[u].msgs \subseteq 1 .. offset[u].msgs
      BY <1>0, <3>1
    <3> QED
      BY <1>0, <2>1, <3>1, <3>2 DEF IndexInv, Stored
  <2> QED
    BY <2>2, <2>3
<1>2. CASE ~(off \/ none)
  <2>1. /\ offset' = offset
        /\ work' = [pc |-> "call", on |-> s, attempts |-> a, upto |-> said[s],
                    after |-> IF kind = "recall" THEN offset[s].msgs ELSE LeftOut(said[s]),
                    snapshot |-> IF kind = "memory" THEN Active ELSE {}]
    BY <1>2, Zenon DEF ClaimIdleJob
  <2>2. work'.pc = "call" /\ work'.on = s /\ work'.upto = said[s]
    BY <2>1
  <2>3. kind = "recall" => said[s] > offset[s].msgs
    BY <1>0, <1>2
  <2> QED
    BY <1>0, <2>1, <2>2, <2>3 DEF IndexInv, Stored
<1> QED
  BY <1>1, <1>2

\* A call that fails has stored only chunks a retry writes again.
LEMMA IndexFails == ASSUME JobsTypeOK, IndexInv, CallFails PROVE IndexInv'
<1>1. work.pc # "idle" /\ UNCHANGED <<offset, kind, deletion>> /\ work' = Idle
  BY DEF CallFails
<1>2. CASE chunks' = chunks
  BY <1>1, <1>2, IndexQuiet
<1>3. CASE kind = "recall"
  <2>1. PICK s \in Sessions : s = work.on
    BY <1>1, WorkTypes
  <2>2. work.upto \in Nat /\ work.upto > offset[s].msgs /\ offset[s].chunks \in Nat
    BY <1>1, <1>3, <2>1, WorkTypes DEF IndexInv, JobsTypeOK
  <2>3. PICK c \in {offset[s].chunks} \cup DOMAIN ChunksOf(s, work.upto) :
           chunks' = [chunks EXCEPT ![s] = Upserted(s, ChunksOf(s, work.upto), c)]
    BY <1>3, <2>1 DEF CallFails
  <2>4. PICK n \in Nat : n = work.upto
    BY <2>2
  <2>5. c \in Nat
    <3>1. DOMAIN ChunksOf(s, n) = offset[s].chunks + 1 .. offset[s].chunks + Cardinality(DOMAIN ChunksOf(s, n))
          /\ Cardinality(DOMAIN ChunksOf(s, n)) \in Nat
      BY <2>2, <2>4, ChunksCover
    <3> QED
      BY <2>2, <2>4, <3>1
  <2>6. /\ DOMAIN chunks' = Sessions /\ \A u \in Sessions : DOMAIN chunks'[u] \subseteq Nat
        /\ \A u \in Sessions : \A m : \A d \in 0 .. offset[u].chunks : Stored(u, m, d) => Stored(u, m, d)'
    BY <2>2, <2>3, <2>4, <2>5, UpsertKeeps
  <2>7. work'.pc = "idle"
    BY <1>1 DEF Idle
  <2> QED
    BY <1>1, <2>6, <2>7 DEF IndexInv
<1> QED
  BY <1>2, <1>3 DEF CallFails

\* The chunks that are stored reach as far as the job has read.
LEMMA IndexUpserts == ASSUME JobsTypeOK, IndexInv, CallUpserts PROVE IndexInv'
<1>1. work.pc = "call" /\ kind = "recall" /\ UNCHANGED <<offset, kind, deletion>> /\ work' = [work EXCEPT !.pc = "commit"]
  BY DEF CallUpserts
<1>2. PICK s \in Sessions : s = work.on
  BY <1>1, WorkTypes
<1>3. PICK n \in Nat : n = work.upto
  BY <1>1, WorkTypes
<1>4. work'.pc = "commit" /\ work'.on = s /\ work'.upto = n
  BY <1>1, <1>2, <1>3, WorkTypes DEF Works
<1>5. n > offset[s].msgs /\ offset[s].chunks \in Nat
  BY <1>1, <1>2, <1>3 DEF IndexInv, JobsTypeOK
<1> DEFINE new == ChunksOf(s, n)
           k == Cardinality(DOMAIN new)
<1>6. /\ k \in Nat /\ DOMAIN new = offset[s].chunks + 1 .. offset[s].chunks + k
      /\ \A m \in offset[s].msgs + 1 .. n : \E c \in DOMAIN new : m \in new[c]
  BY <1>5, ChunksCover
<1>7. PICK upto \in Nat : upto = offset[s].chunks + k
  BY <1>5, <1>6
<1>8. chunks' = [chunks EXCEPT ![s] = Upserted(s, new, upto)]
  BY <1>2, <1>3, <1>7 DEF CallUpserts
<1>9. /\ DOMAIN chunks' = Sessions /\ \A u \in Sessions : DOMAIN chunks'[u] \subseteq Nat
      /\ \A u \in Sessions : \A m : \A c \in 0 .. offset[u].chunks : Stored(u, m, c) => Stored(u, m, c)'
      /\ \A c \in DOMAIN new : \A m \in new[c] : c <= upto => Stored(s, m, c)'
  BY <1>5, <1>8, UpsertKeeps
<1>10. NewChunks' = DOMAIN new
  BY <1>1, <1>4 DEF NewChunks, ChunksOf
<1> HIDE DEF new
<1>11. \A m \in offset[s].msgs + 1 .. n : \E c \in 0 .. offset[s].chunks + k : Stored(s, m, c)'
  BY <1>5, <1>6, <1>7, <1>9
<1>12. \A u \in Sessions : deletion[u] = "no" =>
          \A m \in 1 .. offset[u].msgs : \E c \in 0 .. offset[u].chunks : Stored(u, m, c)'
  BY <1>9 DEF IndexInv
<1>13. offset'[s].msgs = offset[s].msgs /\ offset'[s].chunks = offset[s].chunks /\ kind' = "recall"
       /\ deletion' = deletion /\ \A u \in Sessions : offset'[u] = offset[u]
  BY <1>1
<1> QED
  BY <1>4, <1>5, <1>9, <1>10, <1>11, <1>12, <1>13 DEF IndexInv

\* The commit moves the offset over the chunks that were written.
LEMMA IndexCommits == ASSUME JobsTypeOK, IndexInv, IndexCommit PROVE IndexInv'
<1>1. work.pc = "commit" /\ UNCHANGED <<chunks, kind, deletion>> /\ work' = Idle
  BY DEF IndexCommit, Finish
<1>2. PICK s \in Sessions : s = work.on
  BY <1>1, WorkTypes
<1>3. PICK n \in Nat : n = work.upto
  BY <1>1, WorkTypes
<1>4. n > offset[s].msgs /\ offset[s].msgs \in Nat /\ offset[s].chunks \in Nat
  BY <1>1, <1>2, <1>3 DEF IndexInv, JobsTypeOK
<1> DEFINE k == Cardinality(NewChunks)
<1>5. k \in Nat
  BY <1>2, <1>3, <1>4, ChunksCover DEF NewChunks
<1>6. offset' = IF Gone(s) THEN offset ELSE [offset EXCEPT ![s] = [msgs |-> n, chunks |-> @.chunks + k]]
  BY <1>2, <1>3 DEF IndexCommit, Advanced, NewChunks
<1>7. deletion[s] = "no" => \A m \in offset[s].msgs + 1 .. n : \E c \in 0 .. offset[s].chunks + k : Stored(s, m, c)
  BY <1>1, <1>2, <1>3 DEF IndexInv
<1> HIDE DEF k
<1>8. /\ deletion[s] = "no" => offset'[s].msgs = n /\ offset'[s].chunks = offset[s].chunks + k
      /\ \A u \in Sessions : u # s => offset'[u] = offset[u]
  BY <1>6 DEF JobsTypeOK, Gone
<1>9. ASSUME NEW u \in Sessions, deletion[u] = "no", NEW m \in 1 .. offset'[u].msgs
      PROVE  \E c \in 0 .. offset'[u].chunks : Stored(u, m, c)
  <2>1. CASE u # s
    BY <1>8, <1>9, <2>1 DEF IndexInv
  <2>2. CASE u = s /\ m > offset[s].msgs
    BY <1>4, <1>7, <1>8, <1>9, <2>2
  <2>3. CASE u = s /\ ~(m > offset[s].msgs)
    <3>1. m \in 1 .. offset[s].msgs
      BY <1>4, <1>8, <1>9, <2>3
    <3>2. PICK c \in 0 .. offset[s].chunks : Stored(s, m, c)
      BY <1>9, <2>3, <3>1 DEF IndexInv
    <3>3. c \in 0 .. offset[s].chunks + k
      BY <1>4, <1>5
    <3> QED
      BY <1>8, <1>9, <2>3, <3>2, <3>3
  <2> QED
    BY <2>1, <2>2, <2>3
<1>10. work'.pc = "idle"
  BY <1>1 DEF Idle
<1> QED
  BY <1>1, <1>9, <1>10 DEF IndexInv, Stored

\* Every step keeps chunks and offset in agreement.
LEMMA IndexNext == JobsTypeOK /\ IndexInv /\ [JobsNext]_jobVars => IndexInv'
<1> SUFFICES ASSUME JobsTypeOK, IndexInv, [JobsNext]_jobVars PROVE IndexInv'
  OBVIOUS
<1>1. ASSUME NEW s \in Sessions, Say(s) \/ Ask(s) \/ Remember(s) PROVE IndexInv'
  BY <1>1, IndexQuiet DEF Say, Ask, Remember, indexVars
<1>2. CASE NotesApplied \/ MemoryApplied
  BY <1>2, IndexQuiet DEF NotesApplied, MemoryApplied, Finish, indexVars
<1>3. CASE MemoryTorn \/ Restart \/ Forget \/ Toggle \/ UNCHANGED jobVars
  BY <1>3, IndexQuiet DEF MemoryTorn, Restart, Forget, Toggle, indexVars, jobVars
<1>4. ASSUME NEW s \in Sessions, PurgeVectors(s) \/ DeleteRows(s) PROVE IndexInv'
  <2>1. UNCHANGED <<kind, work, offset>>
    BY <1>4 DEF PurgeVectors, DeleteRows, indexVars
  <2>2. deletion'[s] # "no" /\ \A u \in Sessions : u # s => deletion'[u] = deletion[u] /\ chunks'[u] = chunks[u]
    BY <1>4 DEF PurgeVectors, DeleteRows, indexVars, JobsTypeOK, IndexInv
  <2>3. DOMAIN chunks' = Sessions /\ (chunks'[s] = chunks[s] \/ chunks'[s] = <<>>)
    BY <1>4 DEF PurgeVectors, DeleteRows, indexVars, IndexInv
  <2>4. ASSUME NEW u \in Sessions PROVE DOMAIN chunks'[u] \subseteq Nat
    BY <2>2, <2>3 DEF IndexInv
  <2>5. ASSUME NEW u \in Sessions, deletion'[u] = "no", NEW m, NEW c
        PROVE  deletion[u] = "no" /\ (Stored(u, m, c) => Stored(u, m, c)')
    BY <2>2, <2>5 DEF Stored
  <2>6. \A u \in Sessions : deletion'[u] = "no" =>
           \A m \in 1 .. offset'[u].msgs : \E c \in 0 .. offset'[u].chunks : Stored(u, m, c)'
    BY <2>1, <2>5 DEF IndexInv
  <2>7. NewChunks' = NewChunks
    BY <2>1 DEF NewChunks, ChunksOf
  <2>8. work.pc = "commit" => kind = "recall" /\ (deletion'[work.on] = "no" =>
           \A m \in offset[work.on].msgs + 1 .. work.upto :
              \E c \in 0 .. offset[work.on].chunks + Cardinality(NewChunks) : Stored(work.on, m, c)')
    <3> SUFFICES ASSUME work.pc = "commit"
                 PROVE  kind = "recall" /\ (deletion'[work.on] = "no" =>
                           \A m \in offset[work.on].msgs + 1 .. work.upto :
                              \E c \in 0 .. offset[work.on].chunks + Cardinality(NewChunks) : Stored(work.on, m, c)')
      OBVIOUS
    <3>1. work.on \in Sessions
      BY WorkTypes
    <3> QED
      BY <2>1, <2>5, <3>1 DEF IndexInv, Stored
  <2> QED
    BY <2>1, <2>3, <2>4, <2>6, <2>7, <2>8 DEF IndexInv, Stored
<1> QED
  BY <1>1, <1>2, <1>3, <1>4, IndexClaim, IndexFails, IndexUpserts, IndexCommits DEF JobsNext

-----------------------------------------------------------------------------
(* The theorems.                                                           *)

JobsInv == JobsTypeOK /\ MemInv /\ RowInv /\ IndexInv

\* The three invariants together always hold.
LEMMA JobsInvariance == JobsSpec => []JobsInv
<1>1. JobsInit => JobsInv
  <2> SUFFICES ASSUME JobsInit PROVE JobsInv
    OBVIOUS
  <2>1. JobsTypeOK
    BY DEF JobsInit, JobsTypeOK, NoRow, Rows
  <2>2. RowInv
    <3>1. LeftOut(0) = 0 /\ 0 + 1 .. 0 = {}
      BY JobsConstants DEF LeftOut
    <3>2. \A s \in Sessions : want[s] = 0 /\ said[s] = 0 /\ row[s].status = "none" /\ offset[s].msgs = 0
      BY DEF JobsInit, NoRow
    <3>3. \A s \in Sessions : HasRead(s)
      BY <3>1, <3>2 DEF HasRead
    <3>4. RowsRun /\ AttemptReads /\ OffsetRead
      BY <3>1, <3>2 DEF JobsInit, Idle, RowsRun, AttemptReads, OffsetRead
    <3> QED
      BY <3>3, <3>4 DEF RowInv, NoneMissed
  <2> QED
    BY <2>1, <2>2, MemInitInv, IndexInitInv DEF JobsInv
<1>2. JobsInv /\ [JobsNext]_jobVars => JobsInv'
  BY JobsTypes, MemNext, RowNext, IndexNext DEF JobsInv
<1> QED
  BY <1>1, <1>2, PTL DEF JobsSpec

\* A job asked for again while an attempt is under way is not lost: one reads the
\* conversation as it is by then, as much of it as the worker's prompt holds; and a
\* message before the offset is in the index until its session is being deleted,
\* whatever fails or is retried in between (process_pending_once of the workers).
THEOREM NothingForgottenHolds == JobsSpec => []NothingForgotten
<1>1. JobsInv => NothingForgotten
  BY IndexInvSound DEF JobsInv, RowInv, NothingForgotten
<1> QED
  BY <1>1, JobsInvariance, PTL

\* What was written for a channel's session is of low trust through any number of
\* updates, and stays out of the prompt, unless the session had been deleted when
\* it was written (memory_extract.apply_extraction, skills/memory).
THEOREM PromptCleanHolds == JobsSpec => []PromptClean
<1>1. JobsInv => PromptClean
  BY MemInvSound DEF JobsInv
<1> QED
  BY <1>1, JobsInvariance, PTL

-----------------------------------------------------------------------------
(* Documents distilled.                                                    *)

DistillSpec == DistillInit /\ [][DistillNext]_distillVars

Mtimes == Nat \ {0}
DocRows == [status : {"pending", "running", "failed", "skipped"}, user : Users, mtime : Mtimes,
            attempts : Nat, cancelled : BOOLEAN, origin : {"auto", "manual"}]
Answers == Users \X Files \X Mtimes
DocWork == [pc : {"creds", "text", "index"}, file : Files, day : Nat]
DocScans ==
    [pc : {"walk"}, user : Users, known : [Files -> SUBSET Nat], asked : SUBSET Files]
      \cup [pc : {"enqueue"}, user : Users, known : [Files -> SUBSET Nat], asked : SUBSET Files,
            found : [Files -> Nat]]
DocNotes == [status : {"none", "draft", "curated"}, mtime : Nat, stale : BOOLEAN]

DistillTypeOK ==
    /\ disk \in [Files -> Nat]
    /\ jobs \in [Files -> DocRows \cup {NoJob}] /\ queued \in [Files -> Nat]
    /\ summary \in [Users \X Files -> DocNotes]
    /\ settings \in [Users -> [root : BOOLEAN, model : BOOLEAN]]
    /\ quota \in [Users -> [day : Nat, used : Nat]] /\ today \in Nat
    /\ worker \in DocWork \cup {NoWork}
    /\ scan \in DocScans \cup {NoScan}
    /\ refused \subseteq Answers /\ made \subseteq Answers
    /\ autos \in [Users -> Nat]

\* The row is running exactly while the worker has it in hand.
DocOpen(f) == jobs[f].status \in {"pending", "running"}
DocInHand ==
    /\ worker.pc # "idle" => jobs[worker.file].status = "running"
    /\ \A f \in Files : jobs[f].status = "running" => worker.pc # "idle" /\ worker.file = f

\* A queue has an oldest row.
LEMMA DocOldest ==
    ASSUME queued \in [Files -> Nat], NEW fs \in SUBSET Files, fs # {}
    PROVE  Oldest(fs) \in fs
<1> DEFINE S == {queued[f] : f \in fs}
           Below == {ss \in Nat \X Nat : ss[1] < ss[2]}
<1>1. Below = OpToRel(<, Nat)
  BY Zenon DEF OpToRel
<1>2. IsWellFoundedOn(Below, Nat)
  BY <1>1, NatLessThanWellFounded, Zenon
<1>3. S \in SUBSET Nat /\ S # {}
  OBVIOUS
<1> HIDE DEF S
<1>4. PICK x \in S : \A y \in S : ~(<<y, x>> \in Below)
  BY <1>2, <1>3, WFMin, Zenon
<1>5. ASSUME NEW y \in S PROVE x <= y
  <2>1. y \in Nat /\ x \in Nat
    BY <1>3
  <2>2. y < x => <<y, x>> \in Below
    BY <2>1
  <2> QED
    BY <1>4, <2>1, <2>2
<1>6. PICK f \in fs : queued[f] = x
  BY <1>4 DEF S
<1>7. \A g \in fs : queued[f] <= queued[g]
  BY <1>5, <1>6 DEF S
<1> QED
  BY <1>7 DEF Oldest

\* Rows put at the end have places.
LEMMA ToEndPlaces ==
    ASSUME NEW q \in [Files -> Nat], NEW fs \in SUBSET Files
    PROVE  ToEnd(q, fs) \in [Files -> Nat]
<1>1. ASSUME NEW T \in SUBSET Files PROVE Cardinality(T) \in Nat
  BY FS_Subset, FS_CardinalityType, DistillConstants
<1>2. Cardinality(Files \ fs) \in Nat
  BY <1>1
<1>3. ASSUME NEW f \in Files PROVE Cardinality({g \in Files \ fs : q[g] < q[f]}) \in Nat
  BY <1>1
<1> QED
  BY <1>2, <1>3 DEF ToEnd

\* What the claim takes is a pending row, of the oldest when it is automatic.
LEMMA DocClaimed ==
    ASSUME DistillTypeOK, NEW ok \in BOOLEAN, Claimable(ok) # {}
    PROVE  /\ Oldest(Claimable(ok)) \in Pending
           /\ jobs[Oldest(Claimable(ok))].origin = "manual" \/ (ok /\ Claimable(ok) = Pending)
<1>1. Claimable(ok) \subseteq Pending /\ Pending \subseteq Files
  BY DEF Claimable, Pending
<1>2. Oldest(Claimable(ok)) \in Claimable(ok)
  BY <1>1, DocOldest DEF DistillTypeOK
<1> QED
  BY <1>1, <1>2 DEF Claimable

\* What the upsert writes is a row.
LEMMA DocEnqueued ==
    ASSUME DistillTypeOK, NEW u \in Users, NEW f \in Files, NEW m \in Mtimes,
           NEW o \in {"auto", "manual"}
    PROVE  Enqueued(u, f, m, o) \in DocRows
  BY DEF DistillTypeOK, Enqueued, DocRows, NoJob

\* At the start.
LEMMA DocInitType == DistillInit => DistillTypeOK /\ DocInHand
  BY DEF DistillInit, DistillTypeOK, DocInHand, DocNotes, NoJob, NoWork, NoScan, NoSummary

\* The job in hand is settled by giving up or by another attempt: what both keep.
DocLeft(j) == /\ j \in DocRows /\ j.status \in {"pending", "failed", "skipped"}
              /\ j.user = jobs[worker.file].user /\ j.mtime = jobs[worker.file].mtime
              /\ j.origin = jobs[worker.file].origin

\* A worker that is busy has the row of a document in hand.
LEMMA DocBusy ==
    ASSUME DistillTypeOK, DocInHand, worker.pc # "idle"
    PROVE  worker \in DocWork /\ worker.file \in Files /\ jobs[worker.file] \in DocRows
  BY DEF DistillTypeOK, DocInHand, NoWork, DocWork, NoJob

\* Failing and skipping both leave the row with its user, time and origin.
LEMMA DocLeaves ==
    ASSUME DistillTypeOK, DocInHand, worker.pc # "idle", NEW a \in Nat
    PROVE  DocLeft(FailJob(jobs[worker.file], a)) /\ DocLeft(SkipJob(jobs[worker.file]))
  BY DocBusy DEF DocLeft, FailJob, SkipJob, DocRows

\* Settling the job in hand keeps the types and frees the worker.
LEMMA DocSettled ==
    ASSUME DistillTypeOK, DocInHand, worker.pc # "idle", NEW j, DocLeft(j), Settle(j)
    PROVE  /\ jobs' \in [Files -> DocRows \cup {NoJob}] /\ worker' \in DocWork \cup {NoWork}
           /\ refused' \subseteq Answers /\ DocInHand'
<1>1. worker \in DocWork /\ worker.file \in Files
  BY DocBusy
<1>2. jobs' = [jobs EXCEPT ![worker.file] = j] /\ worker' = NoWork
  BY DEF Settle
<1>3. jobs' \in [Files -> DocRows \cup {NoJob}]
  BY <1>1, <1>2 DEF DistillTypeOK, DocLeft
<1>4. <<j.user, worker.file, j.mtime>> \in Answers
  BY <1>1 DEF DocRows, Answers, DocLeft
<1>5. refused' \subseteq Answers
  BY <1>4 DEF Settle, DistillTypeOK
<1>6. DocInHand'
  BY <1>1, <1>2 DEF DocInHand, NoWork, DistillTypeOK, DocLeft
<1> QED
  BY <1>2, <1>3, <1>5, <1>6

\* A step of the worker before it applies anything settles the row, or goes on.
LEMMA DocTries ==
    ASSUME DistillTypeOK, DocInHand, DistillCreds \/ DistillFails
    PROVE  /\ worker.pc \in {"creds", "text"}
           /\ \/ \E j \in DocRows : DocLeft(j) /\ Settle(j)
              \/ /\ worker.pc = "creds" /\ worker' = [worker EXCEPT !.pc = "text"]
                 /\ UNCHANGED <<jobs, refused>>
           /\ UNCHANGED <<disk, queued, summary, settings, quota, today, scan, made, autos>>
<1>1. worker.pc \in {"creds", "text"}
  BY DEF DistillCreds, DistillFails
<1>2. jobs[worker.file].attempts \in Nat /\ MaxTries \in Nat
  BY <1>1, DocBusy, DistillConstants DEF DocRows
<1>3. /\ DocLeft(FailJob(jobs[worker.file], jobs[worker.file].attempts))
      /\ DocLeft(FailJob(jobs[worker.file], MaxTries)) /\ DocLeft(SkipJob(jobs[worker.file]))
  BY <1>1, <1>2, DocLeaves
<1>4. \/ Settle(FailJob(jobs[worker.file], jobs[worker.file].attempts))
      \/ Settle(FailJob(jobs[worker.file], MaxTries)) \/ Settle(SkipJob(jobs[worker.file]))
      \/ worker.pc = "creds" /\ worker' = [worker EXCEPT !.pc = "text"] /\ UNCHANGED <<jobs, refused>>
  BY DEF DistillCreds, DistillFails, Fails
<1>5. ASSUME NEW j, DocLeft(j) PROVE j \in DocRows
  BY <1>5 DEF DocLeft
<1> QED
  BY <1>1, <1>3, <1>4, <1>5 DEF DistillCreds, DistillFails

\* A claim takes a pending row; the quota of its user lasts, or it is a manual one.
DocTaken(f) == [jobs[f] EXCEPT !.status = "running", !.attempts = @ + 1]
DocClaims(f) ==
    /\ f \in Files /\ jobs[f].status = "pending" /\ jobs[f] \in DocRows
    /\ DocTaken(f) \in DocRows /\ DocTaken(f).status = "running" /\ DocTaken(f).user = jobs[f].user
    /\ DocTaken(f).mtime = jobs[f].mtime /\ DocTaken(f).origin = jobs[f].origin
    /\ SkipJob(DocTaken(f)) \in DocRows /\ SkipJob(DocTaken(f)).status = "skipped"
    /\ SkipJob(DocTaken(f)).user = jobs[f].user /\ SkipJob(DocTaken(f)).mtime = jobs[f].mtime
    /\ jobs[f].origin = "manual" \/ QuotaRemaining(jobs[f].user, today) > 0
    /\ \/ /\ jobs' = [jobs EXCEPT ![f] = SkipJob(DocTaken(f))]
          /\ refused' = refused \cup {<<jobs[f].user, f, jobs[f].mtime>>}
          /\ worker' = worker
       \/ /\ jobs' = [jobs EXCEPT ![f] = DocTaken(f)]
          /\ worker' = [pc |-> "creds", file |-> f, day |-> today]
          /\ refused' = refused

\* The claim as a step of one pending row.
LEMMA DocClaiming ==
    ASSUME DistillTypeOK, DistillClaim
    PROVE  /\ worker.pc = "idle" /\ \E f \in Files : DocClaims(f)
           /\ UNCHANGED <<disk, queued, summary, settings, quota, today, scan, made, autos>>
<1> DEFINE ok == QuotaRemaining(jobs[Oldest(Pending)].user, today) > 0
           f == Oldest(Claimable(ok))
<1>1. Claimable(ok) # {} /\ ok \in BOOLEAN
  <2>1. Claimable(ok) # {}
    BY Zenon DEF DistillClaim
  <2> QED
    BY <2>1
<1>2. f \in Pending /\ (jobs[f].origin = "manual" \/ (ok /\ f = Oldest(Pending)))
  BY <1>1, DocClaimed
<1>3. f \in Files /\ jobs[f].status = "pending"
  BY <1>2 DEF Pending
<1>4. jobs[f] \in DocRows
  BY <1>3 DEF DistillTypeOK, NoJob
<1>5. jobs[f].origin = "manual" \/ QuotaRemaining(jobs[f].user, today) > 0
  BY <1>2
<1>6. \/ /\ jobs' = [jobs EXCEPT ![f] = SkipJob(DocTaken(f))]
         /\ refused' = refused \cup {<<DocTaken(f).user, f, DocTaken(f).mtime>>} /\ worker' = worker
      \/ /\ jobs' = [jobs EXCEPT ![f] = DocTaken(f)]
         /\ worker' = [pc |-> "creds", file |-> f, day |-> today] /\ refused' = refused
  BY DEF DistillClaim, DocTaken
<1> HIDE DEF f
<1>7. /\ DocTaken(f) \in DocRows /\ DocTaken(f).status = "running" /\ DocTaken(f).user = jobs[f].user
      /\ DocTaken(f).mtime = jobs[f].mtime /\ DocTaken(f).origin = jobs[f].origin
  <2> DEFINE a == jobs[f].attempts + 1
  <2>1. a \in Nat
    BY <1>4 DEF DocRows
  <2>2. DocTaken(f) = [jobs[f] EXCEPT !.status = "running", !.attempts = a]
    BY <1>4 DEF DocTaken, DocRows
  <2> HIDE DEF a
  <2> QED
    BY <1>4, <2>1, <2>2 DEF DocRows
<1>8. /\ SkipJob(DocTaken(f)) \in DocRows /\ SkipJob(DocTaken(f)).status = "skipped"
      /\ SkipJob(DocTaken(f)).user = jobs[f].user /\ SkipJob(DocTaken(f)).mtime = jobs[f].mtime
  BY <1>7 DEF SkipJob, DocRows
<1>9. DocClaims(f)
  BY <1>3, <1>4, <1>5, <1>6, <1>7, <1>8 DEF DocClaims
<1> QED
  BY <1>3, <1>9 DEF DistillClaim

\* A draft takes the time of the document it was made from; a curated note keeps its own.
LEMMA DocApplied ==
    ASSUME NEW s \in DocNotes, NEW m \in Nat
    PROVE  /\ Applied(s, m) \in DocNotes
           /\ s.status = "curated" => Applied(s, m).status = "curated" /\ Applied(s, m).mtime = s.mtime
           /\ s.status # "curated" => Applied(s, m).status = "draft" /\ Applied(s, m).mtime = m
  BY DEF Applied, DocNotes

\* What finishing the job in hand spends.
LEMMA DocSpent ==
    ASSUME DistillTypeOK, DocInHand, worker.pc # "idle"
    PROVE  Spent \in [Users -> [day : Nat, used : Nat]]
<1> DEFINE j == jobs[worker.file]
<1>1. /\ worker.file \in Files /\ worker.day \in Nat /\ j.user \in Users
  BY DocBusy DEF DocRows, DocWork
<1>2. QuotaUsed(j.user, worker.day) + 1 \in Nat
  BY <1>1 DEF QuotaUsed, DistillTypeOK
<1>3. QuotaConsume(j.user, worker.day) \in [Users -> [day : Nat, used : Nat]]
  BY <1>1, <1>2 DEF QuotaConsume, DistillTypeOK
<1> QED
  BY <1>3 DEF Spent, DistillTypeOK

\* The job in hand is finished: its row goes.
LEMMA DocFinishing ==
    ASSUME DistillTypeOK, DocInHand, worker.pc # "idle", Finished(worker.file)
    PROVE  /\ jobs' = [jobs EXCEPT ![worker.file] = NoJob] /\ worker' = NoWork
           /\ quota' \in [Users -> [day : Nat, used : Nat]] /\ quota' = Spent
           /\ jobs' \in [Files -> DocRows \cup {NoJob}] /\ DocInHand'
<1>1. worker.file \in Files
  BY DocBusy
<1>2. jobs' = [jobs EXCEPT ![worker.file] = NoJob] /\ worker' = NoWork /\ quota' = Spent
  BY DEF Finished
<1>3. jobs' \in [Files -> DocRows \cup {NoJob}]
  BY <1>1, <1>2 DEF DistillTypeOK
<1>4. DocInHand'
  BY <1>1, <1>2 DEF DocInHand, DistillTypeOK, NoJob, NoWork
<1> QED
  BY <1>2, <1>3, <1>4, DocSpent

\* The note is committed: it takes the time of its row, unless it is curated.
DocCommits(k, n) ==
    /\ \E s \in DocNotes :
         /\ summary' = [summary EXCEPT ![k] = s]
         /\ summary[k].status = "curated" => s.status = "curated" /\ s.mtime = summary[k].mtime
         /\ summary[k].status # "curated" => s.status = "draft" /\ s.mtime = n[3]
    /\ made' = made \cup {n}
    /\ autos' = autos \/ autos' = [autos EXCEPT ![n[1]] = @ + 1]
LEMMA DocCommitted ==
    ASSUME DistillTypeOK, DocInHand, worker.pc # "idle", NoteCommitted
    PROVE  LET f == worker.file
               k == <<jobs[f].user, f>>
           IN /\ f \in Files /\ jobs[f] \in DocRows /\ jobs[f].status = "running"
              /\ k \in Users \X Files /\ summary[k] \in DocNotes /\ InHand \in Answers
              /\ DocCommits(k, InHand)
              /\ summary' \in [Users \X Files -> DocNotes] /\ autos' \in [Users -> Nat]
<1> DEFINE f == worker.file
           k == <<jobs[f].user, f>>
<1>1. f \in Files /\ jobs[f] \in DocRows /\ jobs[f].status = "running"
  BY DocBusy DEF DocInHand
<1>2. k \in Users \X Files /\ InHand \in Answers
  BY <1>1 DEF DocRows, InHand, Answers
<1>3. summary[k] \in DocNotes /\ jobs[f].mtime \in Nat
  BY <1>1, <1>2 DEF DistillTypeOK, DocRows, Mtimes
<1>4. InHand[1] = jobs[f].user /\ InHand[2] = f /\ InHand[3] = jobs[f].mtime
  BY DEF InHand
<1>5. summary' = [summary EXCEPT ![k] = Applied(summary[k], jobs[f].mtime)]
  BY <1>2, <1>4 DEF NoteCommitted, DistillTypeOK
<1> DEFINE s == Applied(summary[k], jobs[f].mtime)
<1> HIDE DEF k
<1>6. /\ s \in DocNotes
      /\ summary[k].status = "curated" => s.status = "curated" /\ s.mtime = summary[k].mtime
      /\ summary[k].status # "curated" => s.status = "draft" /\ s.mtime = jobs[f].mtime
  BY <1>3, DocApplied
<1> HIDE DEF s
<1>7. made' = made \cup {InHand} /\ (autos' = autos \/ autos' = [autos EXCEPT ![InHand[1]] = @ + 1])
  BY DEF NoteCommitted
<1>8. DocCommits(k, InHand)
  BY <1>4, <1>5, <1>6, <1>7 DEF DocCommits, s
<1>9. summary' \in [Users \X Files -> DocNotes]
  BY <1>2, <1>5, <1>6 DEF DistillTypeOK, s
<1>10. autos' \in [Users -> Nat]
  <2>1. InHand[1] \in Users
    BY <1>1, <1>4 DEF DocRows
  <2>2. [autos EXCEPT ![InHand[1]] = @ + 1] \in [Users -> Nat]
    BY <2>1 DEF DistillTypeOK
  <2> QED
    BY <1>7, <2>2 DEF DistillTypeOK
<1> QED
  BY <1>1, <1>2, <1>3, <1>8, <1>9, <1>10 DEF k

\* The times remembered of a document, one kind after the other.
LEMMA TimesAre ==
    ASSUME NEW f \in Files, NEW t
    PROVE  t \in Times(f) <=>
             \/ t = 1
             \/ t = disk[f]
             \/ \E u \in Users : t = summary[<<u, f>>].mtime
             \/ jobs[f].status # "none" /\ t = jobs[f].mtime
             \/ scan.pc = "enqueue" /\ t = scan.found[f]
             \/ \E r \in made \cup refused : r[2] = f /\ t = r[3]
<1>1. t \in (IF jobs[f].status = "none" THEN {} ELSE {jobs[f].mtime})
        <=> jobs[f].status # "none" /\ t = jobs[f].mtime
  OBVIOUS
<1>2. t \in (IF scan.pc = "enqueue" THEN {scan.found[f]} ELSE {})
        <=> scan.pc = "enqueue" /\ t = scan.found[f]
  OBVIOUS
<1>3. t \in {r[3] : r \in {q \in made \cup refused : q[2] = f}}
        <=> \E r \in made \cup refused : r[2] = f /\ t = r[3]
  OBVIOUS
<1> QED
  BY <1>1, <1>2, <1>3, Zenon DEF Times

\* They are times.
LEMMA DocTimesNat ==
    ASSUME DistillTypeOK, NEW f \in Files, NEW t \in Times(f)
    PROVE  t \in Nat
<1>1. \A s \in made \cup refused : s[3] \in Nat
  BY DEF DistillTypeOK, Answers, Mtimes
<1>2. \A u \in Users : summary[<<u, f>>].mtime \in Nat
  BY DEF DistillTypeOK, DocNotes
<1>3. jobs[f].status # "none" => jobs[f].mtime \in Nat
  BY DEF DistillTypeOK, DocRows, NoJob, Mtimes
<1>4. scan.pc = "enqueue" => scan.found[f] \in Nat
  BY DEF DistillTypeOK, DocScans, NoScan
<1>5. disk[f] \in Nat
  BY DEF DistillTypeOK
<1>6. \/ t = 1
      \/ t = disk[f]
      \/ \E u \in Users : t = summary[<<u, f>>].mtime
      \/ jobs[f].status # "none" /\ t = jobs[f].mtime
      \/ scan.pc = "enqueue" /\ t = scan.found[f]
      \/ \E r \in made \cup refused : r[2] = f /\ t = r[3]
  BY TimesAre, SMT
<1>7. (\E u \in Users : t = summary[<<u, f>>].mtime) => t \in Nat
  BY <1>2
<1>8. (\E r \in made \cup refused : r[2] = f /\ t = r[3]) => t \in Nat
  BY <1>1
<1>9. 1 \in Nat
  OBVIOUS
<1> QED
  BY <1>3, <1>4, <1>5, <1>6, <1>7, <1>8, <1>9, Zenon

\* Types and the hand of the worker.
LEMMA DocTypeStep ==
    ASSUME DistillTypeOK, DocInHand, [DistillNext]_distillVars
    PROVE  DistillTypeOK' /\ DocInHand'
<1>1. CASE DistillClaim
  <2>1. PICK f \in Files : DocClaims(f)
    BY <1>1, DocClaiming
  <2>2. worker.pc = "idle" /\ UNCHANGED <<disk, queued, summary, settings, quota, today, scan, made, autos>>
    BY <1>1, DocClaiming
  <2>3. PICK j \in DocRows : jobs' = [jobs EXCEPT ![f] = j] /\ j.status \in {"running", "skipped"}
                             /\ (j.status = "running" => worker' = [pc |-> "creds", file |-> f, day |-> today])
                             /\ (j.status = "skipped" => worker' = worker)
    BY <2>1 DEF DocClaims
  <2>4. jobs' \in [Files -> DocRows \cup {NoJob}]
    BY <2>3 DEF DistillTypeOK
  <2>5. worker' \in DocWork \cup {NoWork}
    BY <2>3 DEF DistillTypeOK, DocWork
  <2>6. <<jobs[f].user, f, jobs[f].mtime>> \in Answers
    BY <2>1 DEF DocClaims, DocRows, Answers
  <2>7. refused' \subseteq Answers
    BY <2>1, <2>6 DEF DocClaims, DistillTypeOK
  <2>8. DocInHand'
    BY <2>2, <2>3 DEF DocInHand, DistillTypeOK
  <2> QED
    BY <2>2, <2>4, <2>5, <2>7, <2>8 DEF DistillTypeOK
<1>2. CASE DistillCreds \/ DistillFails
  <2>1. worker.pc # "idle" /\ UNCHANGED <<disk, queued, summary, settings, quota, today, scan, made, autos>>
    BY <1>2, DocTries
  <2>2. CASE worker.pc = "creds" /\ worker' = [worker EXCEPT !.pc = "text"] /\ UNCHANGED <<jobs, refused>>
    <3>1. worker' \in DocWork /\ worker'.file = worker.file /\ worker'.pc # "idle"
      BY <2>1, <2>2, DocBusy DEF DocWork
    <3> QED
      BY <2>1, <2>2, <3>1 DEF DistillTypeOK, DocInHand
  <2>3. ASSUME NEW j \in DocRows, DocLeft(j), Settle(j) PROVE DistillTypeOK' /\ DocInHand'
    BY <2>1, <2>3, DocSettled DEF DistillTypeOK
  <2> QED
    BY <1>2, <2>2, <2>3, DocTries
<1>3. CASE DistillApply
  <2>1. /\ worker \in DocWork /\ summary' \in [Users \X Files -> DocNotes] /\ autos' \in [Users -> Nat]
        /\ made' \subseteq Answers /\ UNCHANGED <<disk, queued, settings, today, scan, refused>>
    BY <1>3, DocBusy, DocCommitted DEF DistillApply, DocCommits, DistillTypeOK
  <2>2. CASE Finished(worker.file)
    BY <1>3, <2>1, <2>2, DocFinishing DEF DistillApply, DistillTypeOK
  <2>3. CASE worker' = [worker EXCEPT !.pc = "index"] /\ UNCHANGED <<jobs, quota>>
    <3>1. worker' \in DocWork /\ worker'.file = worker.file /\ worker'.pc = "index"
      BY <2>1, <2>3 DEF DocWork
    <3>2. DocInHand'
      BY <1>3, <2>3, <3>1 DEF DocInHand, DistillApply
    <3> QED
      BY <2>1, <2>3, <3>1, <3>2 DEF DistillTypeOK
  <2> QED
    BY <1>3, <2>2, <2>3 DEF DistillApply
<1>4. CASE DistillFinish
  BY <1>4, DocFinishing DEF DistillFinish, DistillTypeOK
<1>5. ASSUME NEW u \in Users, ScanStart(u) PROVE DistillTypeOK' /\ DocInHand'
  <2>1. KnownMtimes(u) \in [Files -> SUBSET Nat]
    <3>1. ASSUME NEW f \in Files PROVE /\ summary[<<u, f>>].mtime \in Nat
                                       /\ jobs[f].status # "none" => jobs[f].mtime \in Nat
      BY DEF DistillTypeOK, DocNotes, DocRows, NoJob, Mtimes
    <3> QED
      BY <3>1 DEF KnownMtimes
  <2>2. scan' \in DocScans
    BY <1>5, <2>1 DEF ScanStart, DocScans
  <2> QED
    BY <1>5, <2>2 DEF ScanStart, DistillTypeOK, DocInHand
<1>6. CASE ScanWalk
  <2>1. scan \in DocScans
    BY <1>6 DEF ScanWalk, DistillTypeOK, NoScan
  <2>2. scan.user \in Users /\ scan.known \in [Files -> SUBSET Nat] /\ scan.asked \in SUBSET Files
    BY <2>1 DEF DocScans
  <2>3. scan' \in DocScans
    BY <1>6, <2>2 DEF ScanWalk, DocScans, DistillTypeOK
  <2> QED
    BY <1>6, <2>3 DEF ScanWalk, DistillTypeOK, DocInHand
<1>7. CASE ScanEnqueue
  <2> DEFINE up(f) == IF f \in News THEN Enqueued(scan.user, f, scan.found[f], "auto") ELSE jobs[f]
             moved == {f \in News : jobs[f].status # "running"}
  <2>1. scan \in DocScans
    BY <1>7 DEF ScanEnqueue, DistillTypeOK, NoScan
  <2>2. scan.user \in Users /\ scan.found \in [Files -> Nat]
    BY <1>7, <2>1 DEF DocScans, ScanEnqueue
  <2>3. ASSUME NEW f \in Files
        PROVE  /\ up(f) \in DocRows \cup {NoJob}
               /\ up(f).status = "running" <=> jobs[f].status = "running"
    <3>1. CASE f \in News
      <4>1. scan.found[f] \in Mtimes
        BY <2>2, <3>1 DEF News, Mtimes
      <4>2. Enqueued(scan.user, f, scan.found[f], "auto") \in DocRows
        BY <2>2, <4>1, DocEnqueued
      <4>3. Enqueued(scan.user, f, scan.found[f], "auto").status = "running" <=> jobs[f].status = "running"
        BY DEF Enqueued
      <4> QED
        BY <3>1, <4>2, <4>3
    <3>2. CASE f \notin News
      BY <3>2 DEF DistillTypeOK
    <3> QED
      BY <3>1, <3>2
  <2>4. jobs' = [f \in Files |-> Swept(up(f), f)]
    BY <1>7 DEF ScanEnqueue, News
  <2> HIDE DEF up
  <2>5. ASSUME NEW f \in Files
        PROVE  /\ jobs'[f] \in DocRows \cup {NoJob}
               /\ jobs'[f].status = "running" <=> jobs[f].status = "running"
    BY <2>3, <2>4 DEF Swept, NoJob, Tombstones
  <2>6. jobs' \in [Files -> DocRows \cup {NoJob}]
    BY <2>4, <2>5
  <2>7. queued' \in [Files -> Nat]
    <3>1. moved \in SUBSET Files
      BY DEF News
    <3>2. queued' = ToEnd(queued, moved)
      BY <1>7 DEF ScanEnqueue
    <3> QED
      BY <3>1, <3>2, ToEndPlaces DEF DistillTypeOK
  <2>8. refused' \subseteq refused /\ made' \subseteq made /\ scan' = NoScan
        /\ UNCHANGED <<disk, summary, settings, quota, today, worker, autos>>
    BY <1>7 DEF ScanEnqueue
  <2>9. DocInHand'
    BY <2>5, <2>8, DocBusy DEF DocInHand
  <2> QED
    BY <2>6, <2>7, <2>8, <2>9 DEF DistillTypeOK
<1>8. ASSUME NEW u \in Users, NEW f \in Files, DistillManual(u, f) PROVE DistillTypeOK' /\ DocInHand'
  <2>1. disk[f] \in Mtimes
    BY <1>8 DEF DistillManual, DistillTypeOK, Mtimes
  <2>2. Enqueued(u, f, disk[f], "manual") \in DocRows
    BY <2>1, DocEnqueued
  <2>3. Enqueued(u, f, disk[f], "manual").status = "pending"
    BY <1>8 DEF Enqueued, DistillManual
  <2>4. jobs' \in [Files -> DocRows \cup {NoJob}]
    BY <1>8, <2>2 DEF DistillManual, DistillTypeOK
  <2>5. queued' \in [Files -> Nat]
    BY <1>8, ToEndPlaces DEF DistillManual, DistillTypeOK
  <2>6. scan' \in DocScans \cup {NoScan}
    <3>1. CASE scan.pc = "idle"
      BY <1>8, <3>1 DEF DistillManual, DistillTypeOK
    <3>2. CASE scan.pc # "idle"
      <4>1. scan \in DocScans
        BY <3>2 DEF DistillTypeOK, NoScan
      <4>2. scan.asked \cup {f} \in SUBSET Files
        BY <4>1 DEF DocScans
      <4>3. scan' = [scan EXCEPT !.asked = scan.asked \cup {f}]
        BY <1>8, <3>2 DEF DistillManual
      <4> QED
        BY <4>1, <4>2, <4>3 DEF DocScans
    <3> QED
      BY <3>1, <3>2
  <2>7. DocInHand'
    BY <1>8, <2>3 DEF DocInHand, DistillManual, DistillTypeOK
  <2> QED
    BY <1>8, <2>4, <2>5, <2>6, <2>7 DEF DistillManual, DistillTypeOK
<1>9. ASSUME NEW u \in Users, NEW f \in Files, DistillCancel(u, f) PROVE DistillTypeOK' /\ DocInHand'
  <2> DEFINE j == [jobs[f] EXCEPT !.status = "skipped", !.cancelled = TRUE]
  <2>1. jobs[f] \in DocRows
    BY <1>9 DEF DistillCancel, DistillTypeOK, NoJob
  <2>2. j \in DocRows /\ j.status = "skipped"
    BY <2>1 DEF DocRows
  <2>3. jobs' = [jobs EXCEPT ![f] = j]
    BY <1>9 DEF DistillCancel, DistillTypeOK
  <2>4. <<u, f, jobs[f].mtime>> \in Answers
    BY <2>1 DEF Answers, DocRows
  <2> HIDE DEF j
  <2>5. jobs' \in [Files -> DocRows \cup {NoJob}] /\ refused' \subseteq Answers
    <3>1. refused' = refused \cup {<<u, f, jobs[f].mtime>>}
      BY <1>9 DEF DistillCancel
    <3>2. jobs' \in [Files -> DocRows \cup {NoJob}]
      BY <2>2, <2>3 DEF DistillTypeOK
    <3> QED
      BY <2>4, <3>1, <3>2 DEF DistillTypeOK
  <2>6. DocInHand'
    <3>1. jobs[f].status = "pending" /\ worker' = worker
      BY <1>9 DEF DistillCancel
    <3>2. worker.pc # "idle" => worker.file \in Files /\ worker.file # f
      BY <3>1, DocBusy DEF DocInHand
    <3> QED
      BY <2>2, <2>3, <3>1, <3>2 DEF DocInHand, DistillTypeOK
  <2> QED
    BY <1>9, <2>5, <2>6 DEF DistillCancel, DistillTypeOK
<1>10. ASSUME NEW u \in Users, NEW f \in Files, CurateSummary(u, f) PROVE DistillTypeOK' /\ DocInHand'
  <2>1. summary' \in [Users \X Files -> DocNotes]
    <3> DEFINE s == [summary[<<u, f>>] EXCEPT !.status = "curated"]
    <3>1. s \in DocNotes
      BY DEF DistillTypeOK, DocNotes
    <3>2. summary' = [summary EXCEPT ![<<u, f>>] = s]
      BY <1>10 DEF CurateSummary, DistillTypeOK
    <3> HIDE DEF s
    <3> QED
      BY <3>1, <3>2 DEF DistillTypeOK
  <2> QED
    BY <1>10, <2>1 DEF CurateSummary, DistillTypeOK, DocInHand
<1>11. ASSUME NEW u \in Users, NEW f \in Files, DeleteSummary(u, f) PROVE DistillTypeOK' /\ DocInHand'
  <2>1. summary' \in [Users \X Files -> DocNotes]
    BY <1>11 DEF DeleteSummary, DistillTypeOK, DocNotes, NoSummary
  <2> QED
    BY <1>11, <2>1 DEF DeleteSummary, DistillTypeOK, DocInHand
<1>12. ASSUME NEW u \in Users, DistillSettings(u) PROVE DistillTypeOK' /\ DocInHand'
  <2>1. settings' \in [Users -> [root : BOOLEAN, model : BOOLEAN]]
    <3>1. /\ [settings[u] EXCEPT !.root = ~@] \in [root : BOOLEAN, model : BOOLEAN]
          /\ [settings[u] EXCEPT !.model = ~@] \in [root : BOOLEAN, model : BOOLEAN]
      BY DEF DistillTypeOK
    <3>2. \/ settings' = [settings EXCEPT ![u] = [settings[u] EXCEPT !.root = ~@]]
          \/ settings' = [settings EXCEPT ![u] = [settings[u] EXCEPT !.model = ~@]]
      BY <1>12 DEF DistillSettings, DistillTypeOK
    <3> QED
      BY <3>1, <3>2 DEF DistillTypeOK
  <2> QED
    BY <1>12, <2>1 DEF DistillSettings, DistillTypeOK, DocInHand
<1>13. ASSUME NEW f \in Files, WriteDocument(f) PROVE DistillTypeOK' /\ DocInHand'
  <2>1. PICK t \in Times(f) : disk' = [disk EXCEPT ![f] = t + 1]
    BY <1>13 DEF WriteDocument
  <2>2. t \in Nat
    BY DocTimesNat
  <2> QED
    BY <1>13, <2>1, <2>2 DEF WriteDocument, DistillTypeOK, DocInHand
<1>14. ASSUME NEW f \in Files, RemoveDocument(f) PROVE DistillTypeOK' /\ DocInHand'
  BY <1>14 DEF RemoveDocument, DistillTypeOK, DocInHand
<1>15. CASE Midnight
  BY <1>15 DEF Midnight, DistillTypeOK, DocInHand
<1>16. ASSUME Restarted PROVE /\ jobs' \in [Files -> DocRows \cup {NoJob}] /\ DocInHand'
                              /\ worker' = NoWork /\ scan' = NoScan
                              /\ UNCHANGED <<disk, queued, settings, today, refused>>
  <2>1. ASSUME NEW f \in Files
        PROVE  jobs'[f] \in DocRows \cup {NoJob} /\ jobs'[f].status # "running"
    <3>1. jobs'[f] = RequeueDistill(jobs[f]) /\ jobs[f] \in DocRows \cup {NoJob}
      BY <1>16 DEF Restarted, DistillTypeOK
    <3> QED
      BY <3>1 DEF RequeueDistill, DocRows, NoJob
  <2>2. jobs' \in [Files -> DocRows \cup {NoJob}]
    BY <1>16, <2>1 DEF Restarted
  <2>3. worker' = NoWork /\ scan' = NoScan /\ UNCHANGED <<disk, queued, settings, today, refused>>
    BY <1>16 DEF Restarted
  <2>4. DocInHand'
    BY <2>1, <2>3 DEF DocInHand, NoWork
  <2> QED
    BY <2>2, <2>3, <2>4
<1>18. CASE DistillRestart
  BY <1>16, <1>18 DEF DistillRestart, DistillTypeOK
<1>19. CASE DistillTorn
  <2>1. worker.pc # "idle" /\ Restarted
    BY <1>19 DEF DistillTorn
  <2>2. summary' \in [Users \X Files -> DocNotes] /\ made' \subseteq Answers /\ autos' \in [Users -> Nat]
    <3>1. CASE NoteCommitted
      BY <2>1, <3>1, DocCommitted DEF DocCommits, DistillTypeOK
    <3>2. CASE UNCHANGED <<summary, made, autos>>
      BY <3>2 DEF DistillTypeOK
    <3> QED
      BY <1>19, <3>1, <3>2 DEF DistillTorn
  <2>3. quota' \in [Users -> [day : Nat, used : Nat]]
    BY <1>19, <2>1, DocSpent DEF DistillTorn, DistillTypeOK
  <2> QED
    BY <1>16, <2>1, <2>2, <2>3 DEF DistillTypeOK
<1>17. CASE UNCHANGED distillVars
  BY <1>17 DEF distillVars, DistillTypeOK, DocInHand
<1> QED
  BY <1>1, <1>2, <1>3, <1>4, <1>5, <1>6, <1>7, <1>8, <1>9, <1>10, <1>11, <1>12, <1>13, <1>14,
     <1>15, <1>17, <1>18, <1>19 DEF DistillNext, DistillWorks, Scanning

\* What the scanner does to a row: it takes over what is news and not running, and a
\* tombstone of its user goes with the file.
DocMoved == {f \in News : jobs[f].status # "running"}

\* What a scan does to the rows, the answers and what was made.
LEMMA DocScanned ==
    ASSUME DistillTypeOK, ScanEnqueue
    PROVE  /\ scan \in DocScans /\ scan.user \in Users /\ scan.found \in [Files -> Nat]
           /\ \A f \in DocMoved :
                /\ jobs'[f] \in DocRows /\ jobs'[f].status = "pending" /\ jobs'[f].user = scan.user
                /\ jobs'[f].mtime = scan.found[f]
           /\ \A f \in Files \ DocMoved :
                \/ jobs'[f] = jobs[f]
                \/ /\ jobs'[f] = NoJob /\ jobs[f].status \in Tombstones
                   /\ jobs[f].user = scan.user /\ disk[f] = 0
           /\ refused' = {r \in refused : ~(r[2] \in DocMoved /\ (r[1] # scan.user \/ r[2] \in scan.asked))}
           /\ made' = {r \in made : ~(r[2] \in DocMoved \cap scan.asked)}
           /\ scan' = NoScan /\ UNCHANGED <<disk, summary, settings, quota, today, worker, autos>>
<1> DEFINE up(f) == IF f \in News THEN Enqueued(scan.user, f, scan.found[f], "auto") ELSE jobs[f]
<1>1. scan \in DocScans /\ scan.user \in Users /\ scan.found \in [Files -> Nat]
  BY DEF ScanEnqueue, DistillTypeOK, NoScan, DocScans
<1>2. ASSUME NEW f \in Files PROVE jobs'[f] = Swept(up(f), f)
  BY <1>2 DEF ScanEnqueue
<1>3. ASSUME NEW f \in DocMoved
      PROVE  /\ jobs'[f] \in DocRows /\ jobs'[f].status = "pending" /\ jobs'[f].user = scan.user
             /\ jobs'[f].mtime = scan.found[f]
  <2>1. f \in Files /\ f \in News /\ jobs[f].status # "running"
    BY DEF DocMoved, News
  <2>2. scan.found[f] \in Mtimes
    BY <1>1, <2>1 DEF News, Mtimes
  <2>3. up(f) \in DocRows
    BY <1>1, <2>1, <2>2, DocEnqueued
  <2>4. up(f).status = "pending" /\ up(f).user = scan.user /\ up(f).mtime = scan.found[f]
    BY <2>1 DEF Enqueued
  <2> HIDE DEF up
  <2>5. Swept(up(f), f) = up(f)
    BY <2>4 DEF Swept, Tombstones
  <2> QED
    BY <1>2, <2>1, <2>3, <2>4, <2>5
<1>4. ASSUME NEW f \in Files \ DocMoved
      PROVE  \/ jobs'[f] = jobs[f]
             \/ /\ jobs'[f] = NoJob /\ jobs[f].status \in Tombstones
                /\ jobs[f].user = scan.user /\ disk[f] = 0
  <2>1. up(f) = jobs[f]
    BY DEF DocMoved, Enqueued
  <2> QED
    BY <1>2, <2>1 DEF Swept
<1>5. /\ refused' = {r \in refused : ~(r[2] \in DocMoved /\ (r[1] # scan.user \/ r[2] \in scan.asked))}
      /\ made' = {r \in made : ~(r[2] \in DocMoved \cap scan.asked)}
      /\ scan' = NoScan /\ UNCHANGED <<disk, summary, settings, quota, today, worker, autos>>
  BY DEF ScanEnqueue, DocMoved
<1> QED
  BY <1>1, <1>3, <1>4, <1>5

\* A row that ran when the agent stopped is pending again.
LEMMA DocRequeued ==
    ASSUME DistillTypeOK, DistillRestart \/ DistillTorn
    PROVE  /\ \A f \in Files :
                \/ jobs'[f] = jobs[f] /\ jobs[f].status # "running"
                \/ /\ jobs[f].status = "running" /\ jobs'[f] \in DocRows /\ jobs'[f].status = "pending"
                   /\ jobs'[f].user = jobs[f].user /\ jobs'[f].mtime = jobs[f].mtime
           /\ worker' = NoWork /\ scan' = NoScan
           /\ UNCHANGED <<disk, queued, settings, today, refused>>
<1>1. ASSUME NEW f \in Files
      PROVE  jobs[f] \in DocRows \cup {NoJob} /\ jobs'[f] = RequeueDistill(jobs[f])
  BY DEF DistillTypeOK, DistillRestart, DistillTorn, Restarted
<1>2. ASSUME NEW f \in Files
      PROVE  \/ jobs'[f] = jobs[f] /\ jobs[f].status # "running"
             \/ /\ jobs[f].status = "running" /\ jobs'[f] \in DocRows /\ jobs'[f].status = "pending"
                /\ jobs'[f].user = jobs[f].user /\ jobs'[f].mtime = jobs[f].mtime
  <2>1. CASE jobs[f].status # "running"
    BY <1>1, <2>1 DEF RequeueDistill
  <2>2. CASE jobs[f].status = "running"
    <3>1. jobs[f] \in DocRows
      BY <1>1, <2>2 DEF NoJob
    <3>2. jobs'[f] = [jobs[f] EXCEPT !.status = "pending"]
      BY <1>1, <2>2 DEF RequeueDistill
    <3> QED
      BY <2>2, <3>1, <3>2 DEF DocRows
  <2> QED
    BY <2>1, <2>2
<1>3. /\ worker' = NoWork /\ scan' = NoScan
      /\ UNCHANGED <<disk, queued, settings, today, refused>>
  BY DEF DistillRestart, DistillTorn, Restarted
<1> QED
  BY <1>2, <1>3

\* A crash leaves the notes and what was made of them, or comes after the commit that
\* flags the curated note in hand.
LEMMA DocTornNotes ==
    ASSUME DistillTypeOK, DocInHand, DistillRestart \/ DistillTorn
    PROVE  \/ UNCHANGED <<summary, made>>
           \/ LET f == worker.file
                  k == <<jobs[f].user, f>>
              IN /\ worker.pc = "text" /\ f \in Files /\ jobs[f] \in DocRows /\ jobs[f].status = "running"
                 /\ k \in Users \X Files /\ summary[k] \in DocNotes /\ summary[k].status = "curated"
                 /\ InHand \in Answers /\ made' = made \cup {InHand}
                 /\ \E s \in DocNotes : /\ summary' = [summary EXCEPT ![k] = s]
                                       /\ s.status = "curated" /\ s.mtime = summary[k].mtime
<1>1. CASE worker.pc = "text" /\ Curated /\ NoteCommitted
  <2>1. summary[<<jobs[worker.file].user, worker.file>>].status = "curated"
    BY <1>1 DEF Curated, InHand
  <2> QED
    BY <1>1, <2>1, DocCommitted DEF DocCommits
<1> QED
  BY <1>1 DEF DistillRestart, DistillTorn

\* A request asks for what is on disk now.
LEMMA DocAsked ==
    ASSUME DistillTypeOK, NEW u \in Users, NEW f \in Files, DistillManual(u, f)
    PROVE  /\ disk[f] \in Mtimes /\ jobs[f].status # "running"
           /\ \E j \in DocRows : /\ jobs' = [jobs EXCEPT ![f] = j] /\ j.status = "pending"
                                 /\ j.user = u /\ j.mtime = disk[f]
           /\ refused' = {r \in refused : r[2] # f} /\ made' = {r \in made : r[2] # f}
           /\ scan.pc = "idle" => scan' = scan
           /\ scan.pc # "idle" => /\ scan' = [scan EXCEPT !.asked = scan.asked \cup {f}]
                                  /\ scan \in DocScans
           /\ UNCHANGED <<disk, summary, settings, quota, today, worker, autos>>
<1>1. disk[f] \in Mtimes
  BY DEF DistillManual, DistillTypeOK, Mtimes
<1>2. Enqueued(u, f, disk[f], "manual") \in DocRows
  BY <1>1, DocEnqueued
<1>3. /\ Enqueued(u, f, disk[f], "manual").status = "pending"
      /\ Enqueued(u, f, disk[f], "manual").user = u
      /\ Enqueued(u, f, disk[f], "manual").mtime = disk[f]
  BY DEF Enqueued, DistillManual
<1>4. scan.pc # "idle" => scan \in DocScans
  BY DEF DistillTypeOK, NoScan
<1>5. scan.pc # "idle" => scan' = [scan EXCEPT !.asked = scan.asked \cup {f}]
  BY <1>4 DEF DistillManual, DocScans
<1> QED
  BY <1>1, <1>2, <1>3, <1>4, <1>5 DEF DistillManual

\* The note of the job in hand takes the time of its row, unless it is curated; a
\* curated one ends the job.
LEMMA DocWritten ==
    ASSUME DistillTypeOK, DocInHand, DistillApply
    PROVE  LET f == worker.file
               k == <<jobs[f].user, f>>
           IN /\ worker.pc = "text" /\ f \in Files /\ jobs[f] \in DocRows /\ jobs[f].status = "running"
              /\ k \in Users \X Files /\ summary[k] \in DocNotes
              /\ \E s \in DocNotes :
                   /\ summary' = [summary EXCEPT ![k] = s]
                   /\ summary[k].status = "curated" => s.status = "curated" /\ s.mtime = summary[k].mtime
                   /\ summary[k].status # "curated" => s.status = "draft" /\ s.mtime = jobs[f].mtime
              /\ made' = made \cup {<<jobs[f].user, f, jobs[f].mtime>>}
              /\ \/ /\ summary[k].status = "curated" /\ Finished(f)
                    /\ jobs' = [jobs EXCEPT ![f] = NoJob] /\ worker' = NoWork
                 \/ /\ summary[k].status # "curated" /\ UNCHANGED <<jobs, quota, torn>>
                    /\ worker' \in DocWork /\ worker'.pc = "index" /\ worker'.file = f
                    /\ worker'.day = worker.day
              /\ UNCHANGED <<disk, settings, today, scan, refused>>
<1> DEFINE f == worker.file
           k == <<jobs[f].user, f>>
<1>1. worker.pc = "text" /\ f \in Files /\ jobs[f] \in DocRows /\ jobs[f].status = "running"
  BY DocBusy DEF DistillApply, DocInHand
<1>2. k \in Users \X Files
  BY <1>1 DEF DocRows
<1>3. summary[k] \in DocNotes /\ jobs[f].mtime \in Nat
  BY <1>1, <1>2 DEF DistillTypeOK, DocRows, Mtimes
<1>4. DocCommits(k, InHand) /\ InHand = <<jobs[f].user, f, jobs[f].mtime>>
  BY <1>1, DocCommitted DEF DistillApply, InHand
<1>5. \/ /\ summary[k].status = "curated" /\ Finished(f)
         /\ jobs' = [jobs EXCEPT ![f] = NoJob] /\ worker' = NoWork
      \/ /\ summary[k].status # "curated" /\ UNCHANGED <<jobs, quota, torn>>
         /\ worker' = [worker EXCEPT !.pc = "index"]
  BY DEF DistillApply, Finished, Curated, InHand
<1>6. /\ [worker EXCEPT !.pc = "index"] \in DocWork /\ [worker EXCEPT !.pc = "index"].pc = "index"
      /\ [worker EXCEPT !.pc = "index"].file = f /\ [worker EXCEPT !.pc = "index"].day = worker.day
  BY <1>1, DocBusy DEF DocWork
<1> QED
  BY <1>1, <1>2, <1>3, <1>4, <1>5, <1>6 DEF DistillApply, DocCommits

-----------------------------------------------------------------------------
(* The times of a document.                                                *)

\* Nothing remembered of a document is newer than d.
DocTimely(f, d) ==
    /\ 1 <= d
    /\ \A u \in Users : summary[<<u, f>>].mtime <= d
    /\ jobs[f].status # "none" => jobs[f].mtime <= d
    /\ scan.pc = "enqueue" => scan.found[f] <= d
    /\ \A r \in made \cup refused : r[2] = f => r[3] <= d

TimesBounded == \A f \in Files : disk[f] # 0 => DocTimely(f, disk[f])

\* No step remembers anything newer than what is remembered, or on disk.
LEMMA DocTimelyStep ==
    ASSUME DistillTypeOK, DocInHand, [DistillNext]_distillVars,
           NEW f \in Files, NEW d \in Nat, DocTimely(f, d), disk[f] <= d
    PROVE  DocTimely(f, d)'
<1>1. CASE DistillClaim
  <2>1. PICK g \in Files : DocClaims(g)
    BY <1>1, DocClaiming
  <2>2. UNCHANGED <<summary, scan, made>>
    BY <1>1, DocClaiming
  <2>3. PICK j \in DocRows : jobs' = [jobs EXCEPT ![g] = j] /\ j.mtime = jobs[g].mtime /\ j.status # "none"
    BY <2>1 DEF DocClaims, DocRows
  <2>4. jobs[g].status # "none"
    BY <2>1 DEF DocClaims
  <2>5. jobs'[f].status # "none" => jobs'[f].mtime <= d
    BY <2>3, <2>4 DEF DocTimely, DistillTypeOK
  <2>6. refused' \subseteq refused \cup {<<jobs[g].user, g, jobs[g].mtime>>}
    BY <2>1 DEF DocClaims
  <2>7. \A r \in made \cup refused' : r[2] = f => r[3] <= d
    BY <2>4, <2>6 DEF DocTimely
  <2> QED
    BY <2>2, <2>5, <2>7 DEF DocTimely
<1>2. CASE DistillCreds \/ DistillFails
  <2>1. UNCHANGED <<summary, scan, made>> /\ worker.pc # "idle"
    BY <1>2, DocTries
  <2>2. CASE UNCHANGED <<jobs, refused>>
    BY <2>1, <2>2 DEF DocTimely
  <2>3. ASSUME NEW j \in DocRows, DocLeft(j), Settle(j) PROVE DocTimely(f, d)'
    <3>1. jobs' = [jobs EXCEPT ![worker.file] = j] /\ j.mtime = jobs[worker.file].mtime
      BY <2>3 DEF Settle, DocLeft
    <3>2. jobs[worker.file].status # "none"
      BY <2>1, DocBusy DEF DocRows
    <3>3. refused' \subseteq refused \cup {<<j.user, worker.file, j.mtime>>}
      BY <2>3 DEF Settle
    <3>4. jobs'[f].status # "none" => jobs'[f].mtime <= d
      BY <3>1, <3>2 DEF DocTimely, DistillTypeOK
    <3>5. \A r \in made \cup refused' : r[2] = f => r[3] <= d
      BY <3>1, <3>2, <3>3 DEF DocTimely
    <3> QED
      BY <2>1, <3>4, <3>5 DEF DocTimely
  <2> QED
    BY <1>2, <2>2, <2>3, DocTries
<1>3. CASE DistillApply
  <2> DEFINE g == worker.file
  <2>1. /\ g \in Files /\ jobs[g].status # "none" /\ UNCHANGED <<scan, refused>>
        /\ made' = made \cup {<<jobs[g].user, g, jobs[g].mtime>>}
        /\ jobs' = [jobs EXCEPT ![g] = NoJob] \/ jobs' = jobs
    BY <1>3, DocWritten
  <2>2. PICK s : /\ summary' = [summary EXCEPT ![<<jobs[g].user, g>>] = s]
                 /\ s.mtime = summary[<<jobs[g].user, g>>].mtime \/ s.mtime = jobs[g].mtime
    BY <1>3, DocWritten
  <2>3. <<jobs[g].user, g>> \in Users \X Files
    BY <1>3, DocWritten
  <2>4. \A u \in Users : summary'[<<u, f>>].mtime <= d
    BY <2>1, <2>2, <2>3 DEF DocTimely, DistillTypeOK
  <2>5. jobs'[f].status # "none" => jobs'[f].mtime <= d
    BY <2>1 DEF DocTimely, DistillTypeOK, NoJob
  <2>6. \A r \in made' \cup refused' : r[2] = f => r[3] <= d
    BY <2>1 DEF DocTimely
  <2> QED
    BY <2>1, <2>4, <2>5, <2>6 DEF DocTimely
<1>4. CASE DistillFinish
  <2>1. jobs' = [jobs EXCEPT ![worker.file] = NoJob] /\ UNCHANGED <<summary, scan, made, refused>>
    BY <1>4, DocFinishing DEF DistillFinish
  <2>2. jobs'[f].status # "none" => jobs'[f].mtime <= d
    BY <2>1 DEF DocTimely, DistillTypeOK, NoJob
  <2> QED
    BY <2>1, <2>2 DEF DocTimely
<1>5. ASSUME NEW u \in Users, ScanStart(u) PROVE DocTimely(f, d)'
  BY <1>5 DEF ScanStart, DocTimely
<1>6. CASE ScanWalk
  BY <1>6 DEF ScanWalk, DocTimely
<1>7. CASE ScanEnqueue
  <2>1. scan.pc = "enqueue" /\ scan.found[f] <= d
    BY <1>7 DEF ScanEnqueue, DocTimely
  <2>2. jobs'[f].status # "none" => jobs'[f].mtime <= d
    BY <1>7, <2>1, DocScanned DEF DocTimely, NoJob
  <2>3. refused' \subseteq refused /\ made' \subseteq made /\ summary' = summary /\ scan' = NoScan
    BY <1>7, DocScanned
  <2> QED
    BY <2>2, <2>3 DEF DocTimely, NoScan
<1>8. ASSUME NEW u \in Users, NEW g \in Files, DistillManual(u, g) PROVE DocTimely(f, d)'
  <2>1. jobs'[f].status # "none" => jobs'[f].mtime <= d
    BY <1>8, DocAsked DEF DocTimely, DistillTypeOK
  <2>2. refused' \subseteq refused /\ made' \subseteq made /\ summary' = summary
    BY <1>8, DocAsked
  <2>3. scan'.pc = "enqueue" => scan'.found[f] <= d
    <3>1. CASE scan.pc = "idle"
      BY <1>8, <3>1, DocAsked
    <3>2. CASE scan.pc # "idle"
      BY <1>8, <3>2, DocAsked DEF DocTimely, DocScans
    <3> QED
      BY <3>1, <3>2
  <2> QED
    BY <2>1, <2>2, <2>3 DEF DocTimely
<1>9. ASSUME NEW u \in Users, NEW g \in Files, DistillCancel(u, g) PROVE DocTimely(f, d)'
  <2>1. jobs[g].status # "none" /\ jobs[g] \in DocRows
    BY <1>9 DEF DistillCancel, DistillTypeOK, NoJob
  <2>2. jobs'[f].status # "none" => jobs[f].status # "none" /\ jobs'[f].mtime = jobs[f].mtime
    BY <1>9, <2>1 DEF DistillCancel, DistillTypeOK, DocRows
  <2>3. refused' = refused \cup {<<u, g, jobs[g].mtime>>} /\ UNCHANGED <<summary, scan, made>>
    BY <1>9 DEF DistillCancel
  <2>4. \A r \in made \cup refused' : r[2] = f => r[3] <= d
    BY <2>1, <2>3 DEF DocTimely
  <2> QED
    BY <2>2, <2>3, <2>4 DEF DocTimely
<1>10. ASSUME NEW u \in Users, NEW g \in Files, CurateSummary(u, g) \/ DeleteSummary(u, g)
       PROVE  DocTimely(f, d)'
  <2>1. \A v \in Users : summary'[<<v, f>>].mtime = summary[<<v, f>>].mtime \/ summary'[<<v, f>>].mtime = 0
    <3>1. CASE CurateSummary(u, g)
      <4>1. summary' = [summary EXCEPT ![<<u, g>>] = [summary[<<u, g>>] EXCEPT !.status = "curated"]]
        BY <3>1 DEF CurateSummary, DistillTypeOK
      <4>2. [summary[<<u, g>>] EXCEPT !.status = "curated"].mtime = summary[<<u, g>>].mtime
        BY DEF DistillTypeOK, DocNotes
      <4> QED
        BY <4>1, <4>2 DEF DistillTypeOK
    <3>2. CASE DeleteSummary(u, g)
      BY <3>2 DEF DeleteSummary, DistillTypeOK, NoSummary
    <3> QED
      BY <1>10, <3>1, <3>2
  <2>2. made' \subseteq made /\ UNCHANGED <<jobs, scan, refused>>
    BY <1>10 DEF CurateSummary, DeleteSummary
  <2> QED
    BY <2>1, <2>2 DEF DocTimely
<1>11. ASSUME UNCHANGED <<summary, jobs, scan, made, refused>> PROVE DocTimely(f, d)'
  BY <1>11 DEF DocTimely
<1>12. CASE DistillRestart \/ DistillTorn
  <2>1. refused' = refused /\ scan'.pc # "enqueue"
        /\ (jobs'[f].status # "none" => jobs[f].status # "none" /\ jobs'[f].mtime = jobs[f].mtime)
    BY <1>12, DocRequeued DEF NoScan
  <2>2. \A u \in Users : summary'[<<u, f>>].mtime = summary[<<u, f>>].mtime
    BY <1>12, DocTornNotes DEF DistillTypeOK
  <2>3. \A r \in made' : r[2] = f => r[3] <= d
    <3>1. CASE worker.file = f /\ jobs[f].status = "running" /\ made' = made \cup {InHand}
      BY <3>1 DEF DocTimely, InHand
    <3>2. CASE worker.file # f /\ made' = made \cup {InHand}
      BY <3>2 DEF DocTimely, InHand
    <3> QED
      BY <1>12, <3>1, <3>2, DocTornNotes DEF DocTimely
  <2> QED
    BY <2>1, <2>2, <2>3 DEF DocTimely
<1> QED
  BY <1>1, <1>2, <1>3, <1>4, <1>5, <1>6, <1>7, <1>8, <1>9, <1>10, <1>11, <1>12
  DEF DistillNext, DistillWorks, Scanning, DistillSettings, WriteDocument, RemoveDocument, Midnight,
      distillVars

\* So a document on disk is as new as anything remembered of it.
LEMMA DocTimesStep ==
    ASSUME DistillTypeOK, DocInHand, TimesBounded, [DistillNext]_distillVars
    PROVE  TimesBounded'
<1> SUFFICES ASSUME NEW f \in Files, disk'[f] # 0 PROVE DocTimely(f, disk[f])'
  BY DEF TimesBounded
<1>1. CASE disk'[f] = disk[f]
  <2>1. DocTimely(f, disk[f]) /\ disk[f] \in Nat
    BY <1>1 DEF TimesBounded, DistillTypeOK
  <2>2. PICK d \in Nat : d = disk[f]
    BY <2>1
  <2>3. DocTimely(f, d) /\ disk[f] <= d
    BY <2>1, <2>2
  <2>4. DocTimely(f, d)'
    BY <2>2, <2>3, DocTimelyStep
  <2>5. disk'[f] = d
    BY <1>1, <2>2
  <2> QED
    BY <2>4, <2>5
<1>2. ASSUME NEW g \in Files, WriteDocument(g), g = f PROVE DocTimely(f, disk[f])'
  <2>1. PICK t \in Times(f) : (\A s \in Times(f) : s <= t) /\ disk' = [disk EXCEPT ![f] = t + 1]
    BY <1>2 DEF WriteDocument
  <2>2. t \in Nat
    BY DocTimesNat
  <2>3. DocTimely(f, t)
    <3>1. \A r \in made \cup refused : r[2] = f => r[3] \in Times(f)
      BY TimesAre
    <3>2. 1 \in Times(f)
      BY TimesAre, Zenon
    <3>3. \A u \in Users : summary[<<u, f>>].mtime \in Times(f)
      BY TimesAre, Zenon
    <3>4. jobs[f].status # "none" => jobs[f].mtime \in Times(f)
      BY TimesAre, Zenon
    <3>5. scan.pc = "enqueue" => scan.found[f] \in Times(f)
      BY TimesAre, Zenon
    <3> QED
      BY <2>1, <3>1, <3>2, <3>3, <3>4, <3>5 DEF DocTimely
  <2>4. disk[f] <= t
    <3>1. disk[f] \in Times(f)
      BY TimesAre, Zenon
    <3> QED
      BY <2>1, <3>1
  <2>5. DocTimely(f, t)'
    BY <2>2, <2>3, <2>4, <1>2, DocTimelyStep
  <2>6. disk'[f] = t + 1
    BY <2>1 DEF DistillTypeOK
  <2>7. DistillTypeOK'
    BY DocTypeStep
  <2> DEFINE e == t + 1
  <2>8. \A x \in Nat : x <= t => x <= e
    BY <2>2
  <2> HIDE DEF e
  <2>9. DocTimely(f, e)'
    <3>1. /\ 1 \in Nat /\ \A u \in Users : summary'[<<u, f>>].mtime \in Nat
          /\ jobs'[f].status # "none" => jobs'[f].mtime \in Nat
      BY <2>7 DEF DistillTypeOK, DocRows, DocNotes, NoJob, Mtimes
    <3>2. scan'.pc = "enqueue" => scan'.found[f] \in Nat
      BY <2>7 DEF DistillTypeOK, DocScans, NoScan
    <3>3. \A r \in made' \cup refused' : r[3] \in Nat
      BY <2>7 DEF DistillTypeOK, Answers, Mtimes
    <3> QED
      BY <2>5, <2>8, <3>1, <3>2, <3>3 DEF DocTimely
  <2> QED
    BY <2>6, <2>9 DEF e
<1>3. disk'[f] = disk[f] \/ disk'[f] = 0 \/ \E g \in Files : WriteDocument(g) /\ g = f
  <2>1. DistillRestart \/ DistillTorn => disk' = disk
    BY DocRequeued
  <2>2. DistillWorks => disk' = disk
    BY DEF DistillWorks, DistillClaim, DistillCreds, DistillFails, DistillApply, DistillFinish
  <2>3. disk' = disk \/ \E g \in Files : RemoveDocument(g) \/ WriteDocument(g)
    BY <2>1, <2>2 DEF DistillNext, Scanning, ScanStart, ScanWalk, ScanEnqueue, DistillManual, DistillCancel,
           CurateSummary, DeleteSummary, DistillSettings, Midnight, distillVars
  <2> QED
    BY <2>3 DEF RemoveDocument, WriteDocument, DistillTypeOK
<1> QED
  BY <1>1, <1>2, <1>3

-----------------------------------------------------------------------------
(* The quota.                                                              *)

\* What is counted for a user today is covered by the quota table; an automatic row
\* in hand was claimed while the quota of its day lasted, and only the worker spends.
\* The job in hand counts for the user today; it owes the quota while its note, which
\* is committed, is being indexed.
Spends(u) ==
    /\ jobs[worker.file].origin # "manual" /\ jobs[worker.file].user = u /\ worker.day = today
Owing(u) == worker.pc = "index" /\ Spends(u)
One(b) == IF b THEN 1 ELSE 0
DayHeld == \A u \in Users :
    /\ quota[u].day <= today /\ QuotaUsed(u, today) <= DailyCap
    /\ autos[u] <= QuotaUsed(u, today) + stops + One(Owing(u))
DayInHand ==
    worker.pc # "idle" =>
        /\ worker.day <= today /\ \A u \in Users : quota[u].day <= worker.day
        /\ jobs[worker.file].origin # "manual" =>
               QuotaUsed(jobs[worker.file].user, worker.day) < DailyCap
QuotaInv == stops \in Nat /\ DayHeld /\ DayInHand

\* What the numbers are.
LEMMA DocNumbers ==
    ASSUME DistillTypeOK, QuotaInv, NEW u \in Users
    PROVE  /\ autos[u] \in Nat /\ QuotaUsed(u, today) \in Nat /\ stops \in Nat /\ DailyCap \in Nat
           /\ One(Owing(u)) \in {0, 1} /\ One(Spends(u)) \in {0, 1}
           /\ autos[u] <= QuotaUsed(u, today) + stops + One(Owing(u)) /\ QuotaUsed(u, today) <= DailyCap
<1>1. One(Owing(u)) \in {0, 1} /\ One(Spends(u)) \in {0, 1}
  BY DEF One
<1>2. autos[u] \in Nat /\ QuotaUsed(u, today) \in Nat /\ DailyCap \in Nat
  BY DistillConstants DEF DistillTypeOK, QuotaUsed
<1> QED
  BY <1>1, <1>2 DEF QuotaInv, DayHeld

\* Finishing a job spends of the quota of the day it was claimed on.
LEMMA DocQuotaSpent ==
    ASSUME DistillTypeOK, DocInHand, QuotaInv, worker.pc # "idle", quota' = Spent, today' = today,
           NEW u \in Users
    PROVE  /\ quota'[u].day <= today /\ QuotaUsed(u, today)' <= DailyCap
           /\ QuotaUsed(u, today)' = QuotaUsed(u, today) + One(Spends(u))
<1> DEFINE j == jobs[worker.file]
<1>0. j.user \in Users
  BY DocBusy DEF DocRows
<1> PICK x \in Users : x = j.user
  BY <1>0
<1> DEFINE n == QuotaUsed(x, worker.day)
<1>1. worker.day \in Nat /\ worker.day <= today
  BY DocBusy DEF DocWork, QuotaInv, DayInHand
<1>2. DailyCap \in Nat /\ today \in Nat /\ n \in Nat
  BY <1>1, DistillConstants DEF DistillTypeOK, QuotaUsed
<1>3. quota[u].day <= today /\ QuotaUsed(u, today) <= DailyCap /\ QuotaUsed(u, today) \in Nat
  BY DocNumbers DEF QuotaInv, DayHeld
<1>4. CASE quota'[u] = quota[u] /\ ~Spends(u)
  BY <1>3, <1>4 DEF QuotaUsed, One
<1>5. CASE j.origin = "manual"
  <2>1. quota' = quota /\ ~Spends(u)
    BY <1>5 DEF Spent, Spends
  <2> QED
    BY <1>4, <2>1
<1>6. CASE j.origin # "manual"
  <2>1. n < DailyCap /\ quota[x].day <= worker.day
    BY <1>1, <1>6 DEF QuotaInv, DayInHand
  <2>2. quota' = [quota EXCEPT ![x] = [day |-> worker.day, used |-> n + 1]]
    BY <1>6 DEF Spent, QuotaConsume
  <2> HIDE DEF n
  <2>3. CASE u # x
    <3>1. quota'[u] = quota[u]
      BY <2>2, <2>3 DEF DistillTypeOK
    <3>2. ~Spends(u)
      BY <2>3 DEF Spends
    <3> QED
      BY <1>4, <3>1, <3>2
  <2>4. CASE u = x
    <3>1. quota'[u].day = worker.day /\ quota'[u].used = n + 1
      BY <2>2, <2>4 DEF DistillTypeOK
    <3>2. CASE worker.day = today
      <4>1. QuotaUsed(u, today) = n
        BY <2>4, <3>2 DEF n
      <4>2. QuotaUsed(u, today)' = n + 1
        BY <3>1, <3>2 DEF QuotaUsed
      <4>3. One(Spends(u)) = 1
        BY <1>6, <2>4, <3>2 DEF One, Spends
      <4> QED
        BY <1>2, <2>1, <3>1, <3>2, <4>1, <4>2, <4>3
    <3>3. CASE worker.day # today
      <4>1. quota[u].day \in Nat
        BY DEF DistillTypeOK
      <4>2. quota[u].day # today
        BY <1>1, <1>2, <2>1, <2>4, <3>3, <4>1
      <4>3. QuotaUsed(u, today) = 0 /\ QuotaUsed(u, today)' = 0
        BY <3>1, <3>3, <4>2 DEF QuotaUsed
      <4>4. One(Spends(u)) = 0
        BY <3>3 DEF One, Spends
      <4> QED
        BY <1>1, <1>2, <3>1, <4>3, <4>4
    <3> QED
      BY <3>2, <3>3
  <2> QED
    BY <2>3, <2>4
<1> QED
  BY <1>5, <1>6

\* A committed note is counted, if the job was claimed today and nobody asked for it.
LEMMA DocCounted ==
    ASSUME DistillTypeOK, DocInHand, worker.pc # "idle", NoteCommitted, NEW u \in Users
    PROVE  autos'[u] = autos[u] + One(Spends(u))
<1>1. autos[u] \in Nat /\ jobs[worker.file].user \in Users
  BY DocBusy DEF DistillTypeOK, DocRows
<1>2. InHand[1] = jobs[worker.file].user
  BY DEF InHand
<1>3. CASE jobs[worker.file].origin = "manual" \/ worker.day # today
  BY <1>1, <1>3 DEF NoteCommitted, One, Spends
<1>4. CASE ~(jobs[worker.file].origin = "manual" \/ worker.day # today)
  <2>1. autos' = [autos EXCEPT ![jobs[worker.file].user] = @ + 1]
    BY <1>2, <1>4 DEF NoteCommitted
  <2>2. CASE u = jobs[worker.file].user
    <3>1. autos'[u] = autos[u] + 1
      BY <1>1, <2>1, <2>2 DEF DistillTypeOK
    <3> QED
      BY <1>4, <2>2, <3>1 DEF One, Spends
  <2>3. CASE u # jobs[worker.file].user
    <3>1. autos'[u] = autos[u]
      BY <1>1, <2>1, <2>3 DEF DistillTypeOK
    <3> QED
      BY <1>1, <2>3, <3>1 DEF One, Spends
  <2> QED
    BY <2>2, <2>3
<1> QED
  BY <1>3, <1>4

\* The worker is free again: what it had in hand owes nothing any more.
LEMMA DocFreed ==
    ASSUME worker' = NoWork, today' = today, stops' \in Nat,
           \A u \in Users : /\ quota'[u].day <= today /\ QuotaUsed(u, today)' <= DailyCap
                           /\ autos'[u] <= QuotaUsed(u, today)' + stops'
                           /\ QuotaUsed(u, today)' \in Nat
    PROVE  QuotaInv'
<1>1. \A u \in Users : ~Owing(u)'
  BY DEF NoWork, Owing
<1>2. \A u \in Users : One(Owing(u))' = 0
  BY <1>1 DEF One
<1>3. \A u \in Users : autos'[u] <= QuotaUsed(u, today)' + stops' + One(Owing(u))'
  BY <1>2
<1> QED
  BY <1>3 DEF QuotaInv, DayHeld, DayInHand, NoWork

\* Every step keeps the quota.
LEMMA DocQuotaStep ==
    ASSUME DistillTypeOK, DocInHand, QuotaInv, [DistillNext]_distillVars
    PROVE  QuotaInv'
<1>n. stops \in Nat /\ DailyCap \in Nat
  BY DistillConstants DEF QuotaInv
\* Nothing is counted or spent, and nothing owes afterwards but what did before.
<1>o. ASSUME UNCHANGED <<quota, today, autos, stops>>, \A u \in Users : Owing(u)' <=> Owing(u)
      PROVE  DayHeld' /\ stops' \in Nat
  BY <1>o DEF QuotaInv, DayHeld, QuotaUsed, One
<1>1. CASE DistillClaim
  <2>1. PICK f \in Files : DocClaims(f)
    BY <1>1, DocClaiming
  <2>2. worker.pc = "idle" /\ UNCHANGED <<quota, today, autos, stops>>
    <3>1. stops' = stops
      BY <1>1, Zenon DEF DistillClaim
    <3> QED
      BY <1>1, <3>1, DocClaiming
  <2>3. DayHeld' /\ stops' \in Nat
    <3>1. worker'.pc # "index"
      BY <2>1, <2>2 DEF DocClaims
    <3> QED
      BY <1>o, <2>2, <3>1 DEF Owing
  <2>4. CASE worker' = worker
    BY <2>2, <2>3, <2>4 DEF QuotaInv, DayInHand
  <2>5. CASE jobs' = [jobs EXCEPT ![f] = DocTaken(f)] /\ worker' = [pc |-> "creds", file |-> f, day |-> today]
    <3>1. /\ jobs'[f].user = jobs[f].user /\ jobs'[f].origin = jobs[f].origin /\ jobs[f].user \in Users
      BY <2>1, <2>5 DEF DocClaims, DistillTypeOK, DocRows
    <3>2. jobs[f].origin = "manual" \/ QuotaRemaining(jobs[f].user, today) > 0
      BY <2>1 DEF DocClaims
    <3>3. DailyCap \in Nat /\ QuotaUsed(jobs[f].user, today) \in Nat /\ today \in Nat
      BY <3>1, DistillConstants DEF QuotaUsed, DistillTypeOK
    <3>4. jobs[f].origin = "manual" \/ QuotaUsed(jobs[f].user, today) < DailyCap
      BY <3>2, <3>3 DEF QuotaRemaining
    <3>5. worker'.file = f /\ worker'.day = today
      BY <2>5
    <3>6. DayInHand'
      BY <2>2, <3>1, <3>3, <3>4, <3>5 DEF DayInHand, QuotaInv, DayHeld, QuotaUsed
    <3> QED
      BY <2>3, <3>6 DEF QuotaInv
  <2> QED
    BY <2>1, <2>4, <2>5 DEF DocClaims
<1>2. CASE DistillCreds \/ DistillFails
  <2>1. worker.pc \in {"creds", "text"} /\ UNCHANGED <<quota, today, autos, stops>>
    BY <1>2, DocTries DEF DistillCreds, DistillFails
  <2>2. DayHeld' /\ stops' \in Nat
    <3>1. worker'.pc # "index"
      BY <1>2, <2>1, DocTries, DocBusy DEF Settle, NoWork, DocWork
    <3> QED
      BY <1>o, <2>1, <3>1 DEF Owing
  <2>3. CASE worker' = [worker EXCEPT !.pc = "text"] /\ jobs' = jobs
    <3>1. worker'.file = worker.file /\ worker'.day = worker.day
      BY <2>1, <2>3, DocBusy DEF DocWork
    <3> QED
      BY <2>1, <2>2, <2>3, <3>1 DEF QuotaInv, DayInHand, QuotaUsed
  <2>4. CASE worker' = NoWork
    BY <2>2, <2>4 DEF QuotaInv, DayInHand, NoWork
  <2> QED
    BY <1>2, <2>3, <2>4, DocTries DEF Settle
<1>3. CASE DistillApply
  <2>1. worker.pc = "text" /\ today' = today /\ stops' = stops /\ NoteCommitted
    BY <1>3, DocWritten DEF DistillApply
  <2>2. ASSUME NEW u \in Users
        PROVE  /\ autos[u] \in Nat /\ One(Spends(u)) \in {0, 1} /\ QuotaUsed(u, today) \in Nat
               /\ autos'[u] = autos[u] + One(Spends(u)) /\ autos[u] <= QuotaUsed(u, today) + stops
    <3>1. One(Owing(u)) = 0
      BY <2>1 DEF Owing, One
    <3> QED
      BY <2>1, <3>1, DocNumbers, DocCounted
  <2>3. CASE Finished(worker.file) /\ worker' = NoWork
    <3>1. ASSUME NEW u \in Users
          PROVE  /\ quota'[u].day <= today /\ QuotaUsed(u, today)' <= DailyCap
                 /\ autos'[u] <= QuotaUsed(u, today)' + stops' /\ QuotaUsed(u, today)' \in Nat
      <4>1. /\ quota'[u].day <= today /\ QuotaUsed(u, today)' <= DailyCap
            /\ QuotaUsed(u, today)' = QuotaUsed(u, today) + One(Spends(u))
        BY <2>1, <2>3, DocQuotaSpent DEF Finished
      <4> QED
        BY <1>n, <2>1, <2>2, <4>1
    <3> QED
      BY <1>n, <2>1, <2>3, <3>1, DocFreed
  <2>4. CASE /\ worker'.file = worker.file /\ worker'.day = worker.day /\ worker'.pc = "index"
             /\ UNCHANGED <<jobs, quota>>
    <3>1. ASSUME NEW u \in Users
          PROVE  /\ quota'[u].day <= today' /\ QuotaUsed(u, today)' <= DailyCap
                 /\ autos'[u] <= QuotaUsed(u, today)' + stops' + One(Owing(u))'
      <4>1. QuotaUsed(u, today)' = QuotaUsed(u, today) /\ quota'[u].day = quota[u].day
        BY <2>1, <2>4 DEF QuotaUsed
      <4>2. Owing(u)' <=> Spends(u)
        BY <2>1, <2>4 DEF Owing, Spends
      <4>3. One(Owing(u))' = One(Spends(u))
        BY <4>2 DEF One
      <4> QED
        BY <1>n, <2>1, <2>2, <4>1, <4>3 DEF QuotaInv, DayHeld
    <3>2. DayInHand'
      BY <2>1, <2>4 DEF QuotaInv, DayInHand, QuotaUsed
    <3> QED
      BY <1>n, <2>1, <3>1, <3>2 DEF QuotaInv, DayHeld
  <2> QED
    BY <1>3, <2>3, <2>4, DocWritten
<1>4. CASE DistillFinish
  <2>1. worker.pc = "index" /\ Finished(worker.file) /\ UNCHANGED <<today, stops, autos>>
    BY <1>4 DEF DistillFinish
  <2>2. ASSUME NEW u \in Users
        PROVE  /\ quota'[u].day <= today /\ QuotaUsed(u, today)' <= DailyCap
               /\ autos'[u] <= QuotaUsed(u, today)' + stops' /\ QuotaUsed(u, today)' \in Nat
    <3>1. /\ quota'[u].day <= today /\ QuotaUsed(u, today)' <= DailyCap
          /\ QuotaUsed(u, today)' = QuotaUsed(u, today) + One(Spends(u))
      BY <2>1, DocQuotaSpent DEF Finished
    <3>2. One(Owing(u)) = One(Spends(u))
      <4>1. Owing(u) <=> Spends(u)
        BY <2>1 DEF Owing
      <4> QED
        BY <4>1 DEF One
    <3>3. autos'[u] = autos[u] /\ stops' = stops
      BY <2>1
    <3> QED
      BY <3>1, <3>2, <3>3, DocNumbers
  <2>3. worker' = NoWork
    BY <2>1 DEF Finished
  <2> QED
    BY <1>n, <2>1, <2>2, <2>3, DocFreed
<1>5. ASSUME UNCHANGED <<quota, today, autos, worker, stops>>,
             worker.pc # "idle" => jobs'[worker.file] = jobs[worker.file]
      PROVE  QuotaInv'
  <2>1. \A u \in Users : Owing(u)' <=> Owing(u)
    BY <1>5 DEF Owing, Spends
  <2>2. DayInHand'
    BY <1>5 DEF QuotaInv, DayInHand, QuotaUsed
  <2> QED
    BY <1>o, <1>5, <2>1, <2>2 DEF QuotaInv
<1>6. CASE ScanEnqueue
  <2>1. worker.pc # "idle" => jobs'[worker.file] = jobs[worker.file]
    <3>1. ASSUME worker.pc # "idle" PROVE jobs'[worker.file] = jobs[worker.file]
      <4>1. worker.file \in Files /\ jobs[worker.file].status = "running"
        BY <3>1, DocBusy DEF DocInHand
      <4>2. worker.file \notin DocMoved
        BY <4>1 DEF DocMoved
      <4> QED
        BY <1>6, <4>1, <4>2, DocScanned DEF Tombstones
    <3> QED
      BY <3>1
  <2> QED
    BY <1>5, <1>6, <2>1, DocScanned DEF ScanEnqueue
<1>7. ASSUME NEW u \in Users, NEW f \in Files, DistillManual(u, f) PROVE QuotaInv'
  <2>1. jobs[f].status # "running" /\ UNCHANGED <<quota, today, autos, worker, stops>>
    BY <1>7, DocAsked DEF DistillManual
  <2>2. worker.pc # "idle" => jobs'[worker.file] = jobs[worker.file]
    BY <1>7, <2>1, DocAsked, DocBusy DEF DocInHand, DistillTypeOK
  <2> QED
    BY <1>5, <2>1, <2>2
<1>8. ASSUME NEW u \in Users, NEW f \in Files, DistillCancel(u, f) PROVE QuotaInv'
  <2>1. jobs[f].status = "pending" /\ UNCHANGED <<quota, today, autos, worker, stops>>
    BY <1>8 DEF DistillCancel
  <2>2. \A g \in Files : g # f => jobs'[g] = jobs[g]
    BY <1>8 DEF DistillCancel, DistillTypeOK
  <2>3. worker.pc # "idle" => jobs'[worker.file] = jobs[worker.file]
    BY <2>1, <2>2, DocBusy DEF DocInHand
  <2> QED
    BY <1>5, <2>1, <2>3
<1>9. CASE Midnight
  <2>1. today' = today + 1 /\ autos' = [u \in Users |-> 0] /\ UNCHANGED <<quota, worker, jobs, stops>>
    BY <1>9 DEF Midnight
  <2>2. ASSUME NEW u \in Users
        PROVE  /\ quota[u].day <= today /\ quota[u].day \in Nat /\ autos'[u] = 0 /\ today \in Nat
    BY <2>1 DEF QuotaInv, DayHeld, DistillTypeOK
  <2>3. ASSUME NEW u \in Users
        PROVE  /\ quota'[u].day <= today' /\ QuotaUsed(u, today)' <= DailyCap
               /\ autos'[u] <= QuotaUsed(u, today)' + stops' + One(Owing(u))'
    <3>1. QuotaUsed(u, today)' = 0
      BY <2>1, <2>2 DEF QuotaUsed
    <3>2. One(Owing(u))' \in {0, 1}
      BY DEF One
    <3> QED
      BY <1>n, <2>1, <2>2, <3>1, <3>2
  <2>4. worker.pc # "idle" => worker.day \in Nat /\ today \in Nat
    BY DocBusy DEF DocWork, DistillTypeOK
  <2>5. DayInHand'
    BY <2>1, <2>4 DEF QuotaInv, DayInHand, QuotaUsed
  <2> QED
    BY <1>n, <2>1, <2>3, <2>5 DEF QuotaInv, DayHeld
\* A crash: one document at most was counted and not spent.
<1>10. CASE DistillRestart \/ DistillTorn
  <2>1. worker' = NoWork /\ today' = today /\ stops' = stops + 1
    BY <1>10, DocRequeued DEF DistillRestart, DistillTorn, Restarted
  <2>2. ASSUME NEW u \in Users
        PROVE  /\ quota'[u].day <= today /\ QuotaUsed(u, today)' <= DailyCap
               /\ QuotaUsed(u, today)' \in Nat /\ QuotaUsed(u, today) <= QuotaUsed(u, today)'
    <3>1. CASE quota' = quota
      BY <2>1, <3>1, DocNumbers DEF QuotaUsed, QuotaInv, DayHeld
    <3>2. CASE worker.pc # "idle" /\ quota' = Spent
      BY <2>1, <3>2, DocNumbers, DocQuotaSpent
    <3> QED
      BY <1>10, <3>1, <3>2 DEF DistillRestart, DistillTorn
  <2>3. ASSUME NEW u \in Users PROVE autos'[u] <= QuotaUsed(u, today) + stops'
    <3>1. CASE worker.pc = "text" /\ NoteCommitted
      <4>1. One(Owing(u)) = 0
        BY <3>1 DEF Owing, One
      <4>2. autos'[u] = autos[u] + One(Spends(u))
        BY <3>1, DocCounted
      <4> QED
        BY <2>1, <4>1, <4>2, DocNumbers
    <3>2. CASE autos' = autos
      BY <2>1, <3>2, DocNumbers
    <3> QED
      BY <1>10, <3>1, <3>2 DEF DistillRestart, DistillTorn
  <2>4. ASSUME NEW u \in Users PROVE autos'[u] <= QuotaUsed(u, today)' + stops'
    <3>1. autos'[u] \in Nat
      BY DocTypeStep DEF DistillTypeOK
    <3> QED
      BY <1>n, <2>1, <2>2, <2>3, <3>1, DocNumbers
  <2> QED
    BY <1>n, <2>1, <2>2, <2>4, DocFreed
<1>11. ASSUME \/ (\E u \in Users : ScanStart(u) \/ DistillSettings(u)) \/ ScanWalk
              \/ \E f \in Files : WriteDocument(f) \/ RemoveDocument(f)
              \/ \E u \in Users, f \in Files : CurateSummary(u, f) \/ DeleteSummary(u, f)
              \/ UNCHANGED distillVars
       PROVE  QuotaInv'
  <2>1. UNCHANGED <<quota, today, autos, worker, jobs, stops>>
    BY <1>11 DEF ScanStart, ScanWalk, CurateSummary, DeleteSummary, DistillSettings, WriteDocument,
                 RemoveDocument, distillVars
  <2> QED
    BY <1>5, <2>1
<1> QED
  BY <1>1, <1>2, <1>3, <1>4, <1>6, <1>7, <1>8, <1>9, <1>10, <1>11 DEF DistillNext, DistillWorks, Scanning

-----------------------------------------------------------------------------
(* What was given up, what was made.                                       *)

\* A document given up as it is on disk has a tombstone in that user's name; a row in
\* the queue is of nothing given up.
RefusedKnown ==
    \A r \in refused : disk[r[2]] = r[3] =>
        jobs[r[2]].status \in Tombstones /\ jobs[r[2]].user = r[1] /\ jobs[r[2]].mtime = r[3]
OpenNotRefused == \A f \in Files : DocOpen(f) => <<jobs[f].user, f, jobs[f].mtime>> \notin refused
RefusedInv == RefusedKnown /\ OpenNotRefused

\* The scan knows a time at least as late as those of its user's rows and drafts, and of
\* what it found that was given up or made, unless the user asked meanwhile.
Reaches(f, m) == \E k \in scan.known[f] : m <= k
ScanKnows ==
    scan.pc # "idle" => \A f \in Files \ scan.asked :
        /\ jobs[f].status # "none" /\ jobs[f].user = scan.user => Reaches(f, jobs[f].mtime)
        /\ summary[<<scan.user, f>>].status = "draft" => Reaches(f, summary[<<scan.user, f>>].mtime)
ScanRefused ==
    scan.pc = "enqueue" => \A f \in Files \ scan.asked :
        <<scan.user, f, scan.found[f]>> \in refused => Reaches(f, scan.found[f])
ScanMade ==
    scan.pc = "enqueue" => \A f \in Files \ scan.asked : \A r \in made :
        /\ r[1] = scan.user /\ r[2] = f /\ scan.found[f] # 0 /\ scan.found[f] <= r[3]
        => summary[<<scan.user, f>>].status = "curated" \/ Reaches(f, scan.found[f])
ScanInv == ScanKnows /\ ScanRefused /\ ScanMade

\* A note made of the document as it is on disk is still there, or was curated; a row in
\* the queue is of nothing made, but for the note the worker is indexing and those that a
\* crash put back.
Indexing(f) == worker.pc = "index" /\ worker.file = f
Excused(f, r) == summary[<<r[1], f>>].status = "curated" \/ (r \in torn /\ r[3] = jobs[f].mtime)
MadeKnown ==
    \A r \in made : disk[r[2]] = r[3] =>
        \/ summary[<<r[1], r[2]>>].status = "curated"
        \/ summary[<<r[1], r[2]>>].status # "none" /\ summary[<<r[1], r[2]>>].mtime = r[3]
RowNotMade ==
    \A f \in Files : DocOpen(f) => \A r \in made :
        /\ r[1] = jobs[f].user /\ r[2] = f /\ (r[3] = disk[f] \/ r[3] = jobs[f].mtime)
        /\ ~(Indexing(f) /\ r[3] = jobs[f].mtime)
        => Excused(f, r)
MadeInv == MadeKnown /\ RowNotMade

DocInv == DistillTypeOK /\ DocInHand /\ TimesBounded /\ QuotaInv /\ RefusedInv /\ ScanInv /\ MadeInv

\* A document that was written is newer than all that was given up or made of it.
LEMMA DocRenewed ==
    ASSUME DistillTypeOK, NEW f \in Files, WriteDocument(f) \/ RemoveDocument(f)
    PROVE  /\ \A g \in Files : g # f => disk'[g] = disk[g]
           /\ \A r \in made \cup refused : r[2] = f => disk'[f] # r[3]
           /\ UNCHANGED <<jobs, summary, scan, worker, made, refused>>
<1>1. CASE RemoveDocument(f)
  <2>1. disk' = [disk EXCEPT ![f] = 0]
    BY <1>1 DEF RemoveDocument
  <2>2. \A r \in made \cup refused : r[3] # 0
    BY DEF DistillTypeOK, Answers, Mtimes
  <2> QED
    BY <1>1, <2>1, <2>2 DEF RemoveDocument, DistillTypeOK
<1>2. CASE WriteDocument(f)
  <2>1. PICK t \in Times(f) : (\A s \in Times(f) : s <= t) /\ disk' = [disk EXCEPT ![f] = t + 1]
    BY <1>2 DEF WriteDocument
  <2>2. \A r \in made \cup refused : r[2] = f => r[3] \in Times(f)
    BY TimesAre
  <2>3. \A r \in made \cup refused : r[2] = f => r[3] \in Nat /\ r[3] <= t
    BY <2>1, <2>2, DocTimesNat
  <2>4. t \in Nat
    BY DocTimesNat
  <2>5. disk'[f] = t + 1
    BY <2>1 DEF DistillTypeOK
  <2> QED
    BY <1>2, <2>1, <2>3, <2>4, <2>5 DEF WriteDocument, DistillTypeOK
<1> QED
  BY <1>1, <1>2

\* A row that is moved was not known to the scan.
LEMMA DocNews ==
    ASSUME DistillTypeOK, scan \in DocScans, scan.pc = "enqueue", NEW f \in DocMoved
    PROVE  ~Reaches(f, scan.found[f]) /\ scan.found[f] \in Mtimes
<1>1. f \in Files /\ scan.found[f] # 0 /\ \A m \in scan.known[f] : scan.found[f] > m
  BY DEF DocMoved, News
<1>2. scan.found[f] \in Nat /\ scan.known[f] \subseteq Nat
  BY <1>1 DEF DocScans
<1> QED
  BY <1>1, <1>2 DEF Reaches, Mtimes

\* Every step keeps what is known of the documents given up.
LEMMA DocRefusedStep ==
    ASSUME DistillTypeOK, DocInHand, TimesBounded, RefusedInv, ScanInv, [DistillNext]_distillVars
    PROVE  RefusedInv'
<1>1. CASE DistillClaim
  <2>1. PICK f \in Files : DocClaims(f)
    BY <1>1, DocClaiming
  <2>2. disk' = disk
    BY <1>1, DocClaiming
  <2>3. \A g \in Files : g # f => jobs'[g] = jobs[g]
    BY <2>1 DEF DocClaims, DistillTypeOK
  <2>4. \A r \in refused : r[2] = f => disk[f] # r[3]
    BY <2>1 DEF RefusedInv, RefusedKnown, DocClaims, Tombstones
  <2>5. <<jobs[f].user, f, jobs[f].mtime>> \notin refused
    BY <2>1 DEF RefusedInv, OpenNotRefused, DocOpen, DocClaims
  <2>6. CASE jobs' = [jobs EXCEPT ![f] = SkipJob(DocTaken(f))]
             /\ refused' = refused \cup {<<jobs[f].user, f, jobs[f].mtime>>}
    <3>1. jobs'[f].status = "skipped" /\ jobs'[f].user = jobs[f].user /\ jobs'[f].mtime = jobs[f].mtime
      BY <2>1, <2>6 DEF DocClaims, DistillTypeOK
    <3>2. ASSUME NEW r \in refused', disk'[r[2]] = r[3]
          PROVE  jobs'[r[2]].status \in Tombstones /\ jobs'[r[2]].user = r[1] /\ jobs'[r[2]].mtime = r[3]
      <4>1. CASE r \in refused
        <5>1. r[2] # f /\ r[2] \in Files
          BY <2>2, <2>4, <3>2, <4>1 DEF DistillTypeOK, Answers
        <5> QED
          BY <2>2, <2>3, <3>2, <4>1, <5>1 DEF RefusedInv, RefusedKnown
      <4>2. CASE r = <<jobs[f].user, f, jobs[f].mtime>>
        BY <3>1, <4>2 DEF Tombstones
      <4> QED
        BY <2>6, <3>2, <4>1, <4>2
    <3>3. ASSUME NEW g \in Files, jobs'[g].status \in {"pending", "running"}
          PROVE  <<jobs'[g].user, g, jobs'[g].mtime>> \notin refused'
      <4>1. g # f /\ jobs'[g] = jobs[g]
        BY <2>3, <3>1, <3>3
      <4> QED
        BY <2>6, <3>3, <4>1 DEF RefusedInv, OpenNotRefused, DocOpen
    <3> QED
      BY <3>2, <3>3 DEF RefusedInv, RefusedKnown, OpenNotRefused, DocOpen
  <2>7. CASE jobs' = [jobs EXCEPT ![f] = DocTaken(f)] /\ refused' = refused
    <3>1. jobs'[f].user = jobs[f].user /\ jobs'[f].mtime = jobs[f].mtime
      BY <2>1, <2>7 DEF DocClaims, DistillTypeOK
    <3>2. RefusedKnown'
      BY <2>2, <2>3, <2>4, <2>7 DEF RefusedInv, RefusedKnown, DistillTypeOK, Answers
    <3>3. OpenNotRefused'
      BY <2>3, <2>5, <2>7, <3>1 DEF RefusedInv, OpenNotRefused, DocOpen
    <3> QED
      BY <3>2, <3>3 DEF RefusedInv
  <2> QED
    BY <2>1, <2>6, <2>7 DEF DocClaims
<1>2. CASE DistillCreds \/ DistillFails
  <2>1. worker.pc # "idle" /\ disk' = disk
    BY <1>2, DocTries
  <2>2. CASE UNCHANGED <<jobs, refused>>
    BY <2>1, <2>2 DEF RefusedInv, RefusedKnown, OpenNotRefused, DocOpen
  <2>3. ASSUME NEW j \in DocRows, DocLeft(j), Settle(j) PROVE RefusedInv'
    <3> DEFINE f == worker.file
    <3>1. f \in Files /\ jobs[f].status = "running"
      BY <2>1, DocBusy DEF DocInHand
    <3>2. /\ jobs' = [jobs EXCEPT ![f] = j] /\ j.user = jobs[f].user /\ j.mtime = jobs[f].mtime
          /\ \/ j.status \in Tombstones /\ refused' = refused \cup {<<j.user, f, j.mtime>>}
             \/ j.status = "pending" /\ refused' = refused
      BY <2>3 DEF Settle, DocLeft, Tombstones
    <3>3. jobs'[f] = j /\ \A g \in Files : g # f => jobs'[g] = jobs[g]
      BY <3>1, <3>2 DEF DistillTypeOK
    <3>4. \A r \in refused : r[2] = f => disk[f] # r[3]
      BY <3>1 DEF RefusedInv, RefusedKnown, Tombstones
    <3>5. <<jobs[f].user, f, jobs[f].mtime>> \notin refused
      BY <3>1 DEF RefusedInv, OpenNotRefused, DocOpen
    <3> HIDE DEF f
    <3>6. ASSUME NEW r \in refused', disk'[r[2]] = r[3]
          PROVE  jobs'[r[2]].status \in Tombstones /\ jobs'[r[2]].user = r[1] /\ jobs'[r[2]].mtime = r[3]
      <4>1. CASE r \in refused
        <5>1. r[2] # f /\ r[2] \in Files
          BY <2>1, <3>4, <3>6, <4>1 DEF DistillTypeOK, Answers
        <5> QED
          BY <2>1, <3>3, <3>6, <4>1, <5>1 DEF RefusedInv, RefusedKnown
      <4>2. CASE j.status \in Tombstones /\ r = <<j.user, f, j.mtime>>
        BY <3>3, <4>2
      <4> QED
        BY <3>2, <3>6, <4>1, <4>2
    <3>7. ASSUME NEW g \in Files, jobs'[g].status \in {"pending", "running"}
          PROVE  <<jobs'[g].user, g, jobs'[g].mtime>> \notin refused'
      <4>1. CASE g = f
        BY <3>2, <3>3, <3>5, <3>7, <4>1 DEF Tombstones
      <4>2. CASE g # f
        BY <3>2, <3>3, <3>7, <4>2 DEF RefusedInv, OpenNotRefused, DocOpen
      <4> QED
        BY <4>1, <4>2
    <3> QED
      BY <3>6, <3>7 DEF RefusedInv, RefusedKnown, OpenNotRefused, DocOpen
  <2> QED
    BY <1>2, <2>2, <2>3, DocTries
<1>3. ASSUME NEW f \in Files, jobs[f].status = "running", jobs' = [jobs EXCEPT ![f] = NoJob],
             UNCHANGED <<disk, refused>>
      PROVE  RefusedInv'
  <2>1. jobs'[f].status = "none" /\ \A g \in Files : g # f => jobs'[g] = jobs[g]
    BY <1>3 DEF DistillTypeOK, NoJob
  <2>2. \A r \in refused : r[2] = f => disk[f] # r[3]
    BY <1>3 DEF RefusedInv, RefusedKnown, Tombstones
  <2>3. \A r \in refused : r[2] \in Files
    BY DEF DistillTypeOK, Answers
  <2> QED
    BY <1>3, <2>1, <2>2, <2>3 DEF RefusedInv, RefusedKnown, OpenNotRefused, DocOpen
<1>4. ASSUME UNCHANGED <<disk, jobs, refused>> PROVE RefusedInv'
  BY <1>4 DEF RefusedInv, RefusedKnown, OpenNotRefused, DocOpen
<1>5. CASE DistillApply
  BY <1>3, <1>4, <1>5, DocWritten
<1>6. CASE DistillFinish
  BY <1>3, <1>6, DocFinishing, DocBusy DEF DistillFinish, DocInHand
<1>7. CASE ScanEnqueue
  <2>1. /\ scan \in DocScans /\ scan.pc = "enqueue" /\ disk' = disk /\ refused' \subseteq refused
        /\ \A r \in refused' : r[2] \in DocMoved => r[1] = scan.user /\ r[2] \notin scan.asked
    BY <1>7, DocScanned DEF ScanEnqueue
  <2>2. ASSUME NEW r \in refused', disk'[r[2]] = r[3]
        PROVE  jobs'[r[2]].status \in Tombstones /\ jobs'[r[2]].user = r[1] /\ jobs'[r[2]].mtime = r[3]
    <3>1. /\ jobs[r[2]].status \in Tombstones /\ jobs[r[2]].user = r[1] /\ jobs[r[2]].mtime = r[3]
          /\ r[2] \in Files /\ r[3] \in Mtimes /\ disk[r[2]] = r[3]
      BY <2>1, <2>2 DEF RefusedInv, RefusedKnown, DistillTypeOK, Answers
    <3>2. CASE r[2] \in DocMoved
      <4>1. Reaches(r[2], r[3])
        BY <2>1, <3>1, <3>2 DEF ScanInv, ScanKnows, Tombstones
      <4>2. ~Reaches(r[2], scan.found[r[2]])
        BY <2>1, <3>2, DocNews
      <4>3. scan.found[r[2]] <= r[3]
        BY <2>1, <3>1 DEF TimesBounded, DocTimely, Mtimes
      <4>4. scan.found[r[2]] \in Nat /\ scan.known[r[2]] \subseteq Nat /\ r[3] \in Nat
        BY <2>1, <3>1 DEF DocScans, Mtimes
      <4> QED
        BY <4>1, <4>2, <4>3, <4>4 DEF Reaches
    <3>3. CASE r[2] \notin DocMoved
      BY <1>7, <3>1, <3>3, DocScanned DEF Mtimes
    <3> QED
      BY <3>2, <3>3
  <2>3. ASSUME NEW g \in Files, jobs'[g].status \in {"pending", "running"}
        PROVE  <<jobs'[g].user, g, jobs'[g].mtime>> \notin refused'
    <3>1. CASE g \in DocMoved
      <4>1. jobs'[g].user = scan.user /\ jobs'[g].mtime = scan.found[g]
        BY <1>7, <3>1, DocScanned
      <4>2. ~Reaches(g, scan.found[g])
        BY <2>1, <3>1, DocNews
      <4>3. ASSUME <<scan.user, g, scan.found[g]>> \in refused' PROVE FALSE
        <5> DEFINE r == <<scan.user, g, scan.found[g]>>
        <5>1. r \in refused' /\ r[2] = g
          BY <4>3
        <5>2. g \notin scan.asked
          BY <2>1, <3>1, <5>1
        <5> QED
          BY <2>1, <4>2, <4>3, <5>2 DEF ScanInv, ScanRefused
      <4> QED
        BY <4>1, <4>3
    <3>2. CASE g \notin DocMoved
      <4>1. jobs'[g] = jobs[g]
        BY <1>7, <2>3, <3>2, DocScanned DEF NoJob
      <4> QED
        BY <2>1, <2>3, <4>1 DEF RefusedInv, OpenNotRefused, DocOpen
    <3> QED
      BY <3>1, <3>2
  <2> QED
    BY <2>2, <2>3 DEF RefusedInv, RefusedKnown, OpenNotRefused, DocOpen
<1>8. ASSUME NEW u \in Users, NEW f \in Files, DistillManual(u, f) PROVE RefusedInv'
  <2>1. /\ \A g \in Files : g # f => jobs'[g] = jobs[g]
        /\ refused' = {r \in refused : r[2] # f} /\ disk' = disk
    BY <1>8, DocAsked DEF DistillTypeOK
  <2>2. \A r \in refused' : r[2] # f /\ r[2] \in Files /\ r \in refused
    BY <2>1 DEF DistillTypeOK, Answers
  <2>3. RefusedKnown'
    BY <2>1, <2>2 DEF RefusedInv, RefusedKnown
  <2>4. ASSUME NEW g \in Files, jobs'[g].status \in {"pending", "running"},
               <<jobs'[g].user, g, jobs'[g].mtime>> \in refused'
        PROVE  FALSE
    <3>1. g # f
      BY <2>2, <2>4
    <3> QED
      BY <2>1, <2>4, <3>1 DEF RefusedInv, OpenNotRefused, DocOpen
  <2> QED
    BY <2>3, <2>4 DEF RefusedInv, OpenNotRefused, DocOpen
<1>9. ASSUME NEW u \in Users, NEW f \in Files, DistillCancel(u, f) PROVE RefusedInv'
  <2>1. /\ jobs[f].status = "pending" /\ jobs[f].user = u /\ jobs[f] \in DocRows
        /\ refused' = refused \cup {<<u, f, jobs[f].mtime>>} /\ disk' = disk
    BY <1>9 DEF DistillCancel, DistillTypeOK, NoJob
  <2>2. \A g \in Files : g # f => jobs'[g] = jobs[g]
    BY <1>9 DEF DistillCancel, DistillTypeOK
  <2>3. jobs'[f].status = "skipped" /\ jobs'[f].user = u /\ jobs'[f].mtime = jobs[f].mtime
    BY <1>9, <2>1 DEF DistillCancel, DistillTypeOK, DocRows
  <2>4. \A r \in refused : r[2] = f => disk[f] # r[3]
    BY <2>1 DEF RefusedInv, RefusedKnown, Tombstones
  <2>5. ASSUME NEW r \in refused', disk'[r[2]] = r[3]
        PROVE  jobs'[r[2]].status \in Tombstones /\ jobs'[r[2]].user = r[1] /\ jobs'[r[2]].mtime = r[3]
    <3>1. CASE r \in refused
      <4>1. r[2] # f /\ r[2] \in Files
        BY <2>1, <2>4, <2>5, <3>1 DEF DistillTypeOK, Answers
      <4> QED
        BY <2>1, <2>2, <2>5, <3>1, <4>1 DEF RefusedInv, RefusedKnown
    <3>2. CASE r = <<u, f, jobs[f].mtime>>
      BY <2>3, <3>2 DEF Tombstones
    <3> QED
      BY <2>1, <2>5, <3>1, <3>2
  <2>6. ASSUME NEW g \in Files, jobs'[g].status \in {"pending", "running"}
        PROVE  <<jobs'[g].user, g, jobs'[g].mtime>> \notin refused'
    <3>1. g # f /\ jobs'[g] = jobs[g]
      BY <2>2, <2>3, <2>6
    <3> QED
      BY <2>1, <2>6, <3>1 DEF RefusedInv, OpenNotRefused, DocOpen
  <2> QED
    BY <2>5, <2>6 DEF RefusedInv, RefusedKnown, OpenNotRefused, DocOpen
<1>10. ASSUME NEW f \in Files, WriteDocument(f) \/ RemoveDocument(f) PROVE RefusedInv'
  <2>1. /\ \A g \in Files : g # f => disk'[g] = disk[g]
        /\ \A r \in refused : r[2] = f => disk'[f] # r[3]
        /\ UNCHANGED <<jobs, refused>>
    BY <1>10, DocRenewed
  <2>2. \A r \in refused : r[2] \in Files
    BY DEF DistillTypeOK, Answers
  <2> QED
    BY <2>1, <2>2 DEF RefusedInv, RefusedKnown, OpenNotRefused, DocOpen
<1>11. CASE DistillRestart \/ DistillTorn
  <2>1. UNCHANGED <<disk, refused>> /\ \A r \in refused : r[2] \in Files
    BY <1>11, DocRequeued DEF DistillTypeOK, Answers
  <2>2. \A f \in Files : \/ jobs'[f] = jobs[f]
                         \/ /\ jobs[f].status = "running" /\ jobs'[f].user = jobs[f].user
                            /\ jobs'[f].mtime = jobs[f].mtime
    BY <1>11, DocRequeued
  <2>3. RefusedKnown'
    BY <2>1, <2>2 DEF RefusedInv, RefusedKnown, Tombstones
  <2>4. OpenNotRefused'
    BY <2>1, <2>2 DEF RefusedInv, OpenNotRefused, DocOpen
  <2> QED
    BY <2>3, <2>4 DEF RefusedInv
<1> QED
  BY <1>1, <1>2, <1>4, <1>5, <1>6, <1>7, <1>8, <1>9, <1>10, <1>11
  DEF DistillNext, DistillWorks, Scanning, ScanStart, ScanWalk, CurateSummary, DeleteSummary,
      DistillSettings, Midnight, distillVars

\* What a step of the worker or a cancellation does to a row: user and time stay, and
\* what is newly given up is of a row.
DocRowsStay ==
    /\ \A f \in Files : jobs'[f].status # "none" =>
         jobs[f].status # "none" /\ jobs'[f].user = jobs[f].user /\ jobs'[f].mtime = jobs[f].mtime
    /\ \A r \in refused' \ refused :
         r[2] \in Files /\ jobs[r[2]].status # "none" /\ jobs[r[2]].user = r[1] /\ jobs[r[2]].mtime = r[3]

\* The steps of the worker and a cancellation are such steps.
LEMMA DocStays ==
    ASSUME DistillTypeOK, DocInHand,
           \/ DistillWorks
           \/ \E u \in Users, f \in Files : DistillCancel(u, f)
    PROVE  DocRowsStay /\ UNCHANGED <<disk, scan>>
<1>1. ASSUME NEW f \in Files, NEW j, jobs' = [jobs EXCEPT ![f] = j], jobs[f].status # "none",
             j.status # "none" => j.user = jobs[f].user /\ j.mtime = jobs[f].mtime,
             refused' \subseteq refused \cup {<<jobs[f].user, f, jobs[f].mtime>>}
      PROVE  DocRowsStay
  <2>1. jobs'[f] = j /\ \A g \in Files : g # f => jobs'[g] = jobs[g]
    BY <1>1 DEF DistillTypeOK
  <2> QED
    BY <1>1, <2>1 DEF DocRowsStay
<1>2. CASE DistillClaim
  <2>1. PICK f \in Files : DocClaims(f)
    BY <1>2, DocClaiming
  <2>2. jobs[f].status # "none" /\ refused' \subseteq refused \cup {<<jobs[f].user, f, jobs[f].mtime>>}
    BY <2>1 DEF DocClaims
  <2>3. PICK j : jobs' = [jobs EXCEPT ![f] = j] /\ j.user = jobs[f].user /\ j.mtime = jobs[f].mtime
    BY <2>1 DEF DocClaims
  <2>4. DocRowsStay
    BY <1>1, <2>2, <2>3
  <2> QED
    BY <1>2, <2>4, DocClaiming
<1>3. CASE DistillCreds \/ DistillFails
  <2>1. worker.pc # "idle" /\ UNCHANGED <<disk, scan>>
    BY <1>3, DocTries
  <2>2. CASE UNCHANGED <<jobs, refused>>
    BY <2>1, <2>2 DEF DocRowsStay
  <2>3. ASSUME NEW j \in DocRows, DocLeft(j), Settle(j) PROVE DocRowsStay
    <3>1. worker.file \in Files /\ jobs[worker.file].status # "none"
      BY <2>1, DocBusy DEF DocRows
    <3>2. /\ jobs' = [jobs EXCEPT ![worker.file] = j] /\ j.user = jobs[worker.file].user
          /\ j.mtime = jobs[worker.file].mtime
          /\ refused' \subseteq refused \cup {<<j.user, worker.file, j.mtime>>}
      BY <2>3 DEF Settle, DocLeft
    <3> QED
      BY <1>1, <3>1, <3>2
  <2> QED
    BY <1>3, <2>1, <2>2, <2>3, DocTries
<1>4. CASE DistillApply
  <2>1. /\ worker.file \in Files /\ jobs[worker.file].status # "none" /\ UNCHANGED <<disk, scan, refused>>
        /\ jobs' = jobs \/ jobs' = [jobs EXCEPT ![worker.file] = NoJob]
    BY <1>4, DocWritten
  <2> QED
    BY <1>1, <2>1 DEF DocRowsStay, NoJob
<1>5. CASE DistillFinish
  <2>1. /\ worker.file \in Files /\ jobs[worker.file].status # "none" /\ UNCHANGED <<disk, scan, refused>>
        /\ jobs' = [jobs EXCEPT ![worker.file] = NoJob]
    BY <1>5, DocBusy, DocFinishing DEF DistillFinish, DocRows
  <2> QED
    BY <1>1, <2>1 DEF NoJob
<1>6. ASSUME NEW u \in Users, NEW f \in Files, DistillCancel(u, f)
      PROVE  DocRowsStay /\ UNCHANGED <<disk, scan>>
  <2>1. jobs[f] \in DocRows /\ jobs[f].status # "none"
    BY <1>6 DEF DistillCancel, DistillTypeOK, NoJob
  <2>2. jobs' = [jobs EXCEPT ![f] = [jobs[f] EXCEPT !.status = "skipped", !.cancelled = TRUE]]
    BY <1>6 DEF DistillCancel, DistillTypeOK
  <2>3. /\ [jobs[f] EXCEPT !.status = "skipped", !.cancelled = TRUE].user = jobs[f].user
        /\ [jobs[f] EXCEPT !.status = "skipped", !.cancelled = TRUE].mtime = jobs[f].mtime
    BY <2>1 DEF DocRows
  <2>4. refused' \subseteq refused \cup {<<jobs[f].user, f, jobs[f].mtime>>} /\ UNCHANGED <<disk, scan>>
    BY <1>6 DEF DistillCancel
  <2> QED
    BY <1>1, <2>1, <2>2, <2>3, <2>4
<1> QED
  BY <1>2, <1>3, <1>4, <1>5, <1>6 DEF DistillWorks

\* The notes: a draft is as it was or of the row in hand; curated notes stay so, unless
\* the user deletes them.
LEMMA DocNotesStay ==
    ASSUME DistillTypeOK, DocInHand, DistillWorks
    PROVE  /\ \A k \in Users \X Files :
                \/ summary'[k] = summary[k]
                \/ /\ worker.pc = "text" /\ k = <<jobs[worker.file].user, worker.file>>
                   /\ worker.file \in Files /\ jobs[worker.file].status = "running"
                   /\ \/ summary'[k].status = "curated" /\ summary[k].status = "curated"
                      \/ /\ summary'[k].status = "draft" /\ summary'[k].mtime = jobs[worker.file].mtime
                         /\ summary[k].status # "curated"
           /\ \A r \in made' \ made :
                /\ worker.pc = "text" /\ r = <<jobs[worker.file].user, worker.file, jobs[worker.file].mtime>>
                /\ worker.file \in Files /\ jobs[worker.file].status = "running"
                /\ \/ summary'[<<r[1], r[2]>>].status = "curated"
                   \/ /\ summary'[<<r[1], r[2]>>].status = "draft" /\ summary'[<<r[1], r[2]>>].mtime = r[3]
           /\ made \subseteq made'
<1>1. CASE summary' = summary /\ made' = made
  BY <1>1
<1>2. CASE DistillApply
  <2> DEFINE f == worker.file
             l == <<jobs[f].user, f>>
  <2>1. /\ worker.pc = "text" /\ f \in Files /\ jobs[f].status = "running" /\ l \in Users \X Files
        /\ made' = made \cup {<<jobs[f].user, f, jobs[f].mtime>>}
    BY <1>2, DocWritten
  <2>2. PICK s : /\ summary' = [summary EXCEPT ![l] = s]
                 /\ summary[l].status = "curated" => s.status = "curated"
                 /\ summary[l].status # "curated" => s.status = "draft" /\ s.mtime = jobs[f].mtime
    BY <1>2, DocWritten
  <2>3. summary'[l] = s /\ \A k \in Users \X Files : k # l => summary'[k] = summary[k]
    BY <2>1, <2>2 DEF DistillTypeOK
  <2>4. ASSUME NEW k \in Users \X Files
        PROVE  \/ summary'[k] = summary[k]
               \/ /\ k = l
                  /\ \/ summary'[k].status = "curated" /\ summary[k].status = "curated"
                     \/ /\ summary'[k].status = "draft" /\ summary'[k].mtime = jobs[f].mtime
                        /\ summary[k].status # "curated"
    BY <2>2, <2>3
  <2>5. ASSUME NEW r \in made' \ made
        PROVE  /\ r = <<jobs[f].user, f, jobs[f].mtime>>
               /\ \/ summary'[<<r[1], r[2]>>].status = "curated"
                  \/ /\ summary'[<<r[1], r[2]>>].status = "draft" /\ summary'[<<r[1], r[2]>>].mtime = r[3]
    BY <2>1, <2>2, <2>3
  <2> QED
    BY <2>1, <2>4, <2>5
<1>3. DistillApply \/ (summary' = summary /\ made' = made)
  BY DEF DistillWorks, DistillClaim, DistillCreds, DistillFails, DistillFinish
<1> QED
  BY <1>1, <1>2, <1>3

\* Every step keeps what the scan knows.
LEMMA DocScanStep ==
    ASSUME DistillTypeOK, DocInHand, TimesBounded, RefusedInv, ScanInv, MadeInv, [DistillNext]_distillVars
    PROVE  ScanInv'
<1> USE DEF Reaches
<1>1. ASSUME scan'.pc = "idle" PROVE ScanInv'
  BY <1>1 DEF ScanInv, ScanKnows, ScanRefused, ScanMade
<1>2. scan.pc # "idle" => scan \in DocScans
  BY DEF DistillTypeOK, NoScan
<1>3. ASSUME DocRowsStay, scan' = scan, scan.pc # "idle" PROVE ScanRefused'
  <2>1. ASSUME NEW f \in Files \ scan.asked, <<scan.user, f, scan.found[f]>> \in refused',
               scan.pc = "enqueue"
        PROVE  Reaches(f, scan.found[f])
    <3>1. CASE <<scan.user, f, scan.found[f]>> \in refused
      BY <2>1, <3>1 DEF ScanInv, ScanRefused
    <3>2. CASE <<scan.user, f, scan.found[f]>> \notin refused
      <4> DEFINE r == <<scan.user, f, scan.found[f]>>
      <4>1. r \in refused' \ refused
        BY <2>1, <3>2
      <4>2. jobs[r[2]].status # "none" /\ jobs[r[2]].user = r[1] /\ jobs[r[2]].mtime = r[3]
        BY <1>3, <4>1 DEF DocRowsStay
      <4>3. jobs[f].status # "none" /\ jobs[f].user = scan.user /\ jobs[f].mtime = scan.found[f]
        BY <4>2
      <4> QED
        BY <1>3, <2>1, <4>3 DEF ScanInv, ScanKnows
    <3> QED
      BY <3>1, <3>2
  <2> QED
    BY <1>3, <2>1 DEF ScanRefused
<1>4. ASSUME DistillWorks, scan.pc # "idle" PROVE ScanInv'
  <2>1. DocRowsStay /\ scan' = scan /\ scan \in DocScans /\ scan.user \in Users
    BY <1>2, <1>4, DocStays DEF DocScans
  <2>2. ASSUME NEW f \in Files \ scan.asked, jobs'[f].status # "none", jobs'[f].user = scan.user
        PROVE  Reaches(f, jobs'[f].mtime)
    BY <1>4, <2>1, <2>2 DEF DocRowsStay, ScanInv, ScanKnows
  <2>3. ASSUME NEW f \in Files \ scan.asked, summary'[<<scan.user, f>>].status = "draft"
        PROVE  Reaches(f, summary'[<<scan.user, f>>].mtime)
    <3> DEFINE k == <<scan.user, f>>
    <3>1. k \in Users \X Files
      BY <2>1
    <3>2. CASE summary'[k] = summary[k]
      BY <1>4, <2>1, <2>3, <3>2 DEF ScanInv, ScanKnows
    <3>3. CASE /\ k = <<jobs[worker.file].user, worker.file>> /\ jobs[worker.file].status = "running"
               /\ summary'[k].mtime = jobs[worker.file].mtime
      <4>1. f = worker.file /\ scan.user = jobs[f].user
        BY <3>3
      <4> QED
        BY <1>4, <2>1, <3>3, <4>1 DEF ScanInv, ScanKnows
    <3> QED
      BY <1>4, <2>3, <3>1, <3>2, <3>3, DocNotesStay
  <2>4. ScanKnows'
    BY <2>1, <2>2, <2>3 DEF ScanKnows
  <2>5. ASSUME NEW f \in Files \ scan.asked, NEW r \in made', scan.pc = "enqueue",
               r[1] = scan.user, r[2] = f, scan.found[f] # 0, scan.found[f] <= r[3]
        PROVE  summary'[<<scan.user, f>>].status = "curated" \/ Reaches(f, scan.found[f])
    <3> DEFINE k == <<scan.user, f>>
    <3>1. k \in Users \X Files
      BY <2>1
    <3>2. CASE r \in made
      <4>1. summary[k].status = "curated" \/ Reaches(f, scan.found[f])
        BY <2>5, <3>2 DEF ScanInv, ScanMade
      <4>2. summary[k].status = "curated" => summary'[k].status = "curated"
        <5> HIDE DEF k
        <5> QED
          BY <1>4, <3>1, DocNotesStay
      <4> QED
        BY <4>1, <4>2
    <3>3. CASE r \notin made
      <4>1. /\ r = <<jobs[worker.file].user, worker.file, jobs[worker.file].mtime>>
            /\ jobs[worker.file].status = "running"
        BY <1>4, <2>5, <3>3, DocNotesStay
      <4>2. f = worker.file /\ scan.user = jobs[f].user /\ r[3] = jobs[f].mtime
        BY <2>5, <4>1
      <4>3. Reaches(f, r[3])
        BY <1>4, <4>1, <4>2 DEF ScanInv, ScanKnows
      <4>4. scan.found[f] \in Nat /\ scan.known[f] \subseteq Nat
        BY <2>1, <2>5 DEF DocScans
      <4>5. r[3] \in Nat
        BY <4>1, <4>2 DEF DistillTypeOK, DocRows, NoJob, Mtimes
      <4> QED
        BY <2>5, <4>3, <4>4, <4>5
    <3> QED
      BY <3>2, <3>3
  <2>6. ScanMade'
    BY <2>1, <2>5 DEF ScanMade
  <2> QED
    BY <1>3, <1>4, <2>1, <2>4, <2>6 DEF ScanInv
<1>5. ASSUME NEW u \in Users, NEW f \in Files, DistillCancel(u, f), scan.pc # "idle" PROVE ScanInv'
  <2>1. DocRowsStay /\ scan' = scan
    BY <1>5, DocStays
  <2>2. summary' = summary /\ made' = made
    BY <1>5 DEF DistillCancel
  <2>3. ScanKnows'
    BY <1>5, <2>1, <2>2 DEF DocRowsStay, ScanInv, ScanKnows
  <2>4. ScanMade'
    BY <2>1, <2>2 DEF ScanInv, ScanMade
  <2> QED
    BY <1>3, <1>5, <2>1, <2>3, <2>4 DEF ScanInv
<1>6. ASSUME NEW u \in Users, ScanStart(u) PROVE ScanInv'
  <2>1. /\ scan' = [pc |-> "walk", user |-> u, known |-> KnownMtimes(u), asked |-> {}]
        /\ UNCHANGED <<jobs, summary>>
    BY <1>6 DEF ScanStart
  <2>2. ASSUME NEW f \in Files
        PROVE  /\ jobs[f].status # "none" /\ jobs[f].user = u => jobs[f].mtime \in KnownMtimes(u)[f]
               /\ summary[<<u, f>>].status = "draft" => summary[<<u, f>>].mtime \in KnownMtimes(u)[f]
    BY DEF KnownMtimes
  <2>3. ASSUME NEW f \in Files
        PROVE  /\ jobs[f].status # "none" => jobs[f].mtime <= jobs[f].mtime
               /\ summary[<<u, f>>].mtime <= summary[<<u, f>>].mtime
    BY DEF DistillTypeOK, DocNotes, DocRows, NoJob, Mtimes
  <2>4. scan'.user = u /\ scan'.known = KnownMtimes(u) /\ scan'.pc = "walk"
    BY <2>1
  <2>5. ScanKnows'
    BY <2>1, <2>2, <2>3, <2>4 DEF ScanKnows
  <2> QED
    BY <2>4, <2>5 DEF ScanInv, ScanRefused, ScanMade
<1>7. CASE ScanWalk
  <2>1. /\ scan.pc = "walk" /\ scan'.pc = "enqueue" /\ scan'.user = scan.user /\ scan'.known = scan.known
        /\ scan'.asked = scan.asked /\ scan'.found = disk
        /\ UNCHANGED <<disk, jobs, summary, made, refused>>
    BY <1>7 DEF ScanWalk
  <2>2. scan.user \in Users
    BY <1>2, <2>1 DEF DocScans
  <2>3. ScanKnows'
    BY <2>1 DEF ScanInv, ScanKnows
  <2>4. ASSUME NEW f \in Files \ scan.asked, <<scan.user, f, disk[f]>> \in refused
        PROVE  Reaches(f, disk[f])
    <3>1. jobs[f].status \in Tombstones /\ jobs[f].user = scan.user /\ jobs[f].mtime = disk[f]
      <4> DEFINE r == <<scan.user, f, disk[f]>>
      <4>1. disk[r[2]] = r[3] /\ r \in refused
        BY <2>4
      <4>2. jobs[r[2]].status \in Tombstones /\ jobs[r[2]].user = r[1] /\ jobs[r[2]].mtime = r[3]
        BY <4>1 DEF RefusedInv, RefusedKnown
      <4> QED
        BY <4>2
    <3> QED
      BY <2>1, <2>4, <3>1 DEF ScanInv, ScanKnows, Tombstones
  <2>5. ScanRefused'
    BY <2>1, <2>4 DEF ScanRefused
  <2>6. ASSUME NEW f \in Files \ scan.asked, NEW r \in made,
               r[1] = scan.user, r[2] = f, disk[f] # 0, disk[f] <= r[3]
        PROVE  summary[<<scan.user, f>>].status = "curated" \/ Reaches(f, disk[f])
    <3>1. r[3] <= disk[f] /\ r[3] \in Nat /\ disk[f] \in Nat
      BY <2>6 DEF TimesBounded, DocTimely, DistillTypeOK, Answers, Mtimes
    <3>2. disk[f] = r[3]
      BY <2>6, <3>1
    <3>3. \/ summary[<<scan.user, f>>].status = "curated"
          \/ summary[<<scan.user, f>>].status # "none" /\ summary[<<scan.user, f>>].mtime = disk[f]
      BY <2>6, <3>2 DEF MadeInv, MadeKnown
    <3>4. summary[<<scan.user, f>>].status \in {"none", "draft", "curated"}
      BY <2>2 DEF DistillTypeOK, DocNotes
    <3> QED
      BY <2>1, <2>6, <3>3, <3>4 DEF ScanInv, ScanKnows
  <2>7. ScanMade'
    BY <2>1, <2>6 DEF ScanMade
  <2> QED
    BY <2>3, <2>5, <2>7 DEF ScanInv
<1>8. ASSUME NEW u \in Users, NEW f \in Files, DistillManual(u, f), scan.pc # "idle" PROVE ScanInv'
  <2>1. /\ scan' = [scan EXCEPT !.asked = scan.asked \cup {f}] /\ scan \in DocScans
        /\ refused' \subseteq refused /\ made' \subseteq made /\ summary' = summary
        /\ \A g \in Files : g # f => jobs'[g] = jobs[g]
    BY <1>8, DocAsked DEF DistillTypeOK
  <2>2. /\ scan'.pc = scan.pc /\ scan'.user = scan.user /\ scan'.known = scan.known
        /\ scan'.asked = scan.asked \cup {f}
        /\ scan.pc = "enqueue" => scan'.found = scan.found
    BY <2>1 DEF DocScans
  <2>3. \A g \in Files \ scan'.asked : g \in Files \ scan.asked /\ jobs'[g] = jobs[g]
    BY <2>1, <2>2
  <2>4. ScanKnows'
    BY <1>8, <2>1, <2>2, <2>3 DEF ScanInv, ScanKnows
  <2>5. ScanRefused'
    BY <2>1, <2>2, <2>3 DEF ScanInv, ScanRefused
  <2>6. ScanMade'
    BY <2>1, <2>2, <2>3 DEF ScanInv, ScanMade
  <2> QED
    BY <2>4, <2>5, <2>6 DEF ScanInv
<1>9. ASSUME NEW u \in Users, NEW f \in Files, CurateSummary(u, f), scan.pc # "idle" PROVE ScanInv'
  <2>1. UNCHANGED <<jobs, scan, made, refused>> /\ scan.user \in Users
    BY <1>2, <1>9 DEF CurateSummary, DocScans
  <2>2. \A k \in Users \X Files : k # <<u, f>> => summary'[k] = summary[k]
    BY <1>9 DEF CurateSummary, DistillTypeOK
  <2>3. summary'[<<u, f>>].status = "curated"
    BY <1>9 DEF CurateSummary, DistillTypeOK, DocNotes
  <2>4. ASSUME NEW g \in Files
        PROVE  /\ summary'[<<scan.user, g>>].status = "draft" => summary'[<<scan.user, g>>] = summary[<<scan.user, g>>]
               /\ summary[<<scan.user, g>>].status = "curated" => summary'[<<scan.user, g>>].status = "curated"
    BY <2>1, <2>2, <2>3
  <2>5. ScanKnows'
    BY <2>1, <2>4 DEF ScanInv, ScanKnows
  <2>6. ScanMade'
    BY <2>1, <2>4 DEF ScanInv, ScanMade
  <2> QED
    BY <2>1, <2>5, <2>6 DEF ScanInv, ScanRefused
<1>10. ASSUME NEW u \in Users, NEW f \in Files, DeleteSummary(u, f), scan.pc # "idle" PROVE ScanInv'
  <2>1. UNCHANGED <<jobs, scan, refused>> /\ scan.user \in Users
        /\ made' = {r \in made : ~(r[1] = u /\ r[2] = f)}
    BY <1>2, <1>10 DEF DeleteSummary, DocScans
  <2>2. \A k \in Users \X Files : k # <<u, f>> => summary'[k] = summary[k]
    BY <1>10 DEF DeleteSummary, DistillTypeOK
  <2>3. summary'[<<u, f>>].status = "none"
    BY <1>10 DEF DeleteSummary, DistillTypeOK, NoSummary
  <2>4. ASSUME NEW g \in Files
        PROVE  summary'[<<scan.user, g>>].status = "draft" => summary'[<<scan.user, g>>] = summary[<<scan.user, g>>]
    BY <2>1, <2>2, <2>3
  <2>5. ScanKnows'
    BY <2>1, <2>4 DEF ScanInv, ScanKnows
  <2>6. ASSUME NEW g \in Files \ scan.asked, NEW r \in made', r[1] = scan.user, r[2] = g
        PROVE  summary'[<<scan.user, g>>] = summary[<<scan.user, g>>]
    <3>1. <<scan.user, g>> # <<u, f>> /\ <<scan.user, g>> \in Users \X Files
      BY <2>1, <2>6
    <3> QED
      BY <2>2, <3>1
  <2>7. ScanMade'
    BY <2>1, <2>6 DEF ScanInv, ScanMade
  <2> QED
    BY <2>1, <2>5, <2>7 DEF ScanInv, ScanRefused
<1>11. ASSUME UNCHANGED <<summary, jobs, scan, made, refused>> PROVE ScanInv'
  BY <1>11 DEF ScanInv, ScanKnows, ScanRefused, ScanMade
<1>12. ASSUME ScanEnqueue \/ DistillRestart \/ DistillTorn PROVE scan'.pc = "idle"
  BY <1>12, DocScanned, DocRequeued DEF NoScan
<1>13. ASSUME \/ DistillWorks
              \/ \E u \in Users, f \in Files :
                    DistillManual(u, f) \/ DistillCancel(u, f) \/ CurateSummary(u, f) \/ DeleteSummary(u, f),
              scan.pc = "idle"
       PROVE  scan'.pc = "idle"
  BY <1>13, DocStays DEF DistillManual, DistillCancel, CurateSummary, DeleteSummary
<1> HIDE DEF Reaches
<1> QED
  BY <1>1, <1>4, <1>5, <1>6, <1>7, <1>8, <1>9, <1>10, <1>11, <1>12, <1>13
  DEF DistillNext, Scanning, DistillSettings, WriteDocument, RemoveDocument, Midnight, distillVars

\* Every step keeps what is known of the notes made.
LEMMA DocMadeStep ==
    ASSUME DistillTypeOK, DocInHand, TimesBounded, ScanInv, MadeInv, [DistillNext]_distillVars
    PROVE  MadeInv'
<1>0. \A r \in made : r[1] \in Users /\ r[2] \in Files /\ r[3] \in Mtimes /\ r = <<r[1], r[2], r[3]>>
  BY DEF DistillTypeOK, Answers
\* A row that is still open has the excuse it had.
<1>t. ASSUME NEW f \in Files, DocOpen(f)', NEW r, r[2] = f, r \in torn PROVE r \in torn'
  <2>1. CASE worker.pc # "idle" /\ Finished(worker.file)
    <3>1. f # worker.file
      BY <1>t, <2>1, DocFinishing, DocBusy DEF DocOpen, NoJob, DistillTypeOK
    <3>2. r # InHand
      BY <1>t, <3>1 DEF InHand
    <3> QED
      BY <1>t, <2>1, <3>2 DEF Finished
  <2>2. CASE torn \subseteq torn'
    BY <1>t, <2>2
  <2>3. DistillApply \/ DistillFinish => torn' = torn \/ (worker.pc # "idle" /\ Finished(worker.file))
    BY DEF DistillApply, DistillFinish
  <2>4. DistillRestart \/ DistillTorn => torn \subseteq torn'
    BY DEF DistillRestart, DistillTorn
  <2>5. DistillClaim => torn' = torn
    BY Zenon DEF DistillClaim
  <2>6. DistillCreds \/ DistillFails \/ Scanning => torn' = torn
    BY DEF DistillCreds, DistillFails, Scanning, ScanStart, ScanWalk, ScanEnqueue
  <2>7. (\E u \in Users, g \in Files :
            DistillManual(u, g) \/ DistillCancel(u, g) \/ CurateSummary(u, g) \/ DeleteSummary(u, g)) => torn' = torn
    BY DEF DistillManual, DistillCancel, CurateSummary, DeleteSummary
  <2>8. (Midnight \/ (\E u \in Users : DistillSettings(u)) \/ UNCHANGED distillVars
           \/ \E g \in Files : WriteDocument(g) \/ RemoveDocument(g)) => torn' = torn
    BY DEF Midnight, DistillSettings, WriteDocument, RemoveDocument, distillVars
  <2> QED
    BY <2>1, <2>2, <2>3, <2>4, <2>5, <2>6, <2>7, <2>8 DEF DistillNext, DistillWorks
\* The worker up to the model's answer, and a cancellation: nothing is made.
<1>1. ASSUME DocRowsStay, UNCHANGED <<disk, summary, made>>,
             \A f \in Files : DocOpen(f)' => DocOpen(f) /\ (Indexing(f)' <=> Indexing(f))
      PROVE  MadeInv'
  <2>1. MadeKnown'
    BY <1>1 DEF MadeInv, MadeKnown
  <2>2. ASSUME NEW f \in Files, DocOpen(f)', NEW r \in made, r[1] = jobs'[f].user, r[2] = f,
               r[3] = disk[f] \/ r[3] = jobs'[f].mtime, ~(Indexing(f)' /\ r[3] = jobs'[f].mtime)
        PROVE  Excused(f, r)'
    <3>1. jobs'[f].user = jobs[f].user /\ jobs'[f].mtime = jobs[f].mtime
      BY <1>1, <2>2 DEF DocRowsStay, DocOpen
    <3>2. DocOpen(f) /\ (Indexing(f)' <=> Indexing(f))
      BY <1>1, <2>2
    <3>3. Excused(f, r)
      BY <2>2, <3>1, <3>2 DEF MadeInv, RowNotMade
    <3> QED
      BY <1>1, <1>t, <2>2, <3>1, <3>3 DEF Excused
  <2>3. RowNotMade'
    BY <1>1, <2>2 DEF RowNotMade
  <2> QED
    BY <2>1, <2>3 DEF MadeInv
<1>2. CASE DistillClaim
  <2>1. DocRowsStay /\ UNCHANGED <<disk, summary, made>> /\ worker.pc = "idle"
    BY <1>2, DocStays, DocClaiming DEF DistillWorks
  <2>2. PICK f \in Files : DocClaims(f)
    BY <1>2, DocClaiming
  <2>3. \A g \in Files : g # f => jobs'[g] = jobs[g]
    BY <2>2 DEF DocClaims, DistillTypeOK
  <2>4. worker' = worker \/ worker'.pc = "creds"
    BY <2>2 DEF DocClaims
  <2>5. DocOpen(f)
    BY <2>2 DEF DocClaims, DocOpen
  <2> QED
    BY <1>1, <2>1, <2>3, <2>4, <2>5 DEF DocOpen, Indexing
<1>3. CASE DistillCreds \/ DistillFails
  <2>1. DocRowsStay
    BY <1>3, DocStays DEF DistillWorks
  <2>2. worker.pc \in {"creds", "text"} /\ UNCHANGED <<disk, summary, made>>
    BY <1>3, DocTries
  <2>3. worker.file \in Files /\ jobs[worker.file].status = "running" /\ worker \in DocWork
    BY <2>2, DocBusy DEF DocInHand
  <2>4. worker'.pc # "index" /\ \A g \in Files : g # worker.file => jobs'[g] = jobs[g]
    <3>1. CASE worker' = [worker EXCEPT !.pc = "text"] /\ UNCHANGED <<jobs, refused>>
      BY <2>3, <3>1 DEF DocWork
    <3>2. ASSUME NEW j, Settle(j)
          PROVE  worker'.pc # "index" /\ \A g \in Files : g # worker.file => jobs'[g] = jobs[g]
      BY <3>2 DEF Settle, NoWork, DistillTypeOK
    <3> QED
      BY <1>3, <3>1, <3>2, DocTries
  <2> QED
    BY <1>1, <2>1, <2>2, <2>3, <2>4 DEF DocOpen, Indexing
<1>4. ASSUME NEW u \in Users, NEW f \in Files, DistillCancel(u, f) PROVE MadeInv'
  <2>1. DocRowsStay
    BY <1>4, DocStays
  <2>2. UNCHANGED <<disk, summary, made, worker>> /\ \A g \in Files : g # f => jobs'[g] = jobs[g]
    BY <1>4 DEF DistillCancel, DistillTypeOK
  <2>3. DocOpen(f)
    BY <1>4 DEF DistillCancel, DocOpen
  <2> QED
    BY <1>1, <2>1, <2>2, <2>3 DEF DocOpen, Indexing
\* The note is written.
<1>5. CASE DistillApply
  <2> DEFINE f == worker.file
             n == <<jobs[f].user, f, jobs[f].mtime>>
             k == <<jobs[f].user, f>>
  <2>1. /\ worker.pc = "text" /\ f \in Files /\ jobs[f].status = "running" /\ disk' = disk
        /\ k \in Users \X Files /\ made' = made \cup {n}
    BY <1>5, DocWritten
  <2>2. DocOpen(f) /\ ~Indexing(f)
    BY <2>1 DEF DocOpen, Indexing
  <2>3. PICK s : /\ summary' = [summary EXCEPT ![k] = s]
                 /\ summary[k].status = "curated" => s.status = "curated"
                 /\ summary[k].status # "curated" => s.status = "draft" /\ s.mtime = jobs[f].mtime
    BY <1>5, DocWritten
  <2>4. summary'[k] = s /\ \A l \in Users \X Files : l # k => summary'[l] = summary[l]
    <3> HIDE DEF k
    <3> QED
      BY <2>1, <2>3 DEF DistillTypeOK
  <2>5. ASSUME NEW r \in made', disk[r[2]] = r[3]
        PROVE  \/ summary'[<<r[1], r[2]>>].status = "curated"
               \/ summary'[<<r[1], r[2]>>].status # "none" /\ summary'[<<r[1], r[2]>>].mtime = r[3]
    <3>1. CASE r = n
      BY <2>3, <2>4, <3>1
    <3>2. CASE r \in made /\ r[1] = jobs[f].user /\ r[2] = f
      <4>1. Excused(f, r)
        BY <2>1, <2>2, <2>5, <3>2 DEF MadeInv, RowNotMade
      <4>2. <<r[1], r[2]>> = k
        BY <3>2
      <4>3. summary[k].status = "curated" \/ r[3] = jobs[f].mtime
        BY <4>1, <4>2, <3>2 DEF Excused
      <4> QED
        BY <2>3, <2>4, <4>2, <4>3
    <3>3. CASE r \in made /\ ~(r[1] = jobs[f].user /\ r[2] = f)
      <4>1. <<r[1], r[2]>> # k /\ <<r[1], r[2]>> \in Users \X Files
        BY <1>0, <3>3
      <4>2. summary'[<<r[1], r[2]>>] = summary[<<r[1], r[2]>>]
        BY <2>4, <4>1
      <4> QED
        BY <2>5, <3>3, <4>2 DEF MadeInv, MadeKnown
    <3> QED
      BY <2>1, <3>1, <3>2, <3>3
  <2>6. MadeKnown'
    BY <2>1, <2>5 DEF MadeKnown
  <2>7. \A l \in Users \X Files : summary[l].status = "curated" => summary'[l].status = "curated"
    BY <2>3, <2>4
  <2>8. \/ jobs'[f].status = "none" /\ \A g \in Files : g # f => jobs'[g] = jobs[g]
        \/ jobs' = jobs /\ worker'.pc = "index" /\ worker'.file = f
    <3>1. \/ jobs' = [jobs EXCEPT ![f] = NoJob]
          \/ jobs' = jobs /\ worker'.pc = "index" /\ worker'.file = f
      BY <1>5, DocWritten
    <3> QED
      BY <2>1, <3>1 DEF NoJob, DistillTypeOK
  <2>9. \A g \in Files : g # f => ~Indexing(g)
    BY <2>1 DEF Indexing
  <2>10. ASSUME NEW g \in Files, DocOpen(g)', NEW r \in made', r[1] = jobs'[g].user, r[2] = g,
                r[3] = disk[g] \/ r[3] = jobs'[g].mtime, ~(Indexing(g)' /\ r[3] = jobs'[g].mtime)
         PROVE  Excused(g, r)'
    <3>0. ASSUME Excused(g, r), r \in made, jobs'[g] = jobs[g] PROVE Excused(g, r)'
      <4>1. <<r[1], g>> \in Users \X Files
        BY <1>0, <3>0
      <4> QED
        BY <1>t, <2>7, <2>10, <3>0, <4>1 DEF Excused
    <3>1. jobs'[g] = jobs[g] /\ DocOpen(g)
      BY <2>8, <2>10 DEF DocOpen
    <3>2. CASE g = f
      <4>1. Indexing(g)'
        BY <2>8, <2>10, <3>2 DEF DocOpen, Indexing
      <4>2. r # n
        BY <2>10, <3>1, <3>2, <4>1
      <4>3. r \in made
        BY <2>1, <4>2
      <4>4. Excused(g, r)
        BY <2>2, <2>10, <3>1, <3>2, <4>3 DEF MadeInv, RowNotMade
      <4> QED
        BY <3>0, <3>1, <4>3, <4>4
    <3>3. CASE g # f
      <4>1. r \in made
        BY <2>1, <2>10, <3>3
      <4>2. Excused(g, r)
        BY <2>9, <2>10, <3>1, <3>3, <4>1 DEF MadeInv, RowNotMade
      <4> QED
        BY <3>0, <3>1, <4>1, <4>2
    <3> QED
      BY <3>2, <3>3
  <2>11. RowNotMade'
    BY <2>1, <2>10 DEF RowNotMade
  <2> QED
    BY <2>6, <2>11 DEF MadeInv
<1>6. CASE DistillFinish
  <2>1. /\ worker.file \in Files /\ jobs' = [jobs EXCEPT ![worker.file] = NoJob] /\ worker' = NoWork
        /\ worker.pc = "index" /\ UNCHANGED <<disk, summary, made>>
    BY <1>6, DocBusy, DocFinishing DEF DistillFinish
  <2>2. jobs'[worker.file].status = "none" /\ \A g \in Files : g # worker.file => jobs'[g] = jobs[g]
    BY <2>1 DEF NoJob, DistillTypeOK
  <2>3. DocRowsStay
    BY <1>6, DocStays DEF DistillWorks
  <2> QED
    BY <1>1, <2>1, <2>2, <2>3 DEF DocOpen, Indexing, NoWork
<1>7. CASE ScanEnqueue
  <2>1. /\ scan \in DocScans /\ scan.pc = "enqueue" /\ scan.user \in Users
        /\ UNCHANGED <<disk, summary, worker>>
        /\ made' = {r \in made : ~(r[2] \in DocMoved \cap scan.asked)}
    BY <1>7, DocScanned DEF ScanEnqueue
  <2>2. MadeKnown'
    BY <2>1 DEF MadeInv, MadeKnown
  <2>3. ASSUME NEW f \in Files, DocOpen(f)', NEW r \in made', r[1] = jobs'[f].user, r[2] = f,
               r[3] = disk[f] \/ r[3] = jobs'[f].mtime, ~(Indexing(f)' /\ r[3] = jobs'[f].mtime)
        PROVE  Excused(f, r)'
    <3>1. r \in made /\ r[3] \in Mtimes
      BY <1>0, <2>1
    <3>2. CASE f \in DocMoved
      <4>1. jobs'[f].user = scan.user /\ jobs'[f].mtime = scan.found[f]
        BY <1>7, <3>2, DocScanned
      <4>2. ~Reaches(f, scan.found[f]) /\ scan.found[f] \in Mtimes
        BY <2>1, <3>2, DocNews
      <4>3. f \notin scan.asked
        BY <2>1, <2>3, <3>2
      <4>4. scan.found[f] <= r[3]
        <5>1. CASE r[3] = disk[f]
          BY <2>1, <3>1, <5>1 DEF TimesBounded, DocTimely, Mtimes
        <5>2. CASE r[3] = jobs'[f].mtime
          BY <4>1, <4>2, <5>2 DEF Mtimes
        <5> QED
          BY <2>3, <5>1, <5>2
      <4>5. scan.found[f] # 0
        BY <4>2 DEF Mtimes
      <4> QED
        BY <2>1, <2>3, <3>1, <4>1, <4>2, <4>3, <4>4, <4>5 DEF ScanInv, ScanMade, Excused
    <3>3. CASE f \notin DocMoved
      <4>1. jobs'[f] = jobs[f]
        BY <1>7, <2>3, <3>3, DocScanned DEF DocOpen, NoJob
      <4>2. DocOpen(f) /\ (Indexing(f)' <=> Indexing(f))
        BY <2>1, <2>3, <4>1 DEF DocOpen, Indexing
      <4>3. Excused(f, r)
        BY <2>1, <2>3, <3>1, <4>1, <4>2 DEF MadeInv, RowNotMade
      <4> QED
        BY <1>t, <2>1, <2>3, <4>1, <4>3 DEF Excused
    <3> QED
      BY <3>2, <3>3
  <2>4. RowNotMade'
    BY <2>1, <2>3 DEF RowNotMade
  <2> QED
    BY <2>2, <2>4 DEF MadeInv
<1>8. ASSUME NEW u \in Users, NEW f \in Files, DistillManual(u, f) PROVE MadeInv'
  <2>1. /\ \A g \in Files : g # f => jobs'[g] = jobs[g]
        /\ made' = {r \in made : r[2] # f} /\ UNCHANGED <<disk, summary, worker>>
    BY <1>8, DocAsked DEF DistillTypeOK
  <2>2. MadeKnown'
    BY <2>1 DEF MadeInv, MadeKnown
  <2>3. ASSUME NEW g \in Files, DocOpen(g)', NEW r \in made', r[1] = jobs'[g].user, r[2] = g,
               r[3] = disk[g] \/ r[3] = jobs'[g].mtime, ~(Indexing(g)' /\ r[3] = jobs'[g].mtime)
        PROVE  Excused(g, r)'
    <3>1. g # f /\ r \in made
      BY <2>1, <2>3
    <3>2. jobs'[g] = jobs[g] /\ DocOpen(g) /\ (Indexing(g)' <=> Indexing(g))
      BY <2>1, <2>3, <3>1 DEF DocOpen, Indexing
    <3>3. Excused(g, r)
      BY <2>1, <2>3, <3>1, <3>2 DEF MadeInv, RowNotMade
    <3> QED
      BY <1>t, <2>1, <2>3, <3>2, <3>3 DEF Excused
  <2>4. RowNotMade'
    BY <2>1, <2>3 DEF RowNotMade
  <2> QED
    BY <2>2, <2>4 DEF MadeInv
<1>9. ASSUME NEW u \in Users, NEW f \in Files, CurateSummary(u, f) \/ DeleteSummary(u, f) PROVE MadeInv'
  <2>1. UNCHANGED <<disk, jobs, worker>> /\ made' \subseteq made
    BY <1>9 DEF CurateSummary, DeleteSummary
  <2>2. \A k \in Users \X Files : k # <<u, f>> => summary'[k] = summary[k]
    BY <1>9 DEF CurateSummary, DeleteSummary, DistillTypeOK
  <2>3. \/ summary'[<<u, f>>].status = "curated"
        \/ \A r \in made' : ~(r[1] = u /\ r[2] = f)
    <3>1. CASE CurateSummary(u, f)
      BY <3>1 DEF CurateSummary, DistillTypeOK, DocNotes
    <3>2. CASE DeleteSummary(u, f)
      BY <3>2 DEF DeleteSummary
    <3> QED
      BY <1>9, <3>1, <3>2
  <2>4. ASSUME NEW r \in made'
        PROVE  \/ summary'[<<r[1], r[2]>>].status = "curated"
               \/ summary'[<<r[1], r[2]>>] = summary[<<r[1], r[2]>>]
    <3>1. <<r[1], r[2]>> \in Users \X Files
      BY <1>0, <2>1
    <3>2. <<r[1], r[2]>> = <<u, f>> => r[1] = u /\ r[2] = f
      OBVIOUS
    <3> QED
      BY <2>2, <2>3, <3>1, <3>2
  <2>5. MadeKnown'
    BY <2>1, <2>4 DEF MadeInv, MadeKnown
  <2>6. ASSUME NEW g \in Files, DocOpen(g)', NEW r \in made', r[1] = jobs'[g].user, r[2] = g,
               r[3] = disk[g] \/ r[3] = jobs'[g].mtime, ~(Indexing(g)' /\ r[3] = jobs'[g].mtime)
        PROVE  Excused(g, r)'
    <3>1. DocOpen(g) /\ (Indexing(g)' <=> Indexing(g)) /\ r \in made
      BY <2>1, <2>6 DEF DocOpen, Indexing
    <3>2. Excused(g, r)
      BY <2>1, <2>6, <3>1 DEF MadeInv, RowNotMade
    <3>3. /\ summary[<<r[1], g>>].status = "curated" => summary'[<<r[1], g>>].status = "curated"
      BY <2>4, <2>6
    <3> QED
      BY <1>t, <2>1, <2>6, <3>2, <3>3 DEF Excused
  <2>7. RowNotMade'
    BY <2>1, <2>6 DEF RowNotMade
  <2> QED
    BY <2>5, <2>7 DEF MadeInv
<1>10. ASSUME NEW f \in Files, WriteDocument(f) \/ RemoveDocument(f) PROVE MadeInv'
  <2>1. /\ \A g \in Files : g # f => disk'[g] = disk[g]
        /\ \A r \in made : r[2] = f => disk'[f] # r[3]
        /\ UNCHANGED <<jobs, summary, worker, made>>
    BY <1>10, DocRenewed
  <2>2. MadeKnown'
    BY <1>0, <2>1 DEF MadeInv, MadeKnown
  <2>3. ASSUME NEW g \in Files, DocOpen(g), NEW r \in made, r[1] = jobs[g].user, r[2] = g,
               r[3] = disk'[g] \/ r[3] = jobs[g].mtime, ~(Indexing(g) /\ r[3] = jobs[g].mtime)
        PROVE  Excused(g, r)'
    <3>1. r[3] = disk[g] \/ r[3] = jobs[g].mtime
      BY <2>1, <2>3
    <3>2. Excused(g, r) /\ DocOpen(g)'
      BY <2>1, <2>3, <3>1 DEF MadeInv, RowNotMade, DocOpen
    <3> QED
      BY <1>t, <2>1, <2>3, <3>2 DEF Excused
  <2>4. RowNotMade'
    BY <2>1, <2>3 DEF RowNotMade, DocOpen, Indexing
  <2> QED
    BY <2>2, <2>4 DEF MadeInv
\* A crash: what it puts back is in the queue again with its note made.
<1>11. CASE DistillRestart \/ DistillTorn
  <2>1. disk' = disk /\ worker' = NoWork
    BY <1>11, DocRequeued
  <2> DEFINE NoteKept(k) == /\ summary[k].status = "curated" => summary'[k].status = "curated"
                            /\ summary'[k].mtime = summary[k].mtime
                            /\ summary[k].status # "none" => summary'[k].status # "none"
             NotesKept == /\ \A k \in Users \X Files : NoteKept(k)
                          /\ \A r \in made' \ made : summary'[<<r[1], r[2]>>].status = "curated"
  <2>2. NotesKept
    <3>1. CASE UNCHANGED <<summary, made>>
      BY <3>1
    <3>2. ASSUME NEW k \in Users \X Files, NEW t, summary' = [summary EXCEPT ![k] = t], t.status = "curated",
                 t.mtime = summary[k].mtime, k = <<InHand[1], InHand[2]>>, made' = made \cup {InHand}
          PROVE  NotesKept
      <4>1. summary'[k] = t /\ \A l \in Users \X Files : l # k => summary'[l] = summary[l]
        BY <3>2 DEF DistillTypeOK
      <4> QED
        BY <3>2, <4>1
    <3>3. InHand[1] = jobs[worker.file].user /\ InHand[2] = worker.file
      BY DEF InHand
    <3> HIDE DEF NotesKept
    <3> QED
      BY <1>11, <3>1, <3>2, <3>3, DocTornNotes
  <2>3. ASSUME NEW r \in made', r \in made \/ r \notin made
        PROVE  r[1] \in Users /\ r[2] \in Files
    BY <1>0, <1>11, DocTornNotes DEF Answers
  <2> HIDE DEF NotesKept, NoteKept
  <2>4. ASSUME NEW r \in made', disk[r[2]] = r[3]
        PROVE  \/ summary'[<<r[1], r[2]>>].status = "curated"
               \/ summary'[<<r[1], r[2]>>].status # "none" /\ summary'[<<r[1], r[2]>>].mtime = r[3]
    <3>1. r \notin made => summary'[<<r[1], r[2]>>].status = "curated"
      BY <2>2, <2>4 DEF NotesKept
    <3>2. NoteKept(<<r[1], r[2]>>)
      BY <2>2, <2>3 DEF NotesKept
    <3> QED
      BY <2>4, <3>1, <3>2 DEF MadeInv, MadeKnown, NoteKept
  <2>7. MadeKnown'
    BY <2>1, <2>4 DEF MadeKnown
  <2>5. ASSUME NEW g \in Files, DocOpen(g)', NEW r \in made', r[1] = jobs'[g].user, r[2] = g,
               r[3] = disk[g] \/ r[3] = jobs'[g].mtime
        PROVE  Excused(g, r)'
    <3>1. DocOpen(g) /\ jobs'[g].user = jobs[g].user /\ jobs'[g].mtime = jobs[g].mtime
      BY <1>11, <2>5, DocRequeued DEF DocOpen
    <3>2. CASE r \notin made
      BY <2>2, <2>5, <3>2 DEF Excused, NotesKept
    <3>3. CASE r \in made /\ ~(Indexing(g) /\ r[3] = jobs[g].mtime)
      <4>1. Excused(g, r)
        BY <2>5, <3>1, <3>3 DEF MadeInv, RowNotMade
      <4>2. NoteKept(<<r[1], g>>)
        BY <2>2, <2>3, <2>5 DEF NotesKept
      <4>3. r \in torn => r \in torn'
        BY <1>t, <2>5
      <4> QED
        BY <3>1, <4>1, <4>2, <4>3 DEF Excused, NoteKept
    <3>4. CASE r \in made /\ Indexing(g) /\ r[3] = jobs[g].mtime
      <4>1. r = InHand
        BY <1>0, <2>5, <3>1, <3>4 DEF Indexing, InHand
      <4>2. InHand \in torn'
        BY <1>11, <3>4 DEF Indexing, DistillRestart, DistillTorn
      <4> QED
        BY <3>1, <3>4, <4>1, <4>2 DEF Excused
    <3> QED
      BY <3>2, <3>3, <3>4
  <2>6. RowNotMade'
    BY <2>1, <2>5 DEF RowNotMade
  <2> QED
    BY <2>6, <2>7 DEF MadeInv
<1>12. ASSUME UNCHANGED <<disk, jobs, summary, worker, made>> PROVE MadeInv'
  <2>1. ASSUME NEW f \in Files, DocOpen(f)', NEW r, r[2] = f, Excused(f, r) PROVE Excused(f, r)'
    BY <1>12, <1>t, <2>1 DEF Excused
  <2> QED
    BY <1>12, <2>1 DEF MadeInv, MadeKnown, RowNotMade, DocOpen, Indexing
<1> QED
  BY <1>2, <1>3, <1>4, <1>5, <1>6, <1>7, <1>8, <1>9, <1>10, <1>11, <1>12
  DEF DistillNext, DistillWorks, Scanning, ScanStart, ScanWalk, DistillSettings, Midnight, distillVars

\* THEOREM: the language model is asked for no more than was agreed - nothing given up or
\* cancelled, nothing made again, no more automatic documents a day than the cap - over
\* retries, cancellations, several users of one document and midnights; a crash between
\* the commit of a note and that of its row costs that one document again.
THEOREM EffortBoundedHolds == DistillSpec => []EffortBounded
<1>1. DistillInit => DocInv
  <2> SUFFICES ASSUME DistillInit PROVE DocInv
    OBVIOUS
  <2>1. DistillTypeOK /\ DocInHand
    BY DocInitType
  <2>2. TimesBounded
    BY DEF DistillInit, TimesBounded, DocTimely, NoJob, NoScan, NoSummary
  <2>3. QuotaInv
    <3>1. \A u \in Users : QuotaUsed(u, today) = 0 /\ One(Owing(u)) = 0
      BY DEF DistillInit, QuotaUsed, One, Owing, NoWork
    <3> QED
      BY <3>1, DistillConstants DEF DistillInit, QuotaInv, DayHeld, DayInHand, NoWork
  <2>4. RefusedInv /\ ScanInv /\ MadeInv
    BY DEF DistillInit, RefusedInv, RefusedKnown, OpenNotRefused, ScanInv, ScanKnows, ScanRefused,
           ScanMade, MadeInv, MadeKnown, RowNotMade, DocOpen, NoJob, NoScan
  <2> QED
    BY <2>1, <2>2, <2>3, <2>4 DEF DocInv
<1>2. DocInv /\ [DistillNext]_distillVars => DocInv'
  BY DocTypeStep, DocTimesStep, DocQuotaStep, DocRefusedStep, DocScanStep, DocMadeStep DEF DocInv
<1>3. DocInv => EffortBounded
  <2> SUFFICES ASSUME DocInv PROVE EffortBounded
    OBVIOUS
  <2>1. GivenUpStaysDown
    BY DocBusy DEF DocInv, DocInHand, RefusedInv, OpenNotRefused, DocOpen, GivenUpStaysDown, InHand
  <2>2. RedoneOnlyIfCurated
    <3> SUFFICES ASSUME worker.pc \in {"creds", "text"}, InHand \in made
                 PROVE  Curated \/ InHand \in torn
      BY DEF RedoneOnlyIfCurated
    <3>1. worker.file \in Files /\ DocOpen(worker.file) /\ ~Indexing(worker.file)
      BY DocBusy DEF DocInv, DocInHand, DocOpen, Indexing
    <3>2. Excused(worker.file, InHand)
      BY <3>1 DEF DocInv, MadeInv, RowNotMade, InHand
    <3> QED
      BY <3>2 DEF Excused, Curated, InHand
  <2>3. QuotaHeld
    <3> SUFFICES ASSUME NEW u \in Users PROVE autos[u] <= DailyCap + stops
      BY DEF QuotaHeld
    <3>1. ASSUME Owing(u) PROVE QuotaUsed(u, today) < DailyCap
      BY <3>1 DEF DocInv, QuotaInv, DayInHand, Owing, Spends
    <3>2. Owing(u) => One(Owing(u)) = 1
      BY DEF One
    <3>3. ~Owing(u) => One(Owing(u)) = 0
      BY DEF One
    <3>4. /\ autos[u] \in Nat /\ QuotaUsed(u, today) \in Nat /\ stops \in Nat /\ DailyCap \in Nat
          /\ autos[u] <= QuotaUsed(u, today) + stops + One(Owing(u)) /\ QuotaUsed(u, today) <= DailyCap
      BY DocNumbers DEF DocInv
    <3> QED
      BY <3>1, <3>2, <3>3, <3>4
  <2> QED
    BY <2>1, <2>2, <2>3 DEF EffortBounded
<1> QED
  BY <1>1, <1>2, <1>3, PTL DEF DistillSpec

=============================================================================
