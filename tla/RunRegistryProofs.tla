------------------------- MODULE RunRegistryProofs --------------------------
(***************************************************************************)
(* Proofs about RunRegistry, for any sessions, requests, readers, rows and *)
(* crashes.                                                                *)
(*                                                                         *)
(* DoneMeansFree and AskedWhileRunning are not inductive: Inv adds that    *)
(* rows are allocated in order, that a session's lock belongs to one task, *)
(* in the part of run_agent that holds it (LockHeld), that a living task   *)
(* has not said `done` (AliveNotDone) and that no task is alive while the  *)
(* process is down (DownFree). Calm steps change no task, row, lock or     *)
(* log, and CalmKeeps disposes of them; every other step starts a run,     *)
(* takes the lock, moves a run on or ends it, and is reduced to the lemma  *)
(* of its kind (StartKeeps, AcquireKeeps, PhaseKeeps, EndKeeps).           *)
(*                                                                         *)
(* HolderReachable follows from RunReachable, which says of every living   *)
(* run what it says of the one with the lock. Every step is a start, the   *)
(* crash, or steady (OtherStepsSteady): no run is revived, and an entry of *)
(* _active_runs is emptied only by the reader that gives its run up.       *)
(***************************************************************************)
EXTENDS RunRegistry, TLAPS

\* The lifecycle events of a log, and a log a reader finds the end of.
Said == {"error", "done"}
HasDone(l) == \E i \in DOMAIN l : l[i] = "done"

\* A log that gets a `done` appended has one.
LEMMA DoneAppended ==
    ASSUME NEW l \in Seq(Said), NEW t \in Seq(Said), HasDone(t)
    PROVE  l \o t \in Seq(Said) /\ HasDone(l \o t)
<1>1. PICK i \in DOMAIN t : t[i] = "done"
  BY DEF HasDone
<1>2. l \o t \in Seq(Said)
  OBVIOUS
<1>3. Len(l) + i \in DOMAIN (l \o t) /\ (l \o t)[Len(l) + i] = t[i]
  OBVIOUS
<1> QED
  BY <1>1, <1>2, <1>3 DEF HasDone

\* A log that gets only an `error` appended still has no end.
LEMMA ErrorAppended ==
    ASSUME NEW l \in Seq(Said), ~HasDone(l)
    PROVE  l \o <<"error">> \in Seq(Said) /\ ~HasDone(l \o <<"error">>)
<1>1. l \o <<"error">> \in Seq(Said)
  BY DEF Said
<1>2. ASSUME NEW i \in DOMAIN (l \o <<"error">>) PROVE (l \o <<"error">>)[i] # "done"
  <2>1. CASE i <= Len(l)
    BY <2>1 DEF HasDone
  <2>2. CASE i = Len(l) + 1
    BY <2>2
  <2>3. i \in 1..(Len(l) + 1)
    BY DEF Said
  <2> QED
    BY <2>1, <2>2, <2>3
<1> QED
  BY <1>1, <1>2 DEF HasDone

\* The empty registry of a first start satisfies the invariant.
LEMMA InitInv == Init => Inv
<1> SUFFICES ASSUME Init PROVE Inv
  OBVIOUS
<1>1. TypeOK
  BY ConstantsAssumption DEF ConstantsAssumption, Init, TypeOK, Run, Post, Stop, NoRun, NoPost, NoStop, RunIds, None
<1>2. RowsAllocated /\ LockHeld /\ AliveNotDone /\ DownFree
  BY DEF Init, RowsAllocated, LockHeld, AliveNotDone, DownFree, Alive, NoRun, Holding
<1>3. DoneMeansFree /\ AskedWhileRunning /\ SettledReplayEnds
  BY DEF Init, DoneMeansFree, AskedWhileRunning, SettledReplayEnds, NoRun
<1> QED
  BY <1>1, <1>2, <1>3 DEF Inv

\* A row not inserted yet has no task, no session and an empty log.
LEMMA NoRunNone == NoRun.task = "none" /\ NoRun.row = "none" /\ NoRun \in Run
BY DEF NoRun, Run

\* A calm step changes no run's session, phase, row and log, nor who holds what.
Calm == /\ UNCHANGED <<up, rowid, lock, routed>>
        /\ \A r \in RunIds : /\ run'[r].session = run[r].session /\ run'[r].task = run[r].task
                             /\ run'[r].row = run[r].row /\ run'[r].log = run[r].log
                             /\ run[r] = NoRun => run'[r] = NoRun

\* A calm step keeps the invariant, whatever it does to requests and readers.
LEMMA CalmKeeps == ASSUME Inv, TypeOK', Calm PROVE Inv'
<1>1. RowsAllocated'
  BY DEF Inv, Calm, RowsAllocated, RunIds
<1>2. \A r \in RunIds : (IsDone(r) <=> IsDone(r)') /\ (Alive(r) <=> Alive(r)')
  BY DEF Calm, IsDone, Emitted, Alive
<1>3. \A s \in Sessions : lock[s] # None => lock[s] \in RunIds
  BY ConstantsAssumption DEF Inv, TypeOK, RunIds, None, ConstantsAssumption
<1>4. LockHeld'
  BY <1>3 DEF Inv, LockHeld, Calm
<1>5. AliveNotDone' /\ DownFree'
  BY <1>2 DEF Inv, AliveNotDone, DownFree, Calm
<1>6. DoneMeansFree'
  BY <1>2, <1>3 DEF Inv, DoneMeansFree, Calm
<1>7. AskedWhileRunning' /\ SettledReplayEnds'
  BY <1>2 DEF Inv, AskedWhileRunning, SettledReplayEnds, Calm
<1> QED
  BY <1>1, <1>4, <1>5, <1>6, <1>7 DEF Inv

\* A run past its first step goes on to a later phase: it keeps the lock, says
\* no `done`, and may lose its egress routing once it is closing.
LEMMA PhaseKeeps ==
    ASSUME Inv, TypeOK', UNCHANGED <<up, rowid, lock>>, up,
           NEW r \in RunIds, NEW x \in Run, run' = [run EXCEPT ![r] = x],
           run[r].task \in Holding, x.task \in Holding, x.session = run[r].session,
           x.row = run[r].row, ~HasDone(x.log),
           \/ routed' = routed /\ run[r].task \in {"setup", "agent"}
           \/ x.task = "closing" /\ routed' = [routed EXCEPT ![run[r].session] = None]
    PROVE  Inv'
<1> USE DEF Holding
<1>1. /\ TypeOK /\ RowsAllocated /\ LockHeld /\ AliveNotDone /\ DownFree
      /\ DoneMeansFree /\ AskedWhileRunning /\ SettledReplayEnds
  BY DEF Inv
<1>2. run \in [RunIds -> Run] /\ run'[r] = x /\ \A q \in RunIds \ {r} : run'[q] = run[q]
  BY <1>1 DEF TypeOK
<1>3. run[r].session \in Sessions /\ lock[run[r].session] = r
  BY <1>1 DEF LockHeld
<1>4. \A s \in Sessions : lock[s] # None => lock[s] \in RunIds
  BY <1>1, ConstantsAssumption DEF TypeOK, RunIds, None, ConstantsAssumption
<1>5. RowsAllocated'
  BY <1>1, <1>2, NoRunNone DEF RowsAllocated
<1>6. LockHeld'
  BY <1>1, <1>2, <1>3, <1>4 DEF LockHeld
<1>7. ~IsDone(r)' /\ \A q \in RunIds \ {r} : (IsDone(q) <=> IsDone(q)') /\ (Alive(q) <=> Alive(q)')
  BY <1>2 DEF IsDone, Emitted, Alive, HasDone
<1>8. AliveNotDone' /\ DownFree'
  <2>1. Alive(r) /\ run[r].row = "running"
    BY <1>1 DEF Alive, AliveNotDone
  <2> QED
    BY <1>1, <1>2, <1>7, <2>1 DEF AliveNotDone, DownFree
<1>9. DoneMeansFree'
  BY <1>1, <1>4, <1>7 DEF DoneMeansFree
<1>10. SettledReplayEnds'
  BY <1>1, <1>2, <1>7 DEF SettledReplayEnds, AliveNotDone, Alive
<1>11. AskedWhileRunning'
  <2>1. ASSUME NEW q \in RunIds, run'[q].task \in {"setup", "agent"}
        PROVE  routed'[run'[q].session] = q
    <3>1. CASE q = r
      BY <1>1, <1>2, <2>1, <3>1 DEF AskedWhileRunning
    <3>2. CASE q # r
      <4>1. run[q].session \in Sessions /\ run[q].session # run[r].session
        BY <1>1, <1>2, <1>3, <2>1, <3>2 DEF LockHeld
      <4> QED
        BY <1>1, <1>2, <1>3, <2>1, <3>2, <4>1 DEF AskedWhileRunning, TypeOK
    <3> QED
      BY <3>1, <3>2
  <2> QED
    BY <2>1 DEF AskedWhileRunning
<1> QED
  BY <1>5, <1>6, <1>8, <1>9, <1>10, <1>11 DEF Inv

\* A run ends: it lets go of the lock if it has it, and a settled row has a
\* `done` in its log.
LEMMA EndKeeps ==
    ASSUME Inv, TypeOK', UNCHANGED <<up, rowid, routed>>, up,
           NEW r \in RunIds, NEW x \in Run, run' = [run EXCEPT ![r] = x],
           Alive(r), x.task = "ended", x.session = run[r].session,
           x.row \in {"done", "error"} => HasDone(x.log),
           \/ run[r].task = "new" /\ lock' = lock
           \/ run[r].task \in Holding /\ lock' = [lock EXCEPT ![run[r].session] = None]
    PROVE  Inv'
<1> USE DEF Holding
<1>1. /\ TypeOK /\ RowsAllocated /\ LockHeld /\ AliveNotDone /\ DownFree
      /\ DoneMeansFree /\ AskedWhileRunning /\ SettledReplayEnds
  BY DEF Inv
<1>2. run \in [RunIds -> Run] /\ run'[r] = x /\ \A q \in RunIds \ {r} : run'[q] = run[q]
  BY <1>1 DEF TypeOK
<1>3. run[r].session \in Sessions
  BY <1>1 DEF LockHeld, Alive
<1>4. \A s \in Sessions : lock[s] # None => lock[s] \in RunIds
  BY <1>1, ConstantsAssumption DEF TypeOK, RunIds, None, ConstantsAssumption
<1>5. RowsAllocated'
  BY <1>1, <1>2, NoRunNone DEF RowsAllocated, Alive
<1>6. \A s \in Sessions : lock'[s] # None => lock'[s] = lock[s] /\ lock[s] # r
  BY <1>1, <1>3, <1>4 DEF LockHeld, TypeOK
<1>7. \A q \in RunIds \ {r} : run[q].task \in Holding => lock'[run[q].session] = q
  BY <1>1, <1>3 DEF LockHeld, TypeOK
<1>8. LockHeld'
  BY <1>1, <1>2, <1>3, <1>4, <1>6, <1>7 DEF LockHeld
<1>9. ~Alive(r)' /\ \A q \in RunIds \ {r} : (IsDone(q) <=> IsDone(q)') /\ (Alive(q) <=> Alive(q)')
  BY <1>2 DEF IsDone, Emitted, Alive
<1>10. AliveNotDone' /\ DownFree'
  BY <1>1, <1>2, <1>9 DEF AliveNotDone, DownFree
<1>11. DoneMeansFree'
  BY <1>1, <1>4, <1>6, <1>9 DEF DoneMeansFree
<1>12. SettledReplayEnds'
  BY <1>1, <1>2, <1>9 DEF SettledReplayEnds, IsDone, Emitted, HasDone
<1>13. AskedWhileRunning'
  BY <1>1, <1>2 DEF AskedWhileRunning
<1> QED
  BY <1>5, <1>8, <1>10, <1>11, <1>12, <1>13 DEF Inv

\* _start_run: the new row's task has not run yet and holds nothing.
LEMMA StartKeeps ==
    ASSUME Inv, TypeOK', NEW s \in Sessions, NEW w, StartRun(s, w), UNCHANGED <<up, lock, routed>>, up
    PROVE  Inv'
<1> USE DEF Holding
<1>1. /\ TypeOK /\ RowsAllocated /\ LockHeld /\ AliveNotDone /\ DownFree
      /\ DoneMeansFree /\ AskedWhileRunning /\ SettledReplayEnds
  BY DEF Inv
<1>2. PICK n \in RunIds : rowid \in Nat /\ n = rowid + 1 /\ rowid' = n
  BY <1>1, ConstantsAssumption DEF TypeOK, RunIds, ConstantsAssumption, StartRun
<1>3. /\ run'[n].session = s /\ run'[n].task = "new" /\ run'[n].row = "running" /\ run'[n].log = <<>>
      /\ \A q \in RunIds \ {n} : run'[q] = run[q]
  BY <1>1, <1>2 DEF TypeOK, StartRun
<1>4. run[n].task = "none" /\ run[n].row = "none"
  BY <1>1, <1>2, NoRunNone DEF RowsAllocated
<1>5. \A t \in Sessions : lock[t] # None => lock[t] \in RunIds /\ lock[t] # n
  <2>1. \A t \in Sessions : lock[t] # None => lock[t] \in RunIds
    BY <1>1, ConstantsAssumption DEF TypeOK, RunIds, None, ConstantsAssumption
  <2>2. \A t \in Sessions : lock[t] # None => lock[t] # n
    BY <1>1, <1>4 DEF LockHeld
  <2> QED
    BY <2>1, <2>2
<1>6. RowsAllocated'
  BY <1>1, <1>2, <1>3 DEF RowsAllocated, RunIds
<1>7. LockHeld'
  BY <1>1, <1>3, <1>5 DEF LockHeld
<1>8. ~IsDone(n)' /\ \A q \in RunIds \ {n} : (IsDone(q) <=> IsDone(q)') /\ (Alive(q) <=> Alive(q)')
  <2>1. DOMAIN (run'[n].log) = {}
    BY <1>3
  <2>2. ~IsDone(n)'
    BY <2>1 DEF IsDone, Emitted
  <2>3. \A q \in RunIds \ {n} : (IsDone(q) <=> IsDone(q)') /\ (Alive(q) <=> Alive(q)')
    BY <1>3 DEF IsDone, Emitted, Alive
  <2> QED
    BY <2>2, <2>3
<1>9. AliveNotDone' /\ DownFree'
  BY <1>1, <1>3, <1>8 DEF AliveNotDone, DownFree
<1>10. DoneMeansFree'
  BY <1>1, <1>5, <1>8 DEF DoneMeansFree
<1>11. AskedWhileRunning' /\ SettledReplayEnds'
  BY <1>1, <1>3, <1>8 DEF AskedWhileRunning, SettledReplayEnds
<1> QED
  BY <1>6, <1>7, <1>9, <1>10, <1>11 DEF Inv

\* The first step of a task that finds the lock free takes it and its routing.
LEMMA AcquireKeeps ==
    ASSUME Inv, TypeOK', UNCHANGED <<up, rowid>>, up,
           NEW r \in RunIds, run[r].task = "new", lock[run[r].session] = None,
           run' = [run EXCEPT ![r].task = "setup"],
           lock' = [lock EXCEPT ![run[r].session] = r],
           routed' = [routed EXCEPT ![run[r].session] = r]
    PROVE  Inv'
<1> USE DEF Holding
<1>1. /\ TypeOK /\ RowsAllocated /\ LockHeld /\ AliveNotDone /\ DownFree
      /\ DoneMeansFree /\ AskedWhileRunning /\ SettledReplayEnds
  BY DEF Inv
<1>2. /\ run'[r].session = run[r].session /\ run'[r].task = "setup" /\ run'[r].row = run[r].row
      /\ run'[r].log = run[r].log
      /\ \A q \in RunIds \ {r} : run'[q] = run[q]
  BY <1>1 DEF TypeOK, Run
<1>3. run[r].session \in Sessions
  BY <1>1 DEF LockHeld
<1>4. \A t \in Sessions : lock[t] # None => lock[t] \in RunIds \ {r}
  BY <1>1, ConstantsAssumption DEF TypeOK, RunIds, None, ConstantsAssumption, LockHeld
<1>5. RowsAllocated'
  BY <1>1, <1>2, NoRunNone DEF RowsAllocated
<1>6. \A q \in RunIds \ {r} : run[q].task \in Holding => run[q].session # run[r].session
  BY <1>1, ConstantsAssumption DEF LockHeld, RunIds, None, ConstantsAssumption
<1>7. /\ lock'[run[r].session] = r /\ routed'[run[r].session] = r
      /\ \A t \in Sessions \ {run[r].session} : lock'[t] = lock[t] /\ routed'[t] = routed[t]
  BY <1>1, <1>3 DEF TypeOK
<1>8. LockHeld'
  BY <1>1, <1>2, <1>3, <1>4, <1>6, <1>7 DEF LockHeld
<1>9. \A q \in RunIds : (IsDone(q) <=> IsDone(q)') /\ (Alive(q) <=> Alive(q)')
  BY <1>2 DEF IsDone, Emitted, Alive
<1>10. AliveNotDone' /\ DownFree'
  BY <1>1, <1>2, <1>9 DEF AliveNotDone, DownFree
<1>11. DoneMeansFree'
  BY <1>1, <1>3, <1>4, <1>7, <1>9 DEF DoneMeansFree, AliveNotDone, Alive
<1>12. AskedWhileRunning'
  BY <1>1, <1>2, <1>3, <1>6, <1>7 DEF AskedWhileRunning, LockHeld
<1>13. SettledReplayEnds'
  BY <1>1, <1>2, <1>9 DEF SettledReplayEnds
<1> QED
  BY <1>5, <1>8, <1>10, <1>11, <1>12, <1>13 DEF Inv

\* What the steps below need of the invariant about one run.
LEMMA RunTyped ==
    ASSUME TypeOK, NEW r \in RunIds
    PROVE  /\ run[r] \in Run /\ run[r].session \in Sessions \cup {"none"}
           /\ run[r].row \in {"none", "running", "done", "error"}
           /\ run[r].log \in Seq(Said) /\ run[r].cancel \in BOOLEAN /\ run[r].cut \in BOOLEAN
           /\ run[r].watch \in {"no", "chat", "task", "leaving", "over"}
BY DEF TypeOK, Run, Said

\* The events a settled run adds, and the run they make.
LEMMA SettledRun ==
    ASSUME TypeOK, NEW r \in RunIds, NEW t \in Seq(Said), HasDone(t), NEW w \in {"done", "error"}
    PROVE  LET x == Settled(run[r], t, w)
           IN /\ x \in Run /\ x.task = "ended" /\ x.session = run[r].session
              /\ HasDone(x.log)
<1>1. run[r].log \o t \in Seq(Said) /\ HasDone(run[r].log \o t)
  BY RunTyped, DoneAppended
<1> QED
  BY <1>1, RunTyped DEF Settled, Run, Said

\* What run_agent's endings append to the log holds a `done`.
LEMMA Terminals ==
    \A t \in {<<"done">>, <<"error", "done">>, <<"done", "error", "done">>} :
        t \in Seq(Said) /\ HasDone(t)
<1>1. <<"done">> \in Seq(Said) /\ HasDone(<<"done">>)
  <2>1. 1 \in DOMAIN <<"done">> /\ <<"done">>[1] = "done"
    OBVIOUS
  <2> QED
    BY <2>1 DEF Said, HasDone
<1>2. <<"error", "done">> \in Seq(Said) /\ HasDone(<<"error", "done">>)
  <2>1. 2 \in DOMAIN <<"error", "done">> /\ <<"error", "done">>[2] = "done"
    OBVIOUS
  <2> QED
    BY <2>1 DEF Said, HasDone
<1>3. <<"done", "error", "done">> \in Seq(Said) /\ HasDone(<<"done", "error", "done">>)
  <2>1. 1 \in DOMAIN <<"done", "error", "done">> /\ <<"done", "error", "done">>[1] = "done"
    OBVIOUS
  <2> QED
    BY <2>1 DEF Said, HasDone
<1> QED
  BY <1>1, <1>2, <1>3

\* A session's entry in a table of runs may be set to a run or to None.
LEMMA EntryTyped ==
    ASSUME NEW f \in [Sessions -> 0..MaxRuns], NEW s, NEW n \in RunIds \cup {None}
    PROVE  [f EXCEPT ![s] = n] \in [Sessions -> 0..MaxRuns]
<1>1. n \in 0..MaxRuns
  BY ConstantsAssumption DEF ConstantsAssumption, RunIds, None
<1> QED
  BY <1>1

\* A step that replaces one run and keeps the other tables typed is typed.
LEMMA OneRunTyped ==
    ASSUME TypeOK, NEW r \in RunIds, NEW x \in Run, run' = [run EXCEPT ![r] = x],
           UNCHANGED <<up, rowid, active, post, stop, crashes>>,
           lock' \in [Sessions -> 0..MaxRuns], routed' \in [Sessions -> 0..MaxRuns]
    PROVE  TypeOK'
BY DEF TypeOK

\* A run that settles, with the lock released if it was held.
LEMMA SettleKeeps ==
    ASSUME Inv, up, NEW r \in RunIds, NEW w \in {"done", "error"},
           NEW t \in {<<"done">>, <<"error", "done">>, <<"done", "error", "done">>},
           run' = [run EXCEPT ![r] = Settled(run[r], t, w)],
           UNCHANGED <<up, rowid, active, routed, post, stop, crashes>>,
           \/ run[r].task = "new" /\ lock' = lock
           \/ run[r].task \in Holding /\ Unlock(r)
    PROVE  Inv'
<1>1. TypeOK /\ t \in Seq(Said) /\ HasDone(t)
  BY Terminals DEF Inv
<1>2. PICK x : x = Settled(run[r], t, w)
  OBVIOUS
<1>3. x \in Run /\ x.task = "ended" /\ x.session = run[r].session /\ HasDone(x.log)
  BY <1>1, <1>2, SettledRun
<1>4. run' = [run EXCEPT ![r] = x]
  BY <1>2
<1>5. lock' \in [Sessions -> 0..MaxRuns]
  <2>1. CASE lock' = lock
    BY <1>1, <2>1 DEF TypeOK
  <2>2. CASE Unlock(r)
    BY <1>1, <2>2, EntryTyped DEF TypeOK, Unlock
  <2> QED
    BY <2>1, <2>2
<1>6. TypeOK'
  BY <1>1, <1>3, <1>4, <1>5, OneRunTyped DEF TypeOK
<1>7. Alive(r)
  BY DEF Alive, Holding
<1> QED
  BY <1>3, <1>4, <1>6, <1>7, EndKeeps DEF Unlock

\* The first step of a run's task: it takes the lock, finds it taken, or is cancelled.
LEMMA BeginKeeps == ASSUME Inv, NEW r \in RunIds, Begin(r) PROVE Inv'
<1>1. TypeOK /\ up /\ run[r].task = "new"
  BY DEF Begin, Inv
<1>2. CASE run' = [run EXCEPT ![r].task = "ended", ![r].cancel = FALSE] /\ UNCHANGED <<lock, routed>>
  <2>1. PICK x : x = [run[r] EXCEPT !.task = "ended", !.cancel = FALSE]
    OBVIOUS
  <2>2. /\ x \in Run /\ x.task = "ended" /\ x.session = run[r].session /\ x.row = run[r].row
    BY <1>1, <2>1, RunTyped DEF Run
  <2>3. run' = [run EXCEPT ![r] = x]
    BY <1>2, <2>1
  <2>4. run[r].row = "running"
    BY <1>1 DEF Inv, AliveNotDone, Alive
  <2>5. TypeOK'
    BY <1>1, <1>2, <2>2, <2>3, OneRunTyped DEF TypeOK, Begin
  <2> QED
    BY <1>1, <1>2, <2>2, <2>3, <2>4, <2>5, EndKeeps DEF Begin, Alive
<1>3. CASE run' = [run EXCEPT ![r] = Settled(@, <<"error", "done">>, "error")] /\ UNCHANGED <<lock, routed>>
  BY <1>1, <1>3, SettleKeeps DEF Begin
<1>4. CASE /\ lock[run[r].session] = None
           /\ run' = [run EXCEPT ![r].task = "setup"]
           /\ lock' = [lock EXCEPT ![run[r].session] = r]
           /\ routed' = [routed EXCEPT ![run[r].session] = r]
  <2>1. PICK x : x = [run[r] EXCEPT !.task = "setup"]
    OBVIOUS
  <2>2. x \in Run /\ run' = [run EXCEPT ![r] = x]
    BY <1>1, <1>4, <2>1, RunTyped DEF Run
  <2>3. lock' \in [Sessions -> 0..MaxRuns] /\ routed' \in [Sessions -> 0..MaxRuns]
    BY <1>1, <1>4, EntryTyped DEF TypeOK
  <2>4. TypeOK'
    BY <1>1, <2>2, <2>3, OneRunTyped DEF Begin
  <2> QED
    BY <1>1, <1>4, <2>4, AcquireKeeps DEF Begin
<1> QED
  BY <1>2, <1>3, <1>4 DEF Begin

\* The steps from one phase of AgentRunner.run to the next.
LEMMA BodyKeeps ==
    ASSUME Inv, NEW r \in RunIds, SetupDone(r) \/ AgentEnds(r) \/ AgentCancelled(r)
    PROVE  Inv'
<1>1. TypeOK /\ up
  BY DEF SetupDone, AgentEnds, AgentCancelled, Inv
<1>2. run[r].task \in {"setup", "agent"}
  BY DEF SetupDone, AgentEnds, AgentCancelled
<1>3. ~HasDone(run[r].log)
  BY <1>2 DEF Inv, AliveNotDone, Alive, IsDone, Emitted, HasDone
<1>4. \E x \in Run : /\ run' = [run EXCEPT ![r] = x] /\ x.session = run[r].session
                     /\ x.row = run[r].row /\ ~HasDone(x.log)
                     /\ x.task = IF SetupDone(r) THEN "agent" ELSE "closing"
  <2>1. CASE SetupDone(r)
    <3>1. PICK x : x = [run[r] EXCEPT !.task = "agent"]
      OBVIOUS
    <3>2. /\ x \in Run /\ x.session = run[r].session /\ x.row = run[r].row /\ x.log = run[r].log
          /\ x.task = "agent"
      BY <1>1, <3>1, RunTyped DEF Run
    <3>3. run' = [run EXCEPT ![r] = x]
      BY <2>1, <3>1 DEF SetupDone
    <3> QED
      BY <1>3, <2>1, <3>2, <3>3
  <2>2. CASE AgentEnds(r)
    <3>1. PICK e \in {<<>>, <<"error">>} :
            run' = [run EXCEPT ![r].task = "closing", ![r].log = @ \o e]
      BY <2>2 DEF AgentEnds
    <3>2. PICK l : l = run[r].log \o e
      OBVIOUS
    <3>3. l \in Seq(Said) /\ ~HasDone(l)
      <4>1. run[r].log \in Seq(Said)
        BY <1>1, RunTyped
      <4>2. CASE e = <<>>
        <5>1. l = run[r].log
          BY <3>2, <4>1, <4>2
        <5> QED
          BY <1>3, <4>1, <5>1
      <4>3. CASE e = <<"error">>
        BY <1>3, <3>2, <4>1, <4>3, ErrorAppended
      <4> QED
        BY <3>1, <4>2, <4>3
    <3>4. PICK x : x = [run[r] EXCEPT !.task = "closing", !.log = l]
      OBVIOUS
    <3>5. /\ x \in Run /\ x.session = run[r].session /\ x.row = run[r].row /\ x.log = l
          /\ x.task = "closing"
      BY <1>1, <3>3, <3>4, RunTyped DEF Run, Said
    <3>6. run' = [run EXCEPT ![r] = x]
      BY <3>1, <3>2, <3>4
    <3>7. ~SetupDone(r)
      BY <2>2 DEF SetupDone, AgentEnds
    <3> QED
      BY <3>3, <3>5, <3>6, <3>7
  <2>3. CASE AgentCancelled(r)
    <3>1. PICK x : x = [run[r] EXCEPT !.task = "closing", !.cut = TRUE, !.cancel = FALSE]
      OBVIOUS
    <3>2. /\ x \in Run /\ x.session = run[r].session /\ x.row = run[r].row /\ x.log = run[r].log
          /\ x.task = "closing"
      BY <1>1, <3>1, RunTyped DEF Run
    <3>3. run' = [run EXCEPT ![r] = x]
      BY <2>3, <3>1 DEF AgentCancelled
    <3>4. ~SetupDone(r)
      BY <2>3 DEF SetupDone, AgentCancelled
    <3> QED
      BY <1>3, <3>2, <3>3, <3>4
  <2> QED
    BY <2>1, <2>2, <2>3
<1>5. PICK x \in Run : /\ run' = [run EXCEPT ![r] = x] /\ x.session = run[r].session
                       /\ x.row = run[r].row /\ ~HasDone(x.log)
                       /\ x.task = IF SetupDone(r) THEN "agent" ELSE "closing"
  BY <1>4
<1>6. \/ routed' = routed
      \/ x.task = "closing" /\ routed' = [routed EXCEPT ![run[r].session] = None]
  BY <1>5 DEF SetupDone, AgentEnds, AgentCancelled, Unroute
<1>7. routed' \in [Sessions -> 0..MaxRuns]
  BY <1>1, <1>6, EntryTyped DEF TypeOK
<1>8. UNCHANGED <<up, rowid, active, lock, post, stop, crashes>>
  BY DEF SetupDone, AgentEnds, AgentCancelled
<1>9. TypeOK'
  BY <1>1, <1>5, <1>7, <1>8, OneRunTyped DEF TypeOK
<1> QED
  BY <1>1, <1>2, <1>5, <1>6, <1>8, <1>9, PhaseKeeps DEF Holding

\* The ways a run ends: run_agent's except clauses and finally block.
LEMMA ExitKeeps ==
    ASSUME Inv, NEW r \in RunIds, SetupRaises(r) \/ Close(r) \/ CloseCancelled(r)
    PROVE  Inv'
<1>1. /\ up /\ run[r].task \in Holding /\ Unlock(r)
      /\ UNCHANGED <<up, rowid, active, routed, post, stop, crashes>>
  BY DEF SetupRaises, Close, CloseCancelled, Holding
<1>2. PICK w \in {"done", "error"},
           t \in {<<"done">>, <<"error", "done">>, <<"done", "error", "done">>} :
        run' = [run EXCEPT ![r] = Settled(run[r], t, w)]
  BY DEF SetupRaises, Close, CloseCancelled
<1> QED
  BY <1>1, <1>2, SettleKeeps

\* A step that only sets a run's pending cancellation or its reader.
LEMMA TouchKeeps ==
    ASSUME Inv, TypeOK', UNCHANGED <<up, rowid, lock, routed>>,
           NEW r \in RunIds, NEW x, run' = [run EXCEPT ![r] = x], run[r] # NoRun,
           x.session = run[r].session, x.task = run[r].task,
           x.row = run[r].row, x.log = run[r].log
    PROVE  Inv'
<1>1. run'[r] = x /\ \A q \in RunIds \ {r} : run'[q] = run[q]
  BY DEF Inv, TypeOK
<1>2. Calm
  BY <1>1 DEF Calm
<1> QED
  BY <1>2, CalmKeeps

\* A cancellation is on its way to a run.
LEMMA CancelKeeps ==
    ASSUME Inv, NEW r \in 0..MaxRuns, Alive(r), run' = [run EXCEPT ![r].cancel = TRUE],
           UNCHANGED <<up, rowid, active, lock, routed, post, crashes>>,
           stop' \in [Stops -> Stop]
    PROVE  Inv'
<1>1. TypeOK
  BY DEF Inv
<1>2. CASE r \in RunIds
  <2>1. PICK x : x = [run[r] EXCEPT !.cancel = TRUE]
    OBVIOUS
  <2>2. /\ x \in Run /\ x.session = run[r].session /\ x.task = run[r].task
        /\ x.row = run[r].row /\ x.log = run[r].log
    BY <1>1, <1>2, <2>1, RunTyped DEF Run
  <2>3. run' = [run EXCEPT ![r] = x]
    BY <2>1
  <2>4. TypeOK'
    BY <1>1, <2>2, <2>3 DEF TypeOK
  <2>5. run[r] # NoRun
    BY NoRunNone DEF Alive
  <2> QED
    BY <1>2, <2>2, <2>3, <2>4, <2>5, TouchKeeps
<1>3. CASE r \notin RunIds
  <2>1. run' = run
    BY <1>1, <1>3 DEF TypeOK
  <2>2. TypeOK' /\ Calm
    BY <1>1, <2>1 DEF TypeOK, Calm
  <2> QED
    BY <2>2, CalmKeeps
<1> QED
  BY <1>2, <1>3

\* The stop requests.
LEMMA StopKeeps ==
    ASSUME Inv, NEW p \in Stops,
           StopAgain(p) \/ StopReturns(p) \/ \E s \in Sessions : StopRun(p, s)
    PROVE  Inv'
<1>1. TypeOK
  BY DEF Inv
<1>2. stop[p] \in Stop /\ stop[p].run \in 0..MaxRuns
  BY <1>1 DEF TypeOK, Stop
<1>3. CASE StopAgain(p)
  BY <1>1, <1>2, <1>3, CancelKeeps DEF StopAgain, TypeOK
<1>4. CASE StopReturns(p)
  <2>1. stop' \in [Stops -> Stop]
    BY <1>1, <1>2, <1>4 DEF StopReturns, TypeOK, Stop
  <2>2. TypeOK' /\ Calm
    BY <1>1, <1>4, <2>1 DEF StopReturns, TypeOK, Calm
  <2> QED
    BY <2>2, CalmKeeps
<1>5. ASSUME NEW s \in Sessions, StopRun(p, s) PROVE Inv'
  <2>1. active[s] \in 0..MaxRuns /\ lock[s] \in 0..MaxRuns
    BY <1>1 DEF TypeOK
  <2>2. PICK c \in {"wait", "done"} :
          stop' = [stop EXCEPT ![p] = [pc |-> c, session |-> s, run |-> active[s], live |-> lock[s]]]
    BY <1>5 DEF StopRun
  <2>3. stop' \in [Stops -> Stop]
    BY <1>1, <2>1, <2>2 DEF TypeOK, Stop
  <2>4. CASE Alive(active[s]) /\ run' = [run EXCEPT ![active[s]].cancel = TRUE]
    BY <1>5, <2>1, <2>3, <2>4, CancelKeeps DEF StopRun
  <2>5. CASE run' = run
    <3>1. TypeOK' /\ Calm
      BY <1>1, <1>5, <2>3, <2>5 DEF StopRun, TypeOK, Calm
    <3> QED
      BY <3>1, CalmKeeps
  <2> QED
    BY <1>5, <2>4, <2>5 DEF StopRun
<1> QED
  BY <1>3, <1>4, <1>5

\* The readers of a run leave it.
LEMMA LeaveKeeps ==
    ASSUME Inv, NEW r \in RunIds, ChatLeaves(r) \/ DriverLeaves(r) \/ DriverOver(r)
    PROVE  Inv'
<1>1. TypeOK
  BY DEF Inv
<1>2. PICK w \in {"no", "leaving", "over"} :
        \/ run' = [run EXCEPT ![r].watch = w]
        \/ run' = [run EXCEPT ![r].watch = w, ![r].cancel = TRUE]
  BY DEF ChatLeaves, DriverLeaves, DriverOver
<1>3. \E x \in Run : /\ run' = [run EXCEPT ![r] = x]
                     /\ x.session = run[r].session /\ x.task = run[r].task
                     /\ x.row = run[r].row /\ x.log = run[r].log
  <2>1. CASE run' = [run EXCEPT ![r].watch = w]
    <3>1. PICK x : x = [run[r] EXCEPT !.watch = w]
      OBVIOUS
    <3>2. /\ x \in Run /\ x.session = run[r].session /\ x.task = run[r].task
          /\ x.row = run[r].row /\ x.log = run[r].log
      BY <1>1, <1>2, <3>1, RunTyped DEF Run
    <3> QED
      BY <2>1, <3>1, <3>2
  <2>2. CASE run' = [run EXCEPT ![r].watch = w, ![r].cancel = TRUE]
    <3>1. PICK x : x = [run[r] EXCEPT !.watch = w, !.cancel = TRUE]
      OBVIOUS
    <3>2. /\ x \in Run /\ x.session = run[r].session /\ x.task = run[r].task
          /\ x.row = run[r].row /\ x.log = run[r].log
      BY <1>1, <1>2, <3>1, RunTyped DEF Run
    <3> QED
      BY <2>2, <3>1, <3>2
  <2> QED
    BY <1>2, <2>1, <2>2
<1>4. PICK x \in Run : /\ run' = [run EXCEPT ![r] = x]
                       /\ x.session = run[r].session /\ x.task = run[r].task
                       /\ x.row = run[r].row /\ x.log = run[r].log
  BY <1>3
<1>5. active' \in [Sessions -> 0..MaxRuns]
  <2>1. CASE DriverOver(r)
    <3>1. active' = [active EXCEPT ![run[r].session] = None] \/ active' = active
      BY <1>1, <2>1 DEF DriverOver, Evict, TypeOK
    <3> QED
      BY <1>1, <3>1, EntryTyped DEF TypeOK
  <2>2. CASE active' = active
    BY <1>1, <2>2 DEF TypeOK
  <2> QED
    BY <2>1, <2>2 DEF ChatLeaves, DriverLeaves
<1>6. TypeOK'
  BY <1>1, <1>4, <1>5 DEF ChatLeaves, DriverLeaves, DriverOver, TypeOK
<1>7. run[r] # NoRun
  <2>1. run[r].watch # "no"
    BY DEF ChatLeaves, DriverLeaves, DriverOver
  <2> QED
    BY <2>1 DEF NoRun
<1> QED
  BY <1>4, <1>6, <1>7, TouchKeeps DEF ChatLeaves, DriverLeaves, DriverOver

\* The starts: a POST that has fetched its runtime, a chat or a scheduled task.
LEMMA StartsKeep ==
    ASSUME Inv, \/ \E q \in Posts : PostRunStarts(q)
                \/ \E s \in Sessions, w \in {"chat", "task"} : DriverStarts(s, w)
    PROVE  Inv'
<1>1. TypeOK
  BY DEF Inv
<1>2. ASSUME NEW s \in Sessions, NEW w \in {"no", "chat", "task"}, StartRun(s, w)
      PROVE  /\ rowid' \in 0..MaxRuns /\ run' \in [RunIds -> Run]
             /\ active' \in [Sessions -> 0..MaxRuns]
  <2>1. rowid + 1 \in RunIds /\ rowid' \in 0..MaxRuns
    BY <1>1, <1>2, ConstantsAssumption DEF TypeOK, StartRun, RunIds, ConstantsAssumption
  <2>2. [session |-> s, task |-> "new", row |-> "running", log |-> <<>>,
         cancel |-> FALSE, cut |-> FALSE, watch |-> w] \in Run
    BY <1>2 DEF Run
  <2>3. run' \in [RunIds -> Run]
    BY <1>1, <1>2, <2>1, <2>2 DEF TypeOK, StartRun
  <2>4. active' \in [Sessions -> 0..MaxRuns]
    BY <1>1, <1>2, <2>1, EntryTyped DEF TypeOK, StartRun
  <2> QED
    BY <2>1, <2>3, <2>4
<1>3. ASSUME NEW q \in Posts, PostRunStarts(q) PROVE Inv'
  <2>1. post[q] \in [pc : {"fetch", "done"}, session : Sessions]
    BY <1>1, <1>3 DEF TypeOK, PostRunStarts, Post, NoPost
  <2>2. [post[q] EXCEPT !.pc = "done"] \in Post /\ post[q].session \in Sessions
    BY <2>1 DEF Post
  <2>3. post' \in [Posts -> Post]
    BY <1>1, <1>3, <2>2 DEF TypeOK, PostRunStarts
  <2>4. TypeOK'
    BY <1>1, <1>2, <1>3, <2>2, <2>3 DEF TypeOK, PostRunStarts
  <2> QED
    BY <1>3, <2>2, <2>4, StartKeeps DEF PostRunStarts
<1>4. ASSUME NEW s \in Sessions, NEW w \in {"chat", "task"}, DriverStarts(s, w) PROVE Inv'
  <2>1. TypeOK'
    BY <1>1, <1>2, <1>4 DEF TypeOK, DriverStarts
  <2> QED
    BY <1>4, <2>1, StartKeeps DEF DriverStarts
<1> QED
  BY <1>3, <1>4

\* run_session up to its await.
LEMMA PostKeeps == ASSUME Inv, NEW q \in Posts, NEW s \in Sessions, PostRun(q, s) PROVE Inv'
<1>1. TypeOK
  BY DEF Inv
<1>2. PICK c \in {"fetch", "done"} : post' = [post EXCEPT ![q] = [pc |-> c, session |-> s]]
  BY DEF PostRun
<1>3. [pc |-> c, session |-> s] \in Post
  BY DEF Post
<1>4. post' \in [Posts -> Post]
  BY <1>1, <1>2, <1>3 DEF TypeOK
<1>5. TypeOK' /\ Calm
  BY <1>1, <1>4 DEF PostRun, TypeOK, Calm
<1> QED
  BY <1>5, CalmKeeps

\* A crash ends every task and empties the tables in memory.
LEMMA CrashKeeps == ASSUME Inv, Crash PROVE Inv'
<1>1. /\ TypeOK /\ RowsAllocated /\ LockHeld /\ SettledReplayEnds
  BY DEF Inv
<1>2. \A r \in RunIds : /\ run'[r] \in Run /\ run'[r].session = run[r].session
                        /\ run'[r].row = run[r].row /\ run'[r].log = run[r].log
                        /\ run[r] = NoRun => run'[r] = NoRun
                        /\ run'[r].task = IF run[r].task = "none" THEN "none" ELSE "ended"
  <2> SUFFICES ASSUME NEW r \in RunIds
               PROVE /\ run'[r] \in Run /\ run'[r].session = run[r].session
                     /\ run'[r].row = run[r].row /\ run'[r].log = run[r].log
                     /\ run[r] = NoRun => run'[r] = NoRun
                     /\ run'[r].task = IF run[r].task = "none" THEN "none" ELSE "ended"
    OBVIOUS
  <2>1. CASE run[r].task = "none"
    <3>1. run'[r] = run[r]
      BY <2>1 DEF Crash
    <3> QED
      BY <1>1, <2>1, <3>1, RunTyped
  <2>2. CASE run[r].task # "none"
    <3>1. run'[r] = [run[r] EXCEPT !.task = "ended", !.cancel = FALSE, !.watch = "over"]
      BY <2>2 DEF Crash
    <3>2. run[r] # NoRun
      BY <2>2, NoRunNone
    <3> QED
      BY <1>1, <2>2, <3>1, <3>2, RunTyped DEF Run
  <2> QED
    BY <2>1, <2>2
<1>3. run' \in [RunIds -> Run]
  <2>1. run' = [r \in RunIds |-> run'[r]]
    BY DEF Crash
  <2> QED
    BY <1>2, <2>1
<1>4. /\ crashes' \in 0..MaxCrashes /\ None \in 0..MaxRuns
  <2>1. crashes' \in 0..MaxCrashes
    <3>1. crashes \in 0..MaxCrashes
      BY <1>1 DEF TypeOK
    <3>2. crashes < MaxCrashes
      BY DEF Crash
    <3>3. crashes' = crashes + 1
      BY DEF Crash
    <3> QED
      BY <3>1, <3>2, <3>3, ConstantsAssumption DEF ConstantsAssumption
  <2>2. None \in 0..MaxRuns
    BY ConstantsAssumption DEF ConstantsAssumption, None
  <2> QED
    BY <2>1, <2>2
<1>5. post' \in [Posts -> Post]
  <2>1. \A q \in Posts : post[q].pc # "unsent" => [post[q] EXCEPT !.pc = "done"] \in Post
    BY <1>1 DEF TypeOK, Post, NoPost
  <2> QED
    BY <1>1, <2>1 DEF Crash, TypeOK
<1>6. stop' \in [Stops -> Stop]
  <2>1. \A p \in Stops : stop[p] \in Stop
    BY <1>1 DEF TypeOK
  <2>2. \A x \in Stop : [x EXCEPT !.pc = "done", !.live = None] \in Stop
    BY <1>4 DEF Stop
  <2> QED
    BY <1>1, <2>1, <2>2 DEF Crash, TypeOK
<1>7. TypeOK'
  BY <1>1, <1>3, <1>5, <1>6, <1>4 DEF Crash, TypeOK
<1>8. \A r \in RunIds : ~Alive(r)'
  BY <1>2 DEF Alive
<1>9. RowsAllocated'
  BY <1>1, <1>2 DEF RowsAllocated, Crash
<1>10. LockHeld'
  <2>1. \A s \in Sessions : lock'[s] = None
    BY DEF Crash
  <2>2. \A r \in RunIds : run'[r].task \notin Holding
    BY <1>2 DEF Holding
  <2>3. \A r \in RunIds : run'[r].task # "none" => run'[r].session \in Sessions
    BY <1>1, <1>2 DEF LockHeld
  <2> QED
    BY <2>1, <2>2, <2>3 DEF LockHeld
<1>11. AliveNotDone' /\ DownFree' /\ DoneMeansFree'
  BY <1>8 DEF AliveNotDone, DownFree, DoneMeansFree, Crash
<1>12. AskedWhileRunning'
  BY <1>2 DEF AskedWhileRunning
<1>13. SettledReplayEnds'
  BY <1>1, <1>2 DEF SettledReplayEnds, IsDone, Emitted
<1> QED
  BY <1>7, <1>9, <1>10, <1>11, <1>12, <1>13 DEF Inv

\* init_db: rows still running get the end of their log.
LEMMA RestartKeeps == ASSUME Inv, Restart PROVE Inv'
<1>1. /\ TypeOK /\ RowsAllocated /\ LockHeld /\ SettledReplayEnds /\ DownFree
      /\ DoneMeansFree
  BY DEF Inv
<1>2. \A r \in RunIds : /\ run'[r] \in Run /\ run'[r].session = run[r].session
                        /\ run'[r].task = run[r].task
                        /\ run[r] = NoRun => run'[r] = NoRun
                        /\ \/ run'[r].row = "error" /\ HasDone(run'[r].log)
                           \/ run'[r] = run[r]
  <2> SUFFICES ASSUME NEW r \in RunIds
               PROVE /\ run'[r] \in Run /\ run'[r].session = run[r].session
                     /\ run'[r].task = run[r].task
                     /\ run[r] = NoRun => run'[r] = NoRun
                     /\ \/ run'[r].row = "error" /\ HasDone(run'[r].log)
                        \/ run'[r] = run[r]
    OBVIOUS
  <2>1. CASE run[r].row # "running"
    <3>1. run'[r] = run[r]
      BY <2>1 DEF Restart, Recover
    <3> QED
      BY <1>1, <3>1, RunTyped
  <2>2. CASE run[r].row = "running"
    <3>1. PICK l : l = run[r].log \o <<"error", "done">>
      OBVIOUS
    <3>2. l \in Seq(Said) /\ HasDone(l)
      BY <1>1, <3>1, RunTyped, Terminals, DoneAppended
    <3>3. run'[r] = [run[r] EXCEPT !.row = "error", !.log = l]
      BY <2>2, <3>1 DEF Restart, Recover
    <3>4. run[r] # NoRun
      BY <2>2, NoRunNone
    <3> QED
      BY <1>1, <3>2, <3>3, <3>4, RunTyped DEF Run, Said
  <2> QED
    BY <2>1, <2>2
<1>3. run' \in [RunIds -> Run]
  <2>1. run' = [r \in RunIds |-> run'[r]]
    BY DEF Restart, Recover
  <2> QED
    BY <1>2, <2>1
<1>4. TypeOK'
  BY <1>1, <1>3 DEF Restart, TypeOK
<1>5. \A r \in RunIds : ~Alive(r)' /\ ~Alive(r)
  BY <1>1, <1>2 DEF Alive, DownFree, Restart
<1>6. \A s \in Sessions : lock[s] = None
  <2>1. \A s \in Sessions : lock[s] # None => lock[s] \in RunIds
    BY <1>1, ConstantsAssumption DEF TypeOK, RunIds, None, ConstantsAssumption
  <2> QED
    BY <1>1, <1>5, <2>1 DEF LockHeld, Alive, Holding
<1>7. RowsAllocated'
  BY <1>1, <1>2 DEF RowsAllocated, Restart
<1>8. LockHeld'
  BY <1>1, <1>2, <1>6 DEF LockHeld, Restart
<1>9. AliveNotDone' /\ DownFree' /\ DoneMeansFree' /\ AskedWhileRunning'
  BY <1>5, <1>6 DEF AliveNotDone, DownFree, DoneMeansFree, AskedWhileRunning, Restart, Alive
<1>10. SettledReplayEnds'
  BY <1>1, <1>2 DEF SettledReplayEnds, IsDone, Emitted, HasDone
<1> QED
  BY <1>4, <1>7, <1>8, <1>9, <1>10 DEF Inv

\* A step that changes no variable.
LEMMA StutterKeeps == ASSUME Inv, UNCHANGED vars PROVE Inv'
<1>1. TypeOK' /\ Calm
  BY DEF Inv, TypeOK, Calm, vars
<1> QED
  BY <1>1, CalmKeeps

\* The invariant is inductive: no start, stop, step, reader, crash or restart
\* breaks it.
THEOREM Inductive == Inv /\ [Next]_vars => Inv'
<1> SUFFICES ASSUME Inv, [Next]_vars PROVE Inv'
  OBVIOUS
<1>1. CASE UNCHANGED vars
  BY <1>1, StutterKeeps
<1>2. CASE \/ \E q \in Posts : PostRunStarts(q)
           \/ \E s \in Sessions, w \in {"chat", "task"} : DriverStarts(s, w)
  BY <1>2, StartsKeep
<1>3. CASE \E q \in Posts, s \in Sessions : PostRun(q, s)
  BY <1>3, PostKeeps
<1>4. CASE \E r \in RunIds : RunStep(r) \/ AgentEnds(r)
  BY <1>4, BeginKeeps, BodyKeeps, ExitKeeps DEF RunStep
<1>5. CASE \E r \in RunIds : ChatLeaves(r) \/ DriverLeaves(r) \/ DriverOver(r)
  BY <1>5, LeaveKeeps
<1>6. CASE \E p \in Stops : StopAgain(p) \/ StopReturns(p) \/ \E s \in Sessions : StopRun(p, s)
  BY <1>6, StopKeeps
<1>7. CASE Crash
  BY <1>7, CrashKeeps
<1>8. CASE Restart
  BY <1>8, RestartKeeps
<1> QED
  BY <1>1, <1>2, <1>3, <1>4, <1>5, <1>6, <1>7, <1>8 DEF Next

\* The inductive invariant holds in every reachable state of the registry.
THEOREM Invariance == Spec => []Inv
BY InitInv, Inductive, PTL DEF Spec

\* A client that has read `done` finds the session's lock free, whatever the
\* number of runs, requests, stops and crashes.
THEOREM DoneFrees == Spec => []DoneMeansFree
<1>1. Inv => DoneMeansFree
  BY DEF Inv
<1> QED
  BY Invariance, <1>1, PTL

\* While a run's body runs, egress questions of its session go to its sink.
THEOREM RunningAsked == Spec => []AskedWhileRunning
<1>1. Inv => AskedWhileRunning
  BY DEF Inv
<1> QED
  BY Invariance, <1>1, PTL

\* The log of a settled run ends: a client that reattaches does not wait for
\* ever.
THEOREM ReplayEnds == Spec => []SettledReplayEnds
<1>1. Inv => SettledReplayEnds
  BY DEF Inv
<1> QED
  BY Invariance, <1>1, PTL

\* A step that starts no run: runs stay where they were, and a session's entry
\* is emptied only by the reader that gives up the run it names.
Steady ==
    /\ \A r \in RunIds :
          /\ run[r].session # "none" => run'[r].session = run[r].session
          /\ Alive(r)' => Alive(r)
          /\ Alive(r)' /\ run[r].watch = "over" => run'[r].watch = "over"
    /\ \/ active' = active
       \/ \E x \in RunIds : run'[x].watch = "over" /\ active' = [active EXCEPT ![run[x].session] =
                                                                    IF @ = x THEN None ELSE @]

\* A steady step leaves every living run within reach.
LEMMA SteadyReaches == ASSUME Inv, Steady, RunReachable PROVE RunReachable'
<1> SUFFICES ASSUME NEW r \in RunIds, Alive(r)'
             PROVE  \/ active'[run'[r].session] = r
                    \/ \E q \in RunIds : q > r /\ run'[q].session = run'[r].session
                    \/ run'[r].watch = "over"
  BY DEF RunReachable
<1>1. Alive(r) /\ run[r].session \in Sessions
  BY DEF Steady, Inv, LockHeld, Alive
<1>2. run'[r].session = run[r].session /\ run[r].session # "none"
  BY <1>1, ConstantsAssumption DEF Steady, ConstantsAssumption
<1>3. CASE active[run[r].session] = r
  <2>1. CASE active' = active
    BY <1>2, <1>3, <2>1
  <2>2. ASSUME NEW x \in RunIds, run'[x].watch = "over",
               active' = [active EXCEPT ![run[x].session] = IF @ = x THEN None ELSE @]
        PROVE  active'[run[r].session] = r \/ run'[r].watch = "over"
    <3>1. active \in [Sessions -> 0..MaxRuns]
      BY DEF Inv, TypeOK
    <3>2. CASE x = r
      BY <2>2, <3>2
    <3>3. CASE x # r
      BY <1>1, <1>3, <2>2, <3>1, <3>3
    <3> QED
      BY <3>2, <3>3
  <2> QED
    BY <1>2, <2>1, <2>2 DEF Steady
<1>4. CASE \E q \in RunIds : q > r /\ run[q].session = run[r].session
  BY <1>2, <1>4 DEF Steady
<1>5. CASE run[r].watch = "over"
  BY <1>5 DEF Steady
<1> QED
  BY <1>1, <1>3, <1>4, <1>5 DEF RunReachable

\* A start: the new run is the session's, and later than every other.
LEMMA StartReaches ==
    ASSUME Inv, RunReachable, NEW s \in Sessions, NEW w, StartRun(s, w)
    PROVE  RunReachable'
<1>1. TypeOK /\ RowsAllocated
  BY DEF Inv
<1>2. PICK n \in RunIds : rowid \in Nat /\ n = rowid + 1
  BY <1>1, ConstantsAssumption DEF TypeOK, RunIds, ConstantsAssumption, StartRun
<1>3. /\ run'[n].session = s
      /\ \A q \in RunIds \ {n} : run'[q] = run[q]
  BY <1>1, <1>2 DEF TypeOK, StartRun
<1>4. active'[s] = n /\ \A t \in Sessions \ {s} : active'[t] = active[t]
  BY <1>1, <1>2 DEF TypeOK, StartRun
<1>5. \A r \in RunIds : Alive(r) => r <= rowid /\ r # n
  BY <1>1, <1>2, NoRunNone DEF RowsAllocated, RunIds, Alive
<1> SUFFICES ASSUME NEW r \in RunIds, Alive(r)'
             PROVE  \/ active'[run'[r].session] = r
                    \/ \E q \in RunIds : q > r /\ run'[q].session = run'[r].session
                    \/ run'[r].watch = "over"
  BY DEF RunReachable
<1>6. CASE r = n
  BY <1>3, <1>4, <1>6
<1>7. CASE r # n
  <2>1. Alive(r) /\ run'[r] = run[r] /\ run[r].session \in Sessions
    BY <1>3, <1>7 DEF Alive, Inv, LockHeld
  <2>2. n > r
    BY <1>2, <1>5, <2>1 DEF RunIds
  <2>3. CASE run[r].session = s
    BY <1>3, <2>1, <2>2, <2>3
  <2>4. CASE run[r].session # s /\ active[run[r].session] = r
    BY <1>4, <2>1, <2>4
  <2>5. ASSUME NEW q \in RunIds, q > r, run[q].session = run[r].session, run[r].session # s
        PROVE  \E p \in RunIds : p > r /\ run'[p].session = run'[r].session
    <3>1. run[n].session = "none"
      BY <1>1, <1>2 DEF RowsAllocated, NoRun
    <3>2. CASE q = n
      BY <2>1, <2>5, <3>1, <3>2, ConstantsAssumption DEF ConstantsAssumption
    <3>3. CASE q # n
      BY <1>3, <2>1, <2>5, <3>3
    <3> QED
      BY <3>2, <3>3
  <2>6. CASE run[r].watch = "over"
    BY <2>1, <2>6
  <2> QED
    BY <2>1, <2>3, <2>4, <2>5, <2>6 DEF RunReachable
<1> QED
  BY <1>6, <1>7

\* A step that replaces one run, and does not touch _active_runs, is steady if
\* the run stays of its session, is not revived and stays given up.
LEMMA OneRunSteady ==
    ASSUME TypeOK, NEW r \in RunIds, NEW x, run' = [run EXCEPT ![r] = x], active' = active,
           x.session = run[r].session,
           x.task \in {"new", "setup", "agent", "closing"} => Alive(r),
           run[r].watch = "over" => x.watch = "over"
    PROVE  Steady
<1>1. run'[r] = x /\ \A q \in RunIds \ {r} : run'[q] = run[q]
  BY DEF TypeOK
<1> QED
  BY <1>1 DEF Steady, Alive

\* Every step of the registry but a start or a crash is steady.
LEMMA OtherStepsSteady ==
    ASSUME Inv, Next, ~Crash,
           ~\E q \in Posts : PostRunStarts(q),
           ~\E s \in Sessions, w \in {"chat", "task"} : DriverStarts(s, w)
    PROVE  Steady
<1>1. TypeOK
  BY DEF Inv
<1>2. ASSUME run' = run, active' = active PROVE Steady
  BY <1>2 DEF Steady, Alive
<1>3. ASSUME NEW r \in RunIds, RunStep(r) \/ AgentEnds(r) PROVE Steady
  <2>1. run[r] \in Run
    BY <1>1, RunTyped
  <2>2. ASSUME NEW t, NEW w, run' = [run EXCEPT ![r] = Settled(@, t, w)], active' = active
        PROVE  Steady
    BY <1>1, <2>2, OneRunSteady DEF Settled
  <2>3. CASE Begin(r)
    <3>1. ASSUME run' = [run EXCEPT ![r].task = "ended", ![r].cancel = FALSE], active' = active
          PROVE  Steady
      <4>1. PICK x : x = [run[r] EXCEPT !.task = "ended", !.cancel = FALSE]
        OBVIOUS
      <4>2. x.session = run[r].session /\ x.task = "ended" /\ x.watch = run[r].watch
        BY <2>1, <4>1 DEF Run
      <4>3. run' = [run EXCEPT ![r] = x]
        BY <3>1, <4>1
      <4> QED
        BY <1>1, <3>1, <4>2, <4>3, OneRunSteady
    <3>2. ASSUME run' = [run EXCEPT ![r].task = "setup"], active' = active, Alive(r) PROVE Steady
      <4>1. PICK x : x = [run[r] EXCEPT !.task = "setup"]
        OBVIOUS
      <4>2. x.session = run[r].session /\ x.watch = run[r].watch
        BY <2>1, <4>1 DEF Run
      <4>3. run' = [run EXCEPT ![r] = x]
        BY <3>2, <4>1
      <4> QED
        BY <1>1, <3>2, <4>2, <4>3, OneRunSteady
    <3> QED
      BY <2>2, <2>3, <3>1, <3>2 DEF Begin, Alive
  <2>4. CASE SetupDone(r) \/ AgentEnds(r) \/ AgentCancelled(r)
    <3>1. Alive(r) /\ active' = active
      BY <2>4 DEF SetupDone, AgentEnds, AgentCancelled, Alive
    <3>2. PICK x : /\ run' = [run EXCEPT ![r] = x]
                   /\ \/ x = [run[r] EXCEPT !.task = "agent"]
                      \/ \E e : x = [run[r] EXCEPT !.task = "closing", !.log = @ \o e]
                      \/ x = [run[r] EXCEPT !.task = "closing", !.cut = TRUE, !.cancel = FALSE]
      <4>1. CASE SetupDone(r)
        <5>1. run' = [run EXCEPT ![r] = [run[r] EXCEPT !.task = "agent"]]
          BY <4>1 DEF SetupDone
        <5> QED
          BY <5>1
      <4>2. CASE AgentEnds(r)
        <5>1. PICK e : run' = [run EXCEPT ![r].task = "closing", ![r].log = @ \o e]
          BY <4>2 DEF AgentEnds
        <5>2. run' = [run EXCEPT ![r] = [run[r] EXCEPT !.task = "closing", !.log = @ \o e]]
          BY <5>1
        <5> QED
          BY <5>2
      <4>3. CASE AgentCancelled(r)
        <5>1. run' = [run EXCEPT ![r] = [run[r] EXCEPT !.task = "closing", !.cut = TRUE, !.cancel = FALSE]]
          BY <4>3 DEF AgentCancelled
        <5> QED
          BY <5>1
      <4> QED
        BY <2>4, <4>1, <4>2, <4>3
    <3>3. x.session = run[r].session /\ x.watch = run[r].watch
      BY <2>1, <3>2 DEF Run
    <3> QED
      BY <1>1, <3>1, <3>2, <3>3, OneRunSteady
  <2>5. CASE SetupRaises(r) \/ CloseCancelled(r)
    BY <2>2, <2>5 DEF SetupRaises, CloseCancelled
  <2>6. CASE Close(r)
    BY <2>2, <2>6 DEF Close
  <2> QED
    BY <1>3, <2>3, <2>4, <2>5, <2>6 DEF RunStep
<1>4. ASSUME NEW r \in 0..MaxRuns, run' = [run EXCEPT ![r].cancel = TRUE], active' = active, Alive(r)
      PROVE  Steady
  <2>1. CASE r \in RunIds
    <3>1. PICK x : x = [run[r] EXCEPT !.cancel = TRUE]
      OBVIOUS
    <3>2. x.session = run[r].session /\ x.watch = run[r].watch
      BY <1>1, <2>1, <3>1, RunTyped DEF Run
    <3>3. run' = [run EXCEPT ![r] = x]
      BY <1>4, <3>1
    <3> QED
      BY <1>1, <1>4, <2>1, <3>2, <3>3, OneRunSteady
  <2>2. CASE r \notin RunIds
    <3>1. run' = run
      BY <1>1, <1>4, <2>2 DEF TypeOK
    <3> QED
      BY <1>2, <1>4, <3>1
  <2> QED
    BY <2>1, <2>2
<1>5. ASSUME NEW p \in Stops, StopAgain(p) \/ StopReturns(p) \/ \E s \in Sessions : StopRun(p, s)
      PROVE  Steady
  <2>1. CASE StopAgain(p)
    BY <1>1, <1>4, <2>1 DEF StopAgain, TypeOK, Stop
  <2>2. CASE StopReturns(p)
    BY <1>2, <2>2 DEF StopReturns
  <2>3. ASSUME NEW s \in Sessions, StopRun(p, s) PROVE Steady
    BY <1>1, <1>2, <1>4, <2>3 DEF StopRun, TypeOK
  <2> QED
    BY <1>5, <2>1, <2>2, <2>3
<1>6. ASSUME NEW r \in RunIds, ChatLeaves(r) \/ DriverLeaves(r) PROVE Steady
  <2>1. run[r].watch # "over" /\ active' = active
    BY <1>6 DEF ChatLeaves, DriverLeaves
  <2>2. PICK x : /\ run' = [run EXCEPT ![r] = x]
                 /\ \/ x = [run[r] EXCEPT !.watch = "no"]
                    \/ x = [run[r] EXCEPT !.watch = "leaving"]
                    \/ x = [run[r] EXCEPT !.watch = "leaving", !.cancel = TRUE]
    <3>1. \/ run' = [run EXCEPT ![r] = [run[r] EXCEPT !.watch = "no"]]
          \/ run' = [run EXCEPT ![r] = [run[r] EXCEPT !.watch = "leaving"]]
          \/ run' = [run EXCEPT ![r] = [run[r] EXCEPT !.watch = "leaving", !.cancel = TRUE]]
      BY <1>6 DEF ChatLeaves, DriverLeaves
    <3> QED
      BY <3>1
  <2>3. x.session = run[r].session /\ x.task = run[r].task
    BY <1>1, <2>2, RunTyped DEF Run
  <2> QED
    BY <1>1, <2>1, <2>2, <2>3, OneRunSteady DEF Alive
<1>7. ASSUME NEW r \in RunIds, DriverOver(r) PROVE Steady
  <2>1. run' = [run EXCEPT ![r] = [run[r] EXCEPT !.watch = "over"]]
    BY <1>7 DEF DriverOver
  <2>2. /\ run'[r].watch = "over" /\ run'[r].session = run[r].session /\ run'[r].task = run[r].task
        /\ \A q \in RunIds \ {r} : run'[q] = run[q]
    BY <1>1, <2>1, RunTyped DEF TypeOK, Run
  <2>3. active' = [active EXCEPT ![run[r].session] = IF @ = r THEN None ELSE @]
    BY <1>7 DEF DriverOver, Evict
  <2> QED
    BY <2>2, <2>3 DEF Steady, Alive
<1>8. CASE Restart
  <2>1. active' = active /\ \A r \in RunIds : /\ run'[r].session = run[r].session
                                              /\ run'[r].task = run[r].task
                                              /\ run'[r].watch = run[r].watch
    <3> SUFFICES ASSUME NEW r \in RunIds
                 PROVE  /\ run'[r].session = run[r].session /\ run'[r].task = run[r].task
                        /\ run'[r].watch = run[r].watch
      BY <1>8 DEF Restart
    <3>1. run[r] \in Run
      BY <1>1, RunTyped
    <3>2. \/ run'[r] = run[r]
          \/ run'[r] = [run[r] EXCEPT !.row = "error", !.log = @ \o <<"error", "done">>]
      BY <1>8 DEF Restart, Recover
    <3> QED
      BY <3>1, <3>2 DEF Run
  <2> QED
    BY <2>1 DEF Steady, Alive
<1>9. CASE \E q \in Posts, s \in Sessions : PostRun(q, s)
  BY <1>2, <1>9 DEF PostRun
<1> QED
  BY <1>3, <1>5, <1>6, <1>7, <1>8, <1>9 DEF Next

\* A run can be found from its start to its end.
LEMMA ReachableInductive == Inv /\ RunReachable /\ [Next]_vars => RunReachable'
<1> SUFFICES ASSUME Inv, RunReachable, [Next]_vars PROVE RunReachable'
  OBVIOUS
<1>1. CASE UNCHANGED vars
  BY <1>1 DEF vars, RunReachable, Alive
<1>2. ASSUME NEW q \in Posts, PostRunStarts(q) PROVE RunReachable'
  <2>1. post[q].session \in Sessions
    BY <1>2 DEF Inv, TypeOK, PostRunStarts, Post, NoPost
  <2> QED
    BY <1>2, <2>1, StartReaches DEF PostRunStarts
<1>3. ASSUME NEW s \in Sessions, NEW w \in {"chat", "task"}, DriverStarts(s, w) PROVE RunReachable'
  BY <1>3, StartReaches DEF DriverStarts
<1>4. CASE Crash
  <2>1. \A r \in RunIds : ~Alive(r)'
    <3> SUFFICES ASSUME NEW r \in RunIds PROVE run'[r].task \in {"none", "ended"}
      BY DEF Alive
    <3>1. run[r] \in Run
      BY RunTyped DEF Inv
    <3>2. \/ run'[r] = run[r] /\ run[r].task = "none"
          \/ run'[r] = [run[r] EXCEPT !.task = "ended", !.cancel = FALSE, !.watch = "over"]
      BY <1>4 DEF Crash
    <3> QED
      BY <3>1, <3>2 DEF Run
  <2> QED
    BY <2>1 DEF RunReachable
<1>5. CASE Next /\ ~Crash /\ (~\E q \in Posts : PostRunStarts(q))
           /\ ~\E s \in Sessions, w \in {"chat", "task"} : DriverStarts(s, w)
  BY <1>5, OtherStepsSteady, SteadyReaches
<1> QED
  BY <1>1, <1>2, <1>3, <1>4, <1>5

\* The run that holds a session can be found again, to reattach or to stop it,
\* unless a later run took its place or its own driver gave it up.
THEOREM HolderFound == Spec => []HolderReachable
<1>1. Init => RunReachable
  BY DEF Init, RunReachable, Alive, NoRun
<1>2. Inv /\ RunReachable => HolderReachable
  <2> SUFFICES ASSUME Inv, RunReachable, NEW s \in Sessions, lock[s] # None, active[s] # lock[s]
               PROVE  \/ \E r \in RunIds : r > lock[s] /\ run[r].session = s
                      \/ run[lock[s]].watch = "over"
    BY DEF HolderReachable
  <2>1. lock[s] \in RunIds
    BY ConstantsAssumption DEF Inv, TypeOK, RunIds, None, ConstantsAssumption
  <2>2. run[lock[s]].session = s /\ Alive(lock[s])
    BY DEF Inv, LockHeld, Alive, Holding
  <2> QED
    BY <2>1, <2>2 DEF RunReachable
<1> QED
  BY Invariance, ReachableInductive, <1>1, <1>2, PTL DEF Spec
=============================================================================
