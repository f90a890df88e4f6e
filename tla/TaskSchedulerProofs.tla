------------------------ MODULE TaskSchedulerProofs ------------------------
(***************************************************************************)
(* Proofs about TaskScheduler: SkipNeverOverlaps, FireExecutedOnce and     *)
(* RatesHeld for every set of tasks, schedules, edits, periods and faults. *)
(*                                                                         *)
(* The commits of a handler are separate steps, so the invariant first     *)
(* lists what a handler can be in the middle of (Working): while it is,    *)
(* neither the clock nor the row it decided upon changes.  Between         *)
(* handlers the next instant of a task that can fire lies ahead of every   *)
(* run of it that was executed or still may be (Ahead).                    *)
(***************************************************************************)
EXTENDS TaskScheduler, FiniteSetTheorems, TLAPS

(***************************************************************************)
(* Arithmetic of the cron slots.                                           *)
(***************************************************************************)
LEMMA DivDef ==
    ASSUME NEW x \in Nat, NEW c \in Nat \ {0}
    PROVE  x \div c \in Nat /\ x % c \in 0..(c - 1) /\ x = c * (x \div c) + (x % c)
BY Z3

\* Of two instants of a schedule the later is a whole period away.
LEMMA MulMono ==
    ASSUME NEW a \in Nat, NEW b \in Nat, NEW c \in Nat \ {0}, a < b
    PROVE  a * c + c <= b * c
BY Z3

\* A later instant is in no earlier slot.
LEMMA DivMono ==
    ASSUME NEW x \in Nat, NEW y \in Nat, NEW c \in Nat \ {0}, x <= y
    PROVE  x \div c <= y \div c
<1>1. x \div c \in Nat /\ x % c \in 0..(c - 1) /\ x = c * (x \div c) + (x % c)
  BY DivDef
<1>2. y \div c \in Nat /\ y % c \in 0..(c - 1) /\ y = c * (y \div c) + (y % c)
  BY DivDef
<1>3. ASSUME y \div c < x \div c PROVE FALSE
  <2>1. (y \div c) * c + c <= (x \div c) * c
    BY <1>1, <1>2, <1>3, MulMono
  <2> QED
    BY <1>1, <1>2, <2>1
<1> QED
  BY <1>1, <1>2, <1>3

\* The next cron instant is later, and in the next slot.
LEMMA NextCron ==
    ASSUME NEW x \in Nat
    PROVE  /\ NextAfter(x) \in Nat /\ NextAfter(x) > x
           /\ NextAfter(x) \div CronPeriod = x \div CronPeriod + 1
<1> DEFINE c == CronPeriod
           q == x \div c
           k == (q + 1) * c
<1>0. c \in Nat \ {0}
  BY BoundsAssumption DEF BoundsAssumption
<1> HIDE DEF c
<1>1. q \in Nat /\ x % c \in 0..(c - 1) /\ x = c * q + (x % c)
  BY <1>0, DivDef
<1> HIDE DEF q
<1>2. k \in Nat /\ k = c * q + c
  BY <1>0, <1>1
<1> HIDE DEF k
<1>3. k \div c \in Nat /\ k % c \in 0..(c - 1) /\ k = c * (k \div c) + (k % c)
  BY <1>0, <1>2, DivDef
<1>4. ASSUME k \div c < q + 1 PROVE FALSE
  <2>1. (k \div c) * c + c <= (q + 1) * c
    BY <1>0, <1>1, <1>3, <1>4, MulMono
  <2> QED
    BY <1>0, <1>1, <1>2, <1>3, <2>1
<1>5. ASSUME k \div c > q + 1 PROVE FALSE
  <2>1. (q + 1) * c + c <= (k \div c) * c
    <3>1. q + 1 \in Nat /\ q + 1 < k \div c
      BY <1>1, <1>3, <1>5
    <3> QED
      BY <1>0, <1>3, <3>1, MulMono
  <2>2. (k \div c) * c <= k
    BY <1>0, <1>3
  <2> QED
    BY <1>0, <1>1, <1>2, <2>1, <2>2
<1>6. k \div c = q + 1
  BY <1>1, <1>3, <1>4, <1>5
<1>7. k > x
  BY <1>0, <1>1, <1>2
<1> QED
  BY <1>2, <1>6, <1>7 DEF NextAfter, k, q, c

(***************************************************************************)
(* The inductive invariant.                                                *)
(***************************************************************************)
Row == [task : Tasks \cup {"none"}, trigger : {"none", "manual", "webhook"} \cup Scheduled,
        status : {"none", "queued", "running"} \cup Terminal, created : Nat,
        started : BOOLEAN, fire : Nat, overlap : {"none", "skip", "queue"}, boot : Nat]

PutState == {NoPut, PutDone} \cup [pc : {"open"}, task : Tasks, seen : Config]

SchedTypeOK ==
    /\ now \in Nat \ {0} /\ up \in BOOLEAN /\ boot \in Nat \ {0}
    /\ cfg \in [Tasks -> Config] /\ next \in [Tasks -> Nat]
    /\ runs \in [RunIds -> Row] /\ rowid \in Nat
    /\ limiter \in [Tasks -> Nat]
    /\ put \in [Puts -> PutState]
    /\ due \in Seq(Tasks) /\ tick \in {"off", "on", "torn"}
    /\ errors \in Nat /\ cuts \in Nat

\* An instant ahead of everything that has happened, for a schedule that fires.
FarAhead(c, at) ==
    Fireable(c) => /\ at > now
                   /\ c.trig = "interval" => at >= now + Period
                   /\ c.trig = "cron" => at \div CronPeriod > now \div CronPeriod

\* What the handler at work on task t has still to commit, and what it has
\* seen: an edit (tick is "off") or one of the branches of _handle.
Working(t) ==
    \/ \E a \in Nat : section = <<SetNext(t, a)>> /\ FarAhead(cfg[t], a)
    \/ \E m \in Config :
          /\ section = <<Write(t, m)>> /\ tick = "off"
          /\ Fireable(m) => Fireable(cfg[t]) /\ m.trig = cfg[t].trig
    \/ \E m \in Config, a \in Nat :
          section = <<Write(t, m), SetNext(t, a)>> /\ tick = "off" /\ FarAhead(m, a)
    \/ /\ section = <<Disable(t), Insert(t, TriggerOf(t)), Mark("ended")>> /\ tick # "off"
    \/ /\ section = <<Insert(t, TriggerOf(t)), Mark("ended")>> /\ next[t] = 0 /\ tick # "off"
    \/ /\ section = <<Mark("ended")>> /\ tick # "off"
    \/ \E a \in Nat :
          /\ section = <<Insert(t, TriggerOf(t)), Mark("skipped"), SetNext(t, a)>>
          /\ FarAhead(cfg[t], a) /\ next[t] <= now /\ tick # "off"
    \/ \E a \in Nat :
          section = <<Mark("skipped"), SetNext(t, a)>> /\ FarAhead(cfg[t], a) /\ tick # "off"
    \/ \E a \in Nat :
          /\ section = <<Insert(t, TriggerOf(t)), SetNext(t, a)>>
          /\ FarAhead(cfg[t], a) /\ Fireable(cfg[t]) /\ next[t] > 0 /\ next[t] <= now
          /\ cfg[t].overlap = "skip" => ~HasActiveRun(t)
          /\ tick # "off"

\* The tick handles each due task once, and none before its time.
TickInv ==
    /\ tick = "off" => due = <<>>
    /\ section # <<>> => up /\ \E t \in Tasks : Working(t) /\ \A i \in 1..Len(due) : due[i] # t
    /\ \A i \in 1..Len(due) : next[due[i]] > 0 /\ next[due[i]] <= now
    /\ \A i, j \in 1..Len(due) : i # j => due[i] # due[j]
    /\ ~up => tick = "off"

\* Rows are numbered as they are inserted, and record the past.
RowInv ==
    \A r \in RunIds : /\ r > rowid => runs[r] = NoRun
                      /\ runs[r].fire <= now /\ runs[r].created <= now
                      /\ runs[r].boot <= boot
                      /\ runs[r].trigger = "webhook" => runs[r].created > 0
                      /\ runs[r].trigger \in Scheduled => runs[r].task \in Tasks

\* The last row is about to be marked as never to run.
Marking(r) == r = rowid /\ section # <<>> /\ Head(section).op = "mark"

\* A row that was executed or still may be.
Counts(r) == runs[r].started \/ (up /\ runs[r].status = "queued" /\ ~Marking(r))

ScheduledRow(r, t) == runs[r].task = t /\ runs[r].trigger \in Scheduled

\* Instant `at` of schedule c comes after what row r answered.
Precedes(r, c, at) ==
    /\ runs[r].fire < at
    /\ runs[r].trigger = c.trig =>
          /\ c.trig = "interval" => at >= runs[r].created + Period
          /\ c.trig = "cron" => at \div CronPeriod > runs[r].created \div CronPeriod

Ahead(t) ==
    Fireable(cfg[t]) /\ next[t] > 0 =>
      \A r \in RunIds : ScheduledRow(r, t) /\ Counts(r) => Precedes(r, cfg[t], next[t])

AheadOfStarted(t) ==
    Fireable(cfg[t]) /\ next[t] > 0 =>
      \A r \in RunIds : ScheduledRow(r, t) /\ runs[r].started => Precedes(r, cfg[t], next[t])

SettingNext(t) == \E a \in Nat : section = <<SetNext(t, a)>>

AheadInv ==
    errors = 0 /\ cuts = 0 =>
      \A t \in Tasks : Ahead(t) \/ (SettingNext(t) /\ (tick = "off" \/ AheadOfStarted(t)))

\* Two rows of a task that count answer different instants, far enough apart.
Spaced(r, q) ==
    /\ runs[r].fire # runs[q].fire
    /\ runs[r].trigger = runs[q].trigger =>
          /\ runs[q].trigger = "interval" => runs[q].created >= runs[r].created + Period
          /\ runs[q].trigger = "cron" =>
                runs[q].created \div CronPeriod > runs[r].created \div CronPeriod

SpacedInv ==
    errors = 0 /\ cuts = 0 =>
      \A t \in Tasks : \A r, q \in RunIds :
         r < q /\ ScheduledRow(r, t) /\ ScheduledRow(q, t) /\ Counts(r) /\ Counts(q) => Spaced(r, q)

OverlapInv ==
    errors = 0 /\ up =>
      \A r, q \in RunIds :
         ActivePair(r, q) /\ runs[q].trigger \in Scheduled /\ ~Marking(q)
           => runs[q].overlap = "queue"

\* The limiter remembers the last webhook run of this process, or it is old.
LimiterInv ==
    /\ up => \A r \in RunIds :
                runs[r].trigger = "webhook" /\ runs[r].boot = boot =>
                   \/ \E t \in Tasks : runs[r].task = t /\ runs[r].created <= limiter[t]
                   \/ runs[r].created + Window <= now
    /\ \A r, q \in RunIds :
          /\ r < q /\ runs[r].task = runs[q].task /\ runs[r].boot = runs[q].boot
          /\ runs[r].trigger = "webhook" /\ runs[q].trigger = "webhook"
          => runs[q].created >= runs[r].created + Window

SchedInv == /\ SchedTypeOK /\ TickInv /\ RowInv /\ AheadInv /\ SpacedInv /\ OverlapInv
            /\ LimiterInv

(***************************************************************************)
(* What is computed is ahead.                                              *)
(***************************************************************************)
LEMMA NextFireAhead ==
    ASSUME SchedTypeOK, NEW c \in Config, Fireable(c), NEW s
    PROVE  NextFire(c, s) \in Nat /\ FarAhead(c, NextFire(c, s))
<1>1. now \in Nat /\ Period \in Nat \ {0} /\ CronPeriod \in Nat \ {0}
  BY BoundsAssumption DEF SchedTypeOK, BoundsAssumption
<1>2. CASE c.trig = "cron"
  <2>1. NextFire(c, s) = NextAfter(now)
    BY <1>2 DEF NextFire
  <2>2. now \div CronPeriod \in Nat
    BY <1>1, DivDef
  <2> QED
    BY <1>1, <1>2, <2>1, <2>2, NextCron DEF FarAhead
<1>3. CASE c.trig = "interval"
  <2>1. NextFire(c, s) = now + c.secs /\ c.secs > 0 /\ c.secs \in {0, Period}
    BY <1>3 DEF NextFire, Fireable, Config
  <2> QED
    BY <1>1, <1>3, <2>1 DEF FarAhead
<1> QED
  BY <1>2, <1>3 DEF Fireable

\* An instant that is computed lies ahead of now, and at least as far as FarAhead says.
LEMMA ComputeAhead ==
    ASSUME SchedTypeOK, NEW c \in Config
    PROVE  ComputeNextRun(c) \in Nat /\ FarAhead(c, ComputeNextRun(c))
<1>1. now \in Nat /\ Period \in Nat \ {0}
  BY BoundsAssumption DEF SchedTypeOK, BoundsAssumption
<1>2. CASE c.trig = "cron"
  <2>1. ComputeNextRun(c) = NextAfter(now)
    BY <1>2 DEF ComputeNextRun
  <2>2. CASE Fireable(c)
    BY <1>2, <2>1, <2>2, NextFireAhead DEF NextFire
  <2>3. CASE ~Fireable(c)
    BY <1>1, <2>1, <2>3, NextCron DEF FarAhead
  <2> QED
    BY <2>2, <2>3
<1>3. CASE c.trig = "interval"
  <2>1. ComputeNextRun(c) = now + c.secs /\ c.secs \in Nat
    BY <1>1, <1>3 DEF ComputeNextRun, Config
  <2>2. CASE Fireable(c)
    BY <1>3, <2>1, <2>2, NextFireAhead DEF NextFire
  <2>3. CASE ~Fireable(c)
    BY <1>1, <2>1, <2>3 DEF FarAhead
  <2> QED
    BY <2>2, <2>3
<1>4. CASE c.trig \notin Scheduled
  BY <1>4 DEF ComputeNextRun, FarAhead, Fireable, Scheduled
<1> QED
  BY <1>2, <1>3, <1>4 DEF Scheduled

(***************************************************************************)
(* A commit, by what the handler is in the middle of.                      *)
(***************************************************************************)
LEMMA Tuples ==
    ASSUME NEW a, NEW b, NEW c
    PROVE  /\ Head(<<a>>) = a /\ Tail(<<a>>) = <<>> /\ <<a>> # <<>>
           /\ Head(<<a, b>>) = a /\ Tail(<<a, b>>) = <<b>> /\ <<a, b>> # <<>>
           /\ Head(<<a, b, c>>) = a /\ Tail(<<a, b, c>>) = <<b, c>> /\ <<a, b, c>> # <<>>
OBVIOUS

SetsNext(t) ==
    \E a \in Nat : /\ section = <<SetNext(t, a)>> /\ FarAhead(cfg[t], a)
                   /\ next' = [next EXCEPT ![t] = a] /\ section' = <<>>
                   /\ UNCHANGED <<cfg, runs, rowid>>

Edits(t) ==
    \E m \in Config : /\ section = <<Write(t, m)>>
                      /\ Fireable(m) => Fireable(cfg[t]) /\ m.trig = cfg[t].trig
                      /\ cfg' = [cfg EXCEPT ![t] = m] /\ section' = <<>>
                      /\ UNCHANGED <<next, runs, rowid>>

BeginsEdit(t) ==
    \E m \in Config, a \in Nat :
       /\ section = <<Write(t, m), SetNext(t, a)>> /\ tick = "off" /\ FarAhead(m, a)
       /\ cfg' = [cfg EXCEPT ![t] = m] /\ section' = <<SetNext(t, a)>>
       /\ UNCHANGED <<next, runs, rowid>>

Disables(t) ==
    /\ section = <<Disable(t), Insert(t, TriggerOf(t)), Mark("ended")>> /\ tick # "off"
    /\ cfg' = [cfg EXCEPT ![t].enabled = FALSE] /\ next' = [next EXCEPT ![t] = 0]
    /\ section' = <<Insert(t, TriggerOf(t)), Mark("ended")>>
    /\ UNCHANGED <<runs, rowid>>

\* A row that is going to be marked at once.
InsertsMarked(t) ==
    /\ InsertRun(t, TriggerOf(t)) /\ next[t] <= now /\ tick # "off"
    /\ UNCHANGED <<cfg, next>>
    /\ Head(section).op = "insert"
    /\ \/ section' = <<Mark("ended")>>
       \/ \E a \in Nat : section' = <<Mark("skipped"), SetNext(t, a)>> /\ FarAhead(cfg[t], a)

Marks(t) ==
    /\ section # <<>> /\ Head(section).op = "mark" /\ tick # "off"
    /\ \E s \in Terminal : runs' = [runs EXCEPT ![rowid].status = s]
    /\ UNCHANGED <<cfg, next, rowid>>
    /\ \/ section' = <<>>
       \/ \E a \in Nat : section' = <<SetNext(t, a)>> /\ FarAhead(cfg[t], a)

Fires(t) ==
    \E a \in Nat :
       /\ section = <<Insert(t, TriggerOf(t)), SetNext(t, a)>> /\ section' = <<SetNext(t, a)>>
       /\ FarAhead(cfg[t], a) /\ Fireable(cfg[t]) /\ next[t] > 0 /\ next[t] <= now
       /\ cfg[t].overlap = "skip" => ~HasActiveRun(t)
       /\ InsertRun(t, TriggerOf(t)) /\ tick # "off"
       /\ UNCHANGED <<cfg, next>>

CommitMove(t) == \/ SetsNext(t) \/ Edits(t) \/ BeginsEdit(t) \/ Disables(t)
                 \/ InsertsMarked(t) \/ Marks(t) \/ Fires(t)

\* What each kind of commit writes.
LEMMA Applied ==
    ASSUME NEW t, NEW x
    PROVE  /\ Apply(SetNext(t, x)) => next' = [next EXCEPT ![t] = x] /\ UNCHANGED <<cfg, runs, rowid>>
           /\ Apply(Write(t, x)) => cfg' = [cfg EXCEPT ![t] = x] /\ UNCHANGED <<next, runs, rowid>>
           /\ Apply(Disable(t)) => /\ cfg' = [cfg EXCEPT ![t].enabled = FALSE]
                                   /\ next' = [next EXCEPT ![t] = 0] /\ UNCHANGED <<runs, rowid>>
           /\ Apply(Insert(t, x)) => InsertRun(t, x) /\ UNCHANGED <<cfg, next>>
           /\ Apply(Mark(x)) => /\ runs' = [runs EXCEPT ![rowid].status = x]
                                /\ UNCHANGED <<cfg, next, rowid>>
           /\ Insert(t, x).op = "insert" /\ Mark(x).op = "mark"
<1>1. Apply(SetNext(t, x)) => next' = [next EXCEPT ![t] = x] /\ UNCHANGED <<cfg, runs, rowid>>
  BY DEF Apply, SetNext
<1>2. Apply(Write(t, x)) => cfg' = [cfg EXCEPT ![t] = x] /\ UNCHANGED <<next, runs, rowid>>
  BY DEF Apply, Write
<1>3. Apply(Disable(t)) => /\ cfg' = [cfg EXCEPT ![t].enabled = FALSE]
                           /\ next' = [next EXCEPT ![t] = 0] /\ UNCHANGED <<runs, rowid>>
  BY DEF Apply, Disable
<1>4. Apply(Insert(t, x)) => InsertRun(t, x) /\ UNCHANGED <<cfg, next>>
  BY DEF Apply, Insert
<1>5. Apply(Mark(x)) => runs' = [runs EXCEPT ![rowid].status = x] /\ UNCHANGED <<cfg, next, rowid>>
  BY DEF Apply, Mark
<1> QED
  BY <1>1, <1>2, <1>3, <1>4, <1>5 DEF Insert, Mark

\* A commit of a handler touches one task, and none that still waits in the tick's list.
LEMMA CommitMoves ==
    ASSUME SchedTypeOK, TickInv, Commit
    PROVE  /\ up /\ UNCHANGED <<now, up, boot, exists, limiter, put, due, tick, errors, cuts>>
           /\ \E t \in Tasks : CommitMove(t) /\ \A i \in 1..Len(due) : due[i] # t
<1>0. /\ section # <<>> /\ up /\ Apply(Head(section)) /\ section' = Tail(section)
      /\ UNCHANGED <<now, up, boot, exists, limiter, put, due, tick, errors, cuts>>
  BY DEF Commit
<1>1. PICK t \in Tasks : Working(t) /\ \A i \in 1..Len(due) : due[i] # t
  BY <1>0 DEF TickInv
<1>2. ASSUME NEW a \in Nat, section = <<SetNext(t, a)>>, FarAhead(cfg[t], a) PROVE SetsNext(t)
  <2>1. Head(section) = SetNext(t, a) /\ section' = <<>>
    BY <1>0, <1>2, Tuples
  <2> QED
    BY <1>0, <1>2, <2>1, Applied DEF SetsNext
<1>3. ASSUME NEW m \in Config, section = <<Write(t, m)>>,
             Fireable(m) => Fireable(cfg[t]) /\ m.trig = cfg[t].trig
      PROVE  Edits(t)
  <2>1. Head(section) = Write(t, m) /\ section' = <<>>
    BY <1>0, <1>3, Tuples
  <2> QED
    BY <1>0, <1>3, <2>1, Applied DEF Edits
<1>4. ASSUME NEW m \in Config, NEW a \in Nat, section = <<Write(t, m), SetNext(t, a)>>,
             tick = "off", FarAhead(m, a)
      PROVE  BeginsEdit(t)
  <2>1. Head(section) = Write(t, m) /\ section' = <<SetNext(t, a)>>
    BY <1>0, <1>4, Tuples
  <2> QED
    BY <1>0, <1>4, <2>1, Applied DEF BeginsEdit
<1>5. ASSUME section = <<Disable(t), Insert(t, TriggerOf(t)), Mark("ended")>>, tick # "off"
      PROVE  Disables(t)
  <2>1. Head(section) = Disable(t) /\ section' = <<Insert(t, TriggerOf(t)), Mark("ended")>>
    BY <1>0, <1>5, Tuples
  <2> QED
    BY <1>0, <1>5, <2>1, Applied DEF Disables
<1>6. ASSUME section = <<Insert(t, TriggerOf(t)), Mark("ended")>>, next[t] = 0, tick # "off"
      PROVE  InsertsMarked(t)
  <2>1. Head(section) = Insert(t, TriggerOf(t)) /\ section' = <<Mark("ended")>>
    BY <1>0, <1>6, Tuples
  <2>2. next[t] <= now
    BY <1>6 DEF SchedTypeOK
  <2> QED
    BY <1>0, <1>6, <2>1, <2>2, Applied DEF InsertsMarked
<1>7. ASSUME section = <<Mark("ended")>>, tick # "off" PROVE Marks(t)
  <2>1. Head(section) = Mark("ended") /\ section' = <<>>
    BY <1>0, <1>7, Tuples
  <2> QED
    BY <1>0, <1>7, <2>1, Applied DEF Marks, Terminal
<1>8. ASSUME NEW a \in Nat, section = <<Insert(t, TriggerOf(t)), Mark("skipped"), SetNext(t, a)>>,
             FarAhead(cfg[t], a), next[t] <= now, tick # "off"
      PROVE  InsertsMarked(t)
  <2>1. Head(section) = Insert(t, TriggerOf(t)) /\ section' = <<Mark("skipped"), SetNext(t, a)>>
    BY <1>0, <1>8, Tuples
  <2> QED
    BY <1>0, <1>8, <2>1, Applied DEF InsertsMarked
<1>9. ASSUME NEW a \in Nat, section = <<Mark("skipped"), SetNext(t, a)>>, FarAhead(cfg[t], a), tick # "off"
      PROVE  Marks(t)
  <2>1. Head(section) = Mark("skipped") /\ section' = <<SetNext(t, a)>>
    BY <1>0, <1>9, Tuples
  <2> QED
    BY <1>0, <1>9, <2>1, Applied DEF Marks, Terminal
<1>10. ASSUME NEW a \in Nat, section = <<Insert(t, TriggerOf(t)), SetNext(t, a)>>,
              FarAhead(cfg[t], a), Fireable(cfg[t]), next[t] > 0, next[t] <= now,
              cfg[t].overlap = "skip" => ~HasActiveRun(t), tick # "off"
       PROVE  Fires(t)
  <2>1. Head(section) = Insert(t, TriggerOf(t)) /\ section' = <<SetNext(t, a)>>
    BY <1>0, <1>10, Tuples
  <2> QED
    BY <1>0, <1>10, <2>1, Applied DEF Fires
<1>11. CommitMove(t)
  BY <1>1, <1>2, <1>3, <1>4, <1>5, <1>6, <1>7, <1>8, <1>9, <1>10 DEF Working, CommitMove
<1> QED
  BY <1>0, <1>1, <1>11

(***************************************************************************)
(* Types.                                                                  *)
(***************************************************************************)
LEMMA NewRunRow ==
    ASSUME SchedTypeOK, NEW t \in Tasks, NEW g \in {"manual", "webhook"} \cup Scheduled
    PROVE  /\ NewRun(t, g) \in Row /\ NewRun(t, g).task = t /\ NewRun(t, g).trigger = g
           /\ NewRun(t, g).status = "queued" /\ ~NewRun(t, g).started
           /\ NewRun(t, g).created = (IF g = "manual" THEN 0 ELSE now)
           /\ NewRun(t, g).fire = (IF g \in Scheduled THEN next[t] ELSE 0)
           /\ g \in Scheduled => NewRun(t, g).overlap = cfg[t].overlap
           /\ NewRun(t, g).boot = (IF g = "webhook" THEN boot ELSE 0)
<1>1. cfg[t].overlap \in {"skip", "queue"} /\ next[t] \in Nat /\ now \in Nat /\ boot \in Nat
  BY DEF SchedTypeOK, Config
<1>2. NewRun(t, g) \in Row
  BY <1>1 DEF NewRun, Row
<1>3. NewRun(t, g).fire = (IF g \in Scheduled THEN next[t] ELSE 0)
  BY DEF NewRun
<1>4. NewRun(t, g).boot = (IF g = "webhook" THEN boot ELSE 0)
  BY DEF NewRun
<1>5. g \in Scheduled => NewRun(t, g).overlap = cfg[t].overlap
  BY DEF NewRun, Scheduled
<1>6. NewRun(t, g).created = (IF g = "manual" THEN 0 ELSE now)
  BY DEF NewRun
<1>7. /\ NewRun(t, g).task = t /\ NewRun(t, g).trigger = g
      /\ NewRun(t, g).status = "queued" /\ NewRun(t, g).started = FALSE
  BY DEF NewRun
<1> QED
  BY <1>2, <1>3, <1>4, <1>5, <1>6, <1>7

\* What a fire is recorded as: the trigger of a task that can fire.
LEMMA TriggerOfType ==
    ASSUME SchedTypeOK, NEW t \in Tasks
    PROVE  /\ TriggerOf(t) \in {"manual", "webhook"} \cup Scheduled /\ TriggerOf(t) # "webhook"
           /\ Fireable(cfg[t]) => TriggerOf(t) = cfg[t].trig /\ TriggerOf(t) \in Scheduled
BY DEF TriggerOf, Fireable, Scheduled

\* Inserting a row leaves the others alone.
LEMMA RowInserted ==
    ASSUME SchedTypeOK, NEW t \in Tasks, NEW g \in {"manual", "webhook"} \cup Scheduled, InsertRun(t, g)
    PROVE  /\ rowid' \in Nat /\ rowid' = rowid + 1 /\ runs' \in [RunIds -> Row]
           /\ \A r \in RunIds : r # rowid' => runs'[r] = runs[r]
           /\ rowid' \in RunIds => runs'[rowid'] = NewRun(t, g)
<1>1. rowid \in Nat /\ runs \in [RunIds -> Row] /\ NewRun(t, g) \in Row
  BY NewRunRow DEF SchedTypeOK
<1>2. rowid' = rowid + 1 /\ runs' = [runs EXCEPT ![rowid + 1] = NewRun(t, g)]
  BY DEF InsertRun
<1>3. rowid' \in Nat
  BY <1>1, <1>2
<1>4. runs' = [runs EXCEPT ![rowid'] = NewRun(t, g)]
  BY <1>2
<1>5. runs' \in [RunIds -> Row]
  BY <1>1, <1>4
<1> QED
  BY <1>1, <1>2, <1>3, <1>4, <1>5

\* A new value for one column of a row.
LEMMA RowMarked ==
    ASSUME SchedTypeOK, NEW s \in {"ended", "skipped"}, runs' = [runs EXCEPT ![rowid].status = s]
    PROVE  /\ runs' \in [RunIds -> Row]
           /\ \A r \in RunIds : r # rowid => runs'[r] = runs[r]
           /\ rowid \in RunIds => runs'[rowid] = [runs[rowid] EXCEPT !.status = s]
<1>1. runs \in [RunIds -> Row]
  BY DEF SchedTypeOK
<1>2. \A r \in RunIds : [runs[r] EXCEPT !.status = s] \in Row
  BY <1>1 DEF Row, Terminal
<1> QED
  BY <1>1, <1>2

\* Columns other than the status and the start of a row.
SameRow(r) ==
    /\ runs'[r].task = runs[r].task /\ runs'[r].trigger = runs[r].trigger
    /\ runs'[r].fire = runs[r].fire /\ runs'[r].created = runs[r].created
    /\ runs'[r].overlap = runs[r].overlap /\ runs'[r].boot = runs[r].boot

\* What the runner and a restart do to the rows.
RowsRun ==
    /\ runs' \in [RunIds -> Row]
    /\ \A r \in RunIds :
          \/ runs'[r] = runs[r]
          \/ /\ runs[r].status = "queued" /\ Idle /\ SameRow(r)
             /\ runs'[r].status = "running"
          \/ /\ runs[r].status \in Active /\ SameRow(r) /\ runs'[r].status = "ended"
             /\ runs'[r].started = runs[r].started

\* A claim inserts no row: it sets one that is queued to running.
LEMMA RunnerRows == ASSUME SchedTypeOK, Claim PROVE RowsRun
<1>1. runs \in [RunIds -> Row] /\ Idle
  BY DEF SchedTypeOK, Claim
<1>2. PICK r \in Queued : runs' = [runs EXCEPT ![r].status = "running", ![r].started = TRUE]
  BY DEF Claim
<1>3. r \in RunIds /\ runs[r].status = "queued" /\ runs[r] \in Row
  BY <1>1 DEF Queued
<1> DEFINE x == [[runs[r] EXCEPT !.status = "running"] EXCEPT !.started = TRUE]
<1>4. x \in Row /\ x.status = "running" /\ x.task = runs[r].task /\ x.trigger = runs[r].trigger
      /\ x.fire = runs[r].fire /\ x.created = runs[r].created /\ x.overlap = runs[r].overlap
      /\ x.boot = runs[r].boot
  BY <1>3 DEF Row
<1>5. runs' = [runs EXCEPT ![r] = x]
  BY <1>1, <1>2, <1>3
<1> HIDE DEF x
<1>6. runs' \in [RunIds -> Row] /\ runs'[r] = x /\ \A q \in RunIds : q # r => runs'[q] = runs[q]
  BY <1>1, <1>3, <1>4, <1>5
<1> QED
  BY <1>1, <1>3, <1>4, <1>6 DEF RowsRun, SameRow

\* The end of a run and a restart insert none either; after a restart none is active.
LEMMA EndedRows ==
    ASSUME SchedTypeOK, \/ \E r \in RunIds : FinishRun(r)
                        \/ Restart
    PROVE  RowsRun /\ (Restart => \A r \in RunIds : runs'[r].status \notin Active)
<1>1. runs \in [RunIds -> Row]
  BY DEF SchedTypeOK
<1>2. \A r \in RunIds : /\ [runs[r] EXCEPT !.status = "ended"] \in Row
                        /\ [runs[r] EXCEPT !.status = "ended"].status = "ended"
                        /\ [runs[r] EXCEPT !.status = "ended"].task = runs[r].task
                        /\ [runs[r] EXCEPT !.status = "ended"].trigger = runs[r].trigger
                        /\ [runs[r] EXCEPT !.status = "ended"].fire = runs[r].fire
                        /\ [runs[r] EXCEPT !.status = "ended"].created = runs[r].created
                        /\ [runs[r] EXCEPT !.status = "ended"].overlap = runs[r].overlap
                        /\ [runs[r] EXCEPT !.status = "ended"].boot = runs[r].boot
                        /\ [runs[r] EXCEPT !.status = "ended"].started = runs[r].started
  BY <1>1 DEF Row, Terminal
<1>3. /\ runs' \in [RunIds -> Row]
      /\ \A r \in RunIds : \/ runs'[r] = runs[r]
                           \/ runs[r].status \in Active /\ runs'[r] = [runs[r] EXCEPT !.status = "ended"]
  <2>1. CASE Restart
    BY <1>1, <1>2, <2>1 DEF Restart, RequeueOrphanedRuns
  <2>2. CASE \E r \in RunIds : FinishRun(r)
    BY <1>1, <1>2, <2>2 DEF FinishRun, Active
  <2> QED
    BY <2>1, <2>2
<1>4. ASSUME Restart PROVE \A r \in RunIds : runs'[r].status \notin Active
  BY <1>1, <1>2, <1>4 DEF Restart, RequeueOrphanedRuns, Active
<1>5. RowsRun
  BY <1>2, <1>3 DEF RowsRun, SameRow
<1> QED
  BY <1>4, <1>5

\* Every step keeps the types.
LEMMA TypeStep == ASSUME SchedTypeOK, TickInv, [Next]_vars PROVE SchedTypeOK'
<1>0. /\ now \in Nat \ {0} /\ boot \in Nat \ {0} /\ rowid \in Nat /\ errors \in Nat /\ cuts \in Nat
      /\ cfg \in [Tasks -> Config] /\ next \in [Tasks -> Nat] /\ runs \in [RunIds -> Row]
      /\ limiter \in [Tasks -> Nat] /\ put \in [Puts -> PutState] /\ due \in Seq(Tasks)
  BY DEF SchedTypeOK
<1>1. CASE Commit
  <2>1. PICK t \in Tasks : CommitMove(t)
    BY <1>1, CommitMoves
  <2>2. cfg' \in [Tasks -> Config]
    <3>1. CASE Disables(t)
      <4>1. [cfg[t] EXCEPT !.enabled = FALSE] \in Config
        BY <1>0 DEF Config
      <4> QED
        BY <1>0, <3>1, <4>1 DEF Disables
    <3>2. CASE ~Disables(t)
      BY <1>0, <2>1, <3>2 DEF CommitMove, SetsNext, Edits, BeginsEdit, InsertsMarked, Marks, Fires
    <3> QED
      BY <3>1, <3>2
  <2>3. next' \in [Tasks -> Nat]
    BY <1>0, <2>1 DEF CommitMove, SetsNext, Edits, BeginsEdit, Disables, InsertsMarked, Marks, Fires
  <2>4. rowid' \in Nat /\ runs' \in [RunIds -> Row]
    <3>1. CASE InsertsMarked(t) \/ Fires(t)
      BY <3>1, RowInserted, TriggerOfType DEF InsertsMarked, Fires
    <3>2. CASE Marks(t)
      BY <1>0, <3>2, RowMarked DEF Marks, Terminal
    <3>3. CASE ~InsertsMarked(t) /\ ~Fires(t) /\ ~Marks(t)
      BY <1>0, <2>1, <3>3 DEF CommitMove, SetsNext, Edits, BeginsEdit, Disables
    <3> QED
      BY <3>1, <3>2, <3>3
  <2> QED
    BY <1>1, <2>2, <2>3, <2>4, CommitMoves DEF SchedTypeOK
<1>2. CASE CommitRaises
  <2>1. errors' \in Nat
    BY <1>0, <1>2 DEF CommitRaises
  <2>2. tick' \in {"off", "on", "torn"}
    BY <1>2 DEF CommitRaises, SchedTypeOK
  <2> QED
    BY <1>2, <2>1, <2>2 DEF CommitRaises, SchedTypeOK
<1>3. CASE TickStart
  <2> DEFINE D == {t \in Tasks : IsDue(t)}
  <2>1. Cardinality(D) \in Nat
    BY BoundsAssumption, FS_Subset, FS_CardinalityType DEF BoundsAssumption
  <2>2. due' \in Seq(Tasks)
    BY <1>3, <2>1 DEF TickStart, DueOrders
  <2> QED
    BY <1>0, <1>3, <2>2 DEF TickStart, SchedTypeOK
<1>4. CASE TickHandle \/ TickEnd
  <2>1. due' \in Seq(Tasks) /\ tick' \in {"off", "on", "torn"}
    <3>1. \/ due # <<>> /\ due' = Tail(due) /\ tick' = tick
          \/ due' = due /\ tick' = "off"
      BY <1>4 DEF TickHandle, TickEnd
    <3>2. due # <<>> => Tail(due) \in Seq(Tasks)
      BY <1>0
    <3> QED
      BY <1>0, <3>1, <3>2 DEF SchedTypeOK
  <2>2. UNCHANGED <<now, up, boot, cfg, exists, next, runs, rowid, limiter, put, errors, cuts>>
    BY <1>4 DEF TickHandle, TickEnd
  <2> QED
    BY <2>1, <2>2 DEF SchedTypeOK
<1>5. ASSUME NEW t \in Tasks, NEW c \in Configs, CreateTask(t, c) PROVE SchedTypeOK'
  <2>1. c \in Config
    BY BoundsAssumption DEF BoundsAssumption
  <2>2. cfg' \in [Tasks -> Config] /\ next' \in [Tasks -> Nat]
    BY <1>0, <1>5, <2>1, ComputeAhead DEF CreateTask
  <2> QED
    BY <1>0, <1>5, <2>2 DEF CreateTask, SchedTypeOK
<1>6. ASSUME NEW p \in Puts, NEW t \in Tasks, PutBegin(p, t) PROVE SchedTypeOK'
  <2>1. [pc |-> "open", task |-> t, seen |-> cfg[t]] \in PutState
    BY <1>0 DEF PutState
  <2>2. put' \in [Puts -> PutState]
    BY <1>0, <1>6, <2>1 DEF PutBegin
  <2> QED
    BY <1>0, <1>6, <2>2 DEF PutBegin, SchedTypeOK
<1>7. ASSUME NEW p \in Puts, NEW patch \in Patches, PutCommit(p, patch) PROVE SchedTypeOK'
  <2>1. put' \in [Puts -> PutState]
    BY <1>0, <1>7 DEF PutCommit, PutState
  <2> QED
    BY <1>0, <1>7, <2>1 DEF PutCommit, SchedTypeOK
<1>8. ASSUME NEW t \in Tasks, RunNow(t) PROVE SchedTypeOK'
  <2>1. rowid' \in Nat /\ runs' \in [RunIds -> Row]
    BY <1>8, RowInserted DEF RunNow
  <2> QED
    BY <1>0, <1>8, <2>1 DEF RunNow, SchedTypeOK
<1>9. ASSUME NEW t \in Tasks, WebhookTrigger(t) PROVE SchedTypeOK'
  <2>1. rowid' \in Nat /\ runs' \in [RunIds -> Row]
    BY <1>9, RowInserted DEF WebhookTrigger
  <2>2. PrunedLimiter \in [Tasks -> Nat]
    BY <1>0 DEF PrunedLimiter
  <2>3. limiter' \in [Tasks -> Nat]
    BY <1>0, <1>9, <2>2 DEF WebhookTrigger, Allow
  <2> QED
    BY <1>0, <1>9, <2>1, <2>3 DEF WebhookTrigger, SchedTypeOK
<1>10. CASE Claim
  <2>1. runs' \in [RunIds -> Row]
    BY <1>10, RunnerRows DEF RowsRun
  <2> QED
    BY <1>0, <1>10, <2>1 DEF Claim, SchedTypeOK
<1>11. ASSUME NEW r \in RunIds, FinishRun(r) PROVE SchedTypeOK'
  <2>1. runs' \in [RunIds -> Row]
    BY <1>11, EndedRows DEF RowsRun
  <2> QED
    BY <1>0, <1>11, <2>1 DEF FinishRun, SchedTypeOK
<1>12. CASE Advance
  BY <1>0, <1>12 DEF Advance, SchedTypeOK
<1>13. CASE Crash
  <2>1. put' \in [Puts -> PutState]
    BY <1>0, <1>13 DEF Crash, PutState
  <2>2. limiter' \in [Tasks -> Nat] /\ cuts' \in Nat
    BY <1>0, <1>13 DEF Crash
  <2>3. /\ due' \in Seq(Tasks) /\ tick' \in {"off", "on", "torn"}
        /\ UNCHANGED <<now, boot, cfg, next, runs, rowid, errors>>
    BY <1>13 DEF Crash
  <2>4. up' \in BOOLEAN
    <3>1. up' = FALSE
      BY <1>13, Zenon DEF Crash
    <3> QED
      BY <3>1
  <2> QED
    BY <2>1, <2>2, <2>3, <2>4 DEF SchedTypeOK
<1>14. CASE Restart
  <2>1. runs' \in [RunIds -> Row]
    BY <1>14, EndedRows DEF RowsRun
  <2>2. boot' \in Nat \ {0}
    BY <1>0, <1>14 DEF Restart
  <2> QED
    BY <1>14, <2>1, <2>2 DEF Restart, SchedTypeOK
<1>15. CASE UNCHANGED vars
  BY <1>15 DEF vars, SchedTypeOK
<1> QED
  BY <1>1, <1>2, <1>3, <1>4, <1>5, <1>6, <1>7, <1>8, <1>9, <1>10, <1>11, <1>12, <1>13, <1>14, <1>15
     DEF Next

(***************************************************************************)
(* The handler at work.                                                    *)
(***************************************************************************)
\* Each branch of _handle.
LEMMA HandleWorks ==
    ASSUME SchedTypeOK, NEW t \in Tasks, next[t] > 0, next[t] <= now, tick # "off",
           section' = Handle(t), UNCHANGED <<now, cfg, next, runs, tick>>
    PROVE  Working(t)' /\ section' # <<>>
<1>0. cfg[t] \in Config /\ cfg'[t] = cfg[t] /\ TriggerOf(t)' = TriggerOf(t)
      /\ HasActiveRun(t)' = HasActiveRun(t)
  BY DEF SchedTypeOK, TriggerOf, HasActiveRun
<1>9. PICK at : at = NextFire(cfg[t], next[t])
  OBVIOUS
<1>1. Fireable(cfg[t]) => at \in Nat /\ FarAhead(cfg[t], at)
  BY <1>0, <1>9, NextFireAhead
<1>2. \A a : FarAhead(cfg[t], a)' <=> FarAhead(cfg[t], a)
  BY <1>0 DEF FarAhead
<1>3. CASE ~Fireable(cfg[t])
  <2>1. section' = <<Disable(t), Insert(t, TriggerOf(t)), Mark("ended")>>
    BY <1>3 DEF Handle, BrokenWrites
  <2> QED
    BY <1>0, <2>1, Tuples DEF Working, Disable, Insert, Mark
<1>4. CASE Fireable(cfg[t]) /\ section' = <<SetNext(t, at)>>
  <2> SUFFICES \E a \in Nat : section' = <<SetNext(t, a)>> /\ FarAhead(cfg[t], a)'
    BY <1>4, Tuples DEF Working, SetNext
  <2> QED
    BY <1>1, <1>2, <1>4
<1>5. CASE Fireable(cfg[t]) /\ section' = <<Insert(t, TriggerOf(t)), Mark("skipped"), SetNext(t, at)>>
  BY <1>0, <1>1, <1>2, <1>5, Tuples DEF Working, SetNext, Insert, Mark
<1>6. CASE /\ Fireable(cfg[t]) /\ section' = <<Insert(t, TriggerOf(t)), SetNext(t, at)>>
           /\ cfg[t].overlap = "skip" => ~HasActiveRun(t)
  BY <1>0, <1>1, <1>2, <1>6, Tuples DEF Working, SetNext, Insert
<1> QED
  BY <1>3, <1>4, <1>5, <1>6, <1>9 DEF Handle, MissedWrites, SkipWrites, FireWrites

\* Both forms of an edit.
LEMMA EditWorks ==
    ASSUME SchedTypeOK, NEW t \in Tasks, NEW patch \in Patches, tick = "off",
           section' = UpdateWrites(t, patch), UNCHANGED <<now, cfg, tick>>
    PROVE  Working(t)' /\ section' # <<>>
<1>0. cfg[t] \in Config
  BY DEF SchedTypeOK
<1>1. PICK m : m = Merge(patch, cfg[t])
  OBVIOUS
<1>2. m \in Config
  BY <1>0, <1>1, PatchesAssumption DEF PatchesAssumption, Merge
<1>3. ASSUME DOMAIN patch \cap Recomputed = {} PROVE Fireable(m) => Fireable(cfg[t]) /\ m.trig = cfg[t].trig
  <2>1. DOMAIN cfg[t] = {"enabled", "trig", "cronOk", "secs", "overlap", "catchup"}
    BY <1>0 DEF Config
  <2>2. "trig" \notin DOMAIN patch /\ "cronOk" \notin DOMAIN patch /\ "secs" \notin DOMAIN patch
    BY <1>3 DEF Recomputed
  <2>3. m["trig"] = cfg[t]["trig"] /\ m["cronOk"] = cfg[t]["cronOk"] /\ m["secs"] = cfg[t]["secs"]
    BY <1>1, <2>1, <2>2 DEF Merge
  <2> QED
    BY <2>3 DEF Fireable
<1>4. ASSUME m.trig = "cron" /\ ~m.cronOk PROVE ~Fireable(m)
  BY <1>4 DEF Fireable
<1>5. CASE section' = <<Write(t, m)>> /\ (Fireable(m) => Fireable(cfg[t]) /\ m.trig = cfg[t].trig)
  BY <1>2, <1>5, Tuples DEF Working, Write
<1>6. CASE section' = <<Write(t, m), SetNext(t, ComputeNextRun(m))>>
  <2>1. PICK a : a = ComputeNextRun(m)
    OBVIOUS
  <2>2. a \in Nat /\ FarAhead(m, a)
    BY <1>2, <2>1, ComputeAhead
  <2>3. section' = <<Write(t, m), SetNext(t, a)>> /\ tick' = "off" /\ FarAhead(m, a)'
    BY <1>6, <2>1, <2>2 DEF FarAhead
  <2> QED
    BY <1>2, <2>2, <2>3, Tuples DEF Working, Write, SetNext
<1> QED
  BY <1>1, <1>3, <1>4, <1>5, <1>6 DEF UpdateWrites

\* The tick's part of the invariant.
LEMMA TickStep == ASSUME SchedTypeOK, TickInv, [Next]_vars PROVE TickInv'
<1>0. /\ tick = "off" => due = <<>>
      /\ \A i \in 1..Len(due) : next[due[i]] > 0 /\ next[due[i]] <= now /\ due[i] \in Tasks
      /\ \A i, j \in 1..Len(due) : i # j => due[i] # due[j]
      /\ ~up => tick = "off"
      /\ section # <<>> => up
      /\ due \in Seq(Tasks)
  BY DEF TickInv, SchedTypeOK
<1>1. CASE Commit
  <2>1. PICK t \in Tasks : CommitMove(t) /\ \A i \in 1..Len(due) : due[i] # t
    BY <1>1, CommitMoves
  <2>2. up /\ UNCHANGED <<now, up, boot, exists, limiter, put, due, tick, errors, cuts>>
    BY <1>1, CommitMoves
  <2>3. \A i \in 1..Len(due) : next'[due[i]] = next[due[i]]
    BY <1>0, <2>1 DEF CommitMove, SetsNext, Edits, BeginsEdit, Disables, InsertsMarked, Marks, Fires,
                      SchedTypeOK
  <2>4. section' # <<>> => Working(t)'
    <3>1. CASE SetsNext(t) \/ Edits(t)
      BY <3>1 DEF SetsNext, Edits
    <3>2. ASSUME NEW a \in Nat, section' = <<SetNext(t, a)>>, FarAhead(cfg[t], a)'
          PROVE  Working(t)'
      BY <3>2 DEF Working
    <3>3. CASE BeginsEdit(t)
      <4>1. PICK m \in Config, a \in Nat : /\ FarAhead(m, a) /\ cfg' = [cfg EXCEPT ![t] = m]
                                          /\ section' = <<SetNext(t, a)>>
        BY <3>3 DEF BeginsEdit
      <4>2. cfg'[t] = m
        BY <4>1 DEF SchedTypeOK
      <4>3. FarAhead(cfg[t], a)'
        BY <2>2, <4>1, <4>2 DEF FarAhead
      <4> QED
        BY <3>2, <4>1, <4>3
    <3>4. CASE Disables(t)
      <4>1. next'[t] = 0 /\ cfg'[t].trig = cfg[t].trig
        BY <3>4 DEF Disables, SchedTypeOK, Config
      <4>2. TriggerOf(t)' = TriggerOf(t)
        BY <4>1 DEF TriggerOf
      <4>3. section' = <<Insert(t, TriggerOf(t)'), Mark("ended")>> /\ tick' # "off"
        BY <2>2, <3>4, <4>2 DEF Disables
      <4> QED
        BY <4>1, <4>3 DEF Working, Insert, Mark
    <3>5. CASE InsertsMarked(t)
      <4>1. \A a : FarAhead(cfg[t], a) => FarAhead(cfg[t], a)'
        BY <2>2, <3>5 DEF InsertsMarked, FarAhead
      <4>2. \/ section' = <<Mark("ended")>> /\ tick' # "off"
            \/ \E a \in Nat : /\ section' = <<Mark("skipped"), SetNext(t, a)>> /\ tick' # "off"
                              /\ FarAhead(cfg[t], a)'
        BY <2>2, <3>5, <4>1 DEF InsertsMarked
      <4> QED
        BY <4>2 DEF Working, Mark, SetNext
    <3>6. CASE Marks(t)
      <4>1. \A a : FarAhead(cfg[t], a) => FarAhead(cfg[t], a)'
        BY <2>2, <3>6 DEF Marks, FarAhead
      <4> QED
        BY <3>2, <3>6, <4>1 DEF Marks
    <3>7. CASE Fires(t)
      <4>1. PICK a \in Nat : FarAhead(cfg[t], a) /\ section' = <<SetNext(t, a)>> /\ cfg' = cfg
        BY <3>7 DEF Fires
      <4>2. FarAhead(cfg[t], a)'
        BY <2>2, <4>1 DEF FarAhead
      <4> QED
        BY <3>2, <4>1, <4>2
    <3> QED
      BY <2>1, <3>1, <3>3, <3>4, <3>5, <3>6, <3>7 DEF CommitMove
  <2> QED
    BY <1>0, <2>1, <2>2, <2>3, <2>4 DEF TickInv
<1>2. CASE CommitRaises
  <2>1. section' = <<>> /\ UNCHANGED <<due, up, now, next>> /\ (tick' = "off" => tick = "off")
    BY <1>2 DEF CommitRaises
  <2>2. up /\ up'
    BY <1>2 DEF CommitRaises
  <2> QED
    BY <1>0, <2>1, <2>2 DEF TickInv
<1>3. CASE TickStart
  <2> DEFINE D == {t \in Tasks : IsDue(t)}
  <2>1. Cardinality(D) \in Nat
    BY BoundsAssumption, FS_Subset, FS_CardinalityType DEF BoundsAssumption
  <2>2. PICK n \in Nat : /\ due' \in [1..n -> D]
                         /\ \A i, j \in DOMAIN due' : i < j => due'[i] # due'[j]
    BY <1>3, <2>1 DEF TickStart, DueOrders
  <2>3. Len(due') = n /\ DOMAIN due' = 1..n /\ \A i \in 1..n : due'[i] \in D
    BY <2>2
  <2>4. \A i \in 1..n : next[due'[i]] > 0 /\ next[due'[i]] <= now
    BY <2>3 DEF IsDue
  <2>5. \A i, j \in 1..n : i # j => due'[i] # due'[j]
    <3> SUFFICES ASSUME NEW i \in 1..n, NEW j \in 1..n, i # j PROVE due'[i] # due'[j]
      OBVIOUS
    <3>1. i < j \/ j < i
      OBVIOUS
    <3> QED
      BY <2>2, <2>3, <3>1
  <2>6. tick' # "off" /\ up' /\ section' = <<>> /\ UNCHANGED <<now, next>>
    BY <1>3 DEF TickStart, Idle
  <2> QED
    BY <2>3, <2>4, <2>5, <2>6 DEF TickInv
<1>4. CASE TickHandle
  <2>1. /\ due # <<>> /\ section' = Handle(Head(due)) /\ due' = Tail(due)
        /\ UNCHANGED <<now, up, cfg, next, runs, tick>> /\ up
    BY <1>4 DEF TickHandle
  <2>2. /\ Head(due) = due[1] /\ 1 \in 1..Len(due) /\ Len(due') = Len(due) - 1 /\ Len(due) \in Nat
        /\ \A i \in 1..Len(due') : due'[i] = due[i + 1] /\ i + 1 \in 1..Len(due) /\ i + 1 # 1
    BY <1>0, <2>1
  <2>3. PICK t \in Tasks : t = Head(due)
    BY <1>0, <2>2
  <2>4. Working(t)' /\ section' # <<>>
    BY <1>0, <2>1, <2>2, <2>3, HandleWorks
  <2>5. \A i \in 1..Len(due') : due'[i] # t
    BY <1>0, <2>2, <2>3
  <2>6. \A i \in 1..Len(due') : next[due'[i]] > 0 /\ next[due'[i]] <= now
    BY <1>0, <2>2
  <2>7. \A i, j \in 1..Len(due') : i # j => due'[i] # due'[j]
    <3> SUFFICES ASSUME NEW i \in 1..Len(due'), NEW j \in 1..Len(due'), i # j PROVE due'[i] # due'[j]
      OBVIOUS
    <3>1. i + 1 # j + 1
      BY <2>2
    <3> QED
      BY <1>0, <2>2, <3>1
  <2> QED
    BY <1>0, <2>1, <2>4, <2>5, <2>6, <2>7 DEF TickInv
<1>5. CASE TickEnd
  BY <1>0, <1>5 DEF TickEnd, TickInv
<1>6. ASSUME NEW t \in Tasks, NEW c \in Configs, CreateTask(t, c) PROVE TickInv'
  BY <1>0, <1>6 DEF CreateTask, TickInv, Idle
<1>7. ASSUME NEW p \in Puts, NEW t \in Tasks, PutBegin(p, t) PROVE TickInv'
  BY <1>0, <1>7 DEF PutBegin, TickInv, Idle
<1>8. ASSUME NEW p \in Puts, NEW patch \in Patches, PutCommit(p, patch) PROVE TickInv'
  <2>1. tick = "off" /\ up /\ UNCHANGED <<now, up, cfg, next, due, tick>> /\ due = <<>>
    BY <1>0, <1>8 DEF PutCommit, Idle
  <2>2. CASE section' = <<>>
    BY <1>0, <2>1, <2>2 DEF TickInv
  <2>3. CASE section' # <<>>
    <3>1. PICK t \in Tasks : section' = UpdateWrites(t, patch)
      <4>1. put[p] \in PutState /\ put[p].pc = "open"
        BY <1>8 DEF PutCommit, SchedTypeOK
      <4>2. put[p].task \in Tasks
        BY <4>1 DEF PutState, NoPut, PutDone
      <4>3. section' = UpdateWrites(put[p].task, patch)
        BY <1>8, <2>3 DEF PutCommit
      <4> QED
        BY <4>2, <4>3
    <3>2. Working(t)'
      BY <2>1, <3>1, EditWorks
    <3> QED
      BY <1>0, <2>1, <3>2 DEF TickInv
  <2> QED
    BY <2>2, <2>3
<1>9. ASSUME NEW t \in Tasks, RunNow(t) \/ WebhookTrigger(t) PROVE TickInv'
  BY <1>0, <1>9 DEF RunNow, WebhookTrigger, TickInv, Idle
<1>10. CASE Claim \/ \E r \in RunIds : FinishRun(r)
  BY <1>0, <1>10 DEF Claim, FinishRun, TickInv, Idle
<1>11. CASE Advance
  BY <1>0, <1>11 DEF Advance, TickInv
<1>12. CASE Crash
  BY <1>12 DEF Crash, TickInv
<1>13. CASE Restart
  BY <1>0, <1>13 DEF Restart, TickInv
<1>14. CASE UNCHANGED vars
  <2>1. UNCHANGED <<now, up, cfg, next, runs, due, section, tick>>
    BY <1>14 DEF vars
  <2>2. \A t : Working(t)' <=> Working(t)
    BY <2>1 DEF Working, FarAhead, TriggerOf, HasActiveRun
  <2> QED
    BY <2>1, <2>2 DEF TickInv
<1> QED
  BY <1>1, <1>2, <1>3, <1>4, <1>5, <1>6, <1>7, <1>8, <1>9, <1>10, <1>11, <1>12, <1>13, <1>14 DEF Next

(***************************************************************************)
(* What a step does to the rows: it inserts one, or none comes to count    *)
(* that did not.                                                           *)
(***************************************************************************)
\* A row that is active and not about to be marked.
Open(r) == up /\ runs[r].status \in Active /\ ~Marking(r)

Calm ==
    /\ rowid' = rowid
    /\ \A r \in RunIds :
          /\ SameRow(r)
          /\ r > rowid => runs'[r] = runs[r]
          /\ runs'[r].status \in Active => runs[r].status \in Active
          /\ errors' = 0 => (Counts(r)' => Counts(r)) /\ (Open(r)' => Open(r))

Inserted(t, g) ==
    /\ InsertRun(t, g) /\ up /\ UNCHANGED <<now, up, boot, cfg, next, errors, cuts>>
    /\ section # <<>> => Head(section).op = "insert"
    /\ \/ g \in {"manual", "webhook"} /\ section = <<>> /\ section' = <<>> /\ UNCHANGED tick
       \/ g = TriggerOf(t) /\ g # "webhook" /\ (InsertsMarked(t) \/ Fires(t))

\* Faults that were counted are never uncounted.
LEMMA GhostsGrow == ASSUME SchedTypeOK, [Next]_vars
                    PROVE  (errors' = 0 => errors = 0) /\ (cuts' = 0 => cuts = 0)
<1> USE DEF SchedTypeOK
<1>1. CASE CommitRaises
  BY <1>1 DEF CommitRaises
<1>2. CASE Crash
  BY <1>2 DEF Crash
<1>3. CASE UNCHANGED <<errors, cuts>>
  BY <1>3
<1> QED
  BY <1>1, <1>2, <1>3
     DEF Next, vars, Commit, TickStart, TickHandle, TickEnd, CreateTask, PutBegin, PutCommit, RunNow,
         WebhookTrigger, Claim, FinishRun, Advance, Restart

\* A step that leaves the rows alone, from a state where none is being marked.
LEMMA CalmStill ==
    ASSUME UNCHANGED <<runs, rowid>>, up' => up, \A r \in RunIds : ~Marking(r)
    PROVE  Calm
<1>1. ASSUME NEW r \in RunIds PROVE (Counts(r)' => Counts(r)) /\ (Open(r)' => Open(r))
  BY <1>1 DEF Counts, Open
<1> QED
  BY <1>1 DEF Calm, SameRow

\* The runner's steps: Claim only starts rows that counted.
LEMMA CalmRunner ==
    ASSUME RowInv, RowsRun, section = <<>>, rowid' = rowid, up' => up
    PROVE  Calm
<1>0. \A r \in RunIds : ~Marking(r) /\ (r > rowid => runs[r].status = "none")
  BY DEF Marking, RowInv, NoRun
<1>1. ASSUME NEW r \in RunIds
      PROVE /\ SameRow(r) /\ (r > rowid => runs'[r] = runs[r])
            /\ runs'[r].status \in Active => runs[r].status \in Active
            /\ Counts(r)' => Counts(r)
            /\ Open(r)' => Open(r)
  <2> USE DEF Active
  <2>1. CASE runs'[r] = runs[r]
    BY <1>0, <2>1 DEF SameRow, Counts, Open
  <2>2. CASE runs[r].status = "queued" /\ Idle /\ SameRow(r) /\ runs'[r].status = "running"
    BY <1>0, <2>2 DEF Counts, Open, Idle, Active
  <2>3. CASE /\ runs[r].status \in Active /\ SameRow(r) /\ runs'[r].status = "ended"
             /\ runs'[r].started = runs[r].started
    BY <1>0, <2>3 DEF Counts, Open, Active
  <2> QED
    BY <2>1, <2>2, <2>3 DEF RowsRun
<1> QED
  BY <1>1 DEF Calm

\* A step inserts a row for one task, or leaves the rows of all tasks as they were.
LEMMA RowsStep ==
    ASSUME SchedTypeOK, TickInv, RowInv, [Next]_vars
    PROVE  Calm \/ \E t \in Tasks : \E g \in {"manual", "webhook"} \cup Scheduled : Inserted(t, g)
<1>0. section = <<>> => \A r \in RunIds : ~Marking(r)
  BY DEF Marking
<1>1. CASE Commit
  <2>1. PICK t \in Tasks : CommitMove(t)
    BY <1>1, CommitMoves
  <2>2. up /\ UNCHANGED <<now, up, boot, exists, limiter, put, due, tick, errors, cuts>>
    BY <1>1, CommitMoves
  <2>3. CASE SetsNext(t) \/ Edits(t) \/ BeginsEdit(t) \/ Disables(t)
    <3>1. UNCHANGED <<runs, rowid>> /\ Head(section).op # "mark"
      BY <2>3, Tuples DEF SetsNext, Edits, BeginsEdit, Disables, SetNext, Write, Disable
    <3> QED
      BY <2>2, <3>1, CalmStill DEF Marking
  <2>4. CASE InsertsMarked(t) \/ Fires(t)
    <3>1. InsertRun(t, TriggerOf(t)) /\ UNCHANGED <<cfg, next>>
      BY <2>4 DEF InsertsMarked, Fires
    <3>2. Head(section).op = "insert"
      BY <2>4, Tuples DEF InsertsMarked, Fires, Insert
    <3> QED
      BY <2>2, <2>4, <3>1, <3>2, TriggerOfType DEF Inserted
  <2>5. CASE Marks(t)
    <3>1. PICK s \in {"ended", "skipped"} : runs' = [runs EXCEPT ![rowid].status = s]
      BY <2>5 DEF Marks, Terminal
    <3>2. rowid' = rowid /\ \A r \in RunIds : Marking(r) <=> r = rowid
      BY <2>5 DEF Marks, Marking
    <3>3. ASSUME NEW r \in RunIds, r # rowid
          PROVE /\ SameRow(r) /\ (r > rowid => runs'[r] = runs[r])
                /\ runs'[r].status \in Active => runs[r].status \in Active
                /\ (Counts(r)' => Counts(r)) /\ (Open(r)' => Open(r))
      <4>1. runs'[r] = runs[r] /\ ~Marking(r)
        BY <3>1, <3>2, <3>3, RowMarked
      <4> QED
        BY <2>2, <4>1 DEF SameRow, Counts, Open
    <3>4. ASSUME rowid \in RunIds
          PROVE /\ SameRow(rowid) /\ runs'[rowid].status \notin Active /\ runs'[rowid].status # "queued"
                /\ runs'[rowid].started = runs[rowid].started
      <4>1. runs'[rowid] = [runs[rowid] EXCEPT !.status = s] /\ runs[rowid] \in Row
        BY <3>1, <3>4, RowMarked DEF SchedTypeOK
      <4> QED
        BY <4>1 DEF SameRow, Row, Active
    <3>5. ASSUME NEW r \in RunIds, r = rowid PROVE (Counts(r)' => Counts(r)) /\ (Open(r)' => Open(r))
      BY <3>2, <3>4, <3>5 DEF Counts, Open
    <3>6. rowid \in Nat
      BY DEF SchedTypeOK
    <3>7. ASSUME NEW r \in RunIds
          PROVE /\ SameRow(r) /\ (r > rowid => runs'[r] = runs[r])
                /\ runs'[r].status \in Active => runs[r].status \in Active
                /\ (Counts(r)' => Counts(r)) /\ (Open(r)' => Open(r))
      <4>1. CASE r = rowid
        BY <3>4, <3>5, <3>6, <4>1
      <4>2. CASE r # rowid
        BY <3>3, <4>2
      <4> QED
        BY <4>1, <4>2
    <3> QED
      BY <3>2, <3>7 DEF Calm
  <2> QED
    BY <2>1, <2>3, <2>4, <2>5 DEF CommitMove
<1>2. CASE CommitRaises
  <2>1. UNCHANGED <<runs, rowid>> /\ errors' # 0
    BY <1>2 DEF CommitRaises, SchedTypeOK
  <2> QED
    BY <2>1 DEF Calm, SameRow
<1>3. CASE \/ TickStart \/ TickHandle \/ TickEnd \/ Advance
           \/ \E t \in Tasks, c \in Configs : CreateTask(t, c)
           \/ \E p \in Puts, t \in Tasks : PutBegin(p, t)
           \/ \E p \in Puts, patch \in Patches : PutCommit(p, patch)
  <2>1. UNCHANGED <<runs, rowid, up>> /\ section = <<>>
    BY <1>3 DEF TickStart, TickHandle, TickEnd, Advance, CreateTask, PutBegin, PutCommit, Idle
  <2> QED
    BY <1>0, <2>1, CalmStill
<1>4. ASSUME NEW t \in Tasks, RunNow(t) \/ WebhookTrigger(t)
      PROVE  \E g \in {"manual", "webhook"} \cup Scheduled : Inserted(t, g)
  <2>1. /\ up /\ section = <<>> /\ section' = <<>> /\ UNCHANGED <<now, up, boot, cfg, next, tick, errors, cuts>>
        /\ \E g \in {"manual", "webhook"} : InsertRun(t, g)
    BY <1>4 DEF RunNow, WebhookTrigger, Idle
  <2> QED
    BY <2>1 DEF Inserted
<1>5. CASE Claim \/ \E r \in RunIds : FinishRun(r)
  <2>1. section = <<>> /\ UNCHANGED <<rowid, up>>
    BY <1>5 DEF Claim, FinishRun, Idle
  <2>2. RowsRun
    BY <1>5, RunnerRows, EndedRows
  <2> QED
    BY <2>1, <2>2, CalmRunner
<1>6. CASE Crash
  <2>1. UNCHANGED <<runs, rowid>> /\ ~up'
    BY <1>6 DEF Crash
  <2> QED
    BY <2>1 DEF Calm, SameRow, Counts, Open
<1>7. CASE Restart
  <2>1. rowid' = rowid /\ section = <<>> /\ RowsRun /\ \A r \in RunIds : runs'[r].status \notin Active
    BY <1>7, EndedRows DEF Restart, TickInv
  <2>2. ASSUME NEW r \in RunIds
        PROVE /\ SameRow(r) /\ (r > rowid => runs'[r] = runs[r])
              /\ (Counts(r)' => Counts(r)) /\ ~Open(r)'
    <3>1. runs'[r].status \notin Active
      BY <2>1
    <3>2. ~Idle
      BY <1>7 DEF Restart, Idle
    <3>3. SameRow(r) /\ runs'[r].started = runs[r].started
      BY <2>1, <3>2 DEF RowsRun, SameRow
    <3>4. r > rowid => runs[r].status = "none"
      BY DEF RowInv, NoRun
    <3>5. r > rowid => runs'[r] = runs[r]
      BY <2>1, <3>2, <3>4 DEF RowsRun, Active
    <3> QED
      BY <3>1, <3>3, <3>5 DEF Counts, Open, Active
  <2> QED
    BY <2>1, <2>2 DEF Calm
<1>8. CASE UNCHANGED vars
  <2>1. UNCHANGED <<runs, rowid, up, section>>
    BY <1>8 DEF vars
  <2> QED
    BY <2>1 DEF Calm, SameRow, Counts, Open, Marking
<1> QED
  BY <1>1, <1>2, <1>3, <1>4, <1>5, <1>6, <1>7, <1>8 DEF Next

\* A new row: all the others stay, and stay of no more account.
LEMMA InsertedRows ==
    ASSUME SchedTypeOK, RowInv, NEW t \in Tasks, NEW g \in {"manual", "webhook"} \cup Scheduled,
           Inserted(t, g)
    PROVE  /\ rowid' = rowid + 1 /\ rowid' \in Nat /\ rowid \in Nat
           /\ \A r \in RunIds : r # rowid' =>
                 /\ runs'[r] = runs[r]
                 /\ (Counts(r)' => Counts(r)) /\ (Open(r)' => Open(r))
           /\ rowid' \in RunIds => runs'[rowid'] = NewRun(t, g)
           /\ g \in Scheduled => g = TriggerOf(t) /\ (InsertsMarked(t) \/ Fires(t))
<1>1. /\ rowid' \in Nat /\ rowid' = rowid + 1
      /\ \A r \in RunIds : r # rowid' => runs'[r] = runs[r]
      /\ rowid' \in RunIds => runs'[rowid'] = NewRun(t, g)
  BY RowInserted DEF Inserted
<1>2. ASSUME NEW r \in RunIds, r # rowid' PROVE (Counts(r)' => Counts(r)) /\ (Open(r)' => Open(r))
  <2>1. runs'[r] = runs[r] /\ up
    BY <1>1, <1>2 DEF Inserted
  <2>2. ~Marking(r)
    BY DEF Marking, Inserted
  <2> QED
    BY <2>1, <2>2 DEF Counts, Open
<1>3. g \in Scheduled => g = TriggerOf(t) /\ (InsertsMarked(t) \/ Fires(t))
  BY DEF Inserted, Scheduled
<1> QED
  BY <1>1, <1>2, <1>3 DEF SchedTypeOK

\* Every step keeps what is known of rows.
LEMMA RowStep == ASSUME SchedTypeOK, TickInv, RowInv, [Next]_vars PROVE RowInv'
<1>0. now' >= now /\ boot' >= boot /\ now \in Nat \ {0} /\ boot \in Nat
  <2>1. now \in Nat \ {0} /\ boot \in Nat
    BY DEF SchedTypeOK
  <2>2. (now' = now \/ now' = now + 1) /\ (boot' = boot \/ boot' = boot + 1)
    BY DEF Next, vars, Commit, CommitRaises, TickStart, TickHandle, TickEnd, CreateTask, PutBegin, PutCommit,
           RunNow, WebhookTrigger, Claim, FinishRun, Advance, Crash, Restart
  <2> QED
    BY <2>1, <2>2
<1>9. \A r \in RunIds : runs[r].fire \in Nat /\ runs[r].created \in Nat /\ runs[r].boot \in Nat
  BY DEF SchedTypeOK, Row
<1>1. CASE Calm
  <2> SUFFICES ASSUME NEW r \in RunIds
               PROVE  /\ r > rowid' => runs'[r] = NoRun
                      /\ runs'[r].fire <= now' /\ runs'[r].created <= now' /\ runs'[r].boot <= boot'
                      /\ runs'[r].trigger = "webhook" => runs'[r].created > 0
                      /\ runs'[r].trigger \in Scheduled => runs'[r].task \in Tasks
    BY DEF RowInv
  <2>1. /\ r > rowid => runs[r] = NoRun
        /\ runs[r].fire <= now /\ runs[r].created <= now /\ runs[r].boot <= boot
        /\ runs[r].trigger = "webhook" => runs[r].created > 0
        /\ runs[r].trigger \in Scheduled => runs[r].task \in Tasks
    BY DEF RowInv
  <2>2. SameRow(r) /\ rowid' = rowid /\ (r > rowid => runs'[r] = runs[r])
    BY <1>1 DEF Calm
  <2>3. now' \in Nat /\ boot' \in Nat
    BY TypeStep DEF SchedTypeOK
  <2> QED
    BY <1>0, <1>9, <2>1, <2>2, <2>3 DEF SameRow
<1>2. ASSUME NEW t \in Tasks, NEW g \in {"manual", "webhook"} \cup Scheduled, Inserted(t, g)
      PROVE  RowInv'
  <2>0. /\ rowid' = rowid + 1 /\ rowid' \in Nat /\ rowid \in Nat
        /\ \A r \in RunIds : r # rowid' => runs'[r] = runs[r]
        /\ rowid' \in RunIds => runs'[rowid'] = NewRun(t, g)
        /\ UNCHANGED <<now, boot>>
    BY <1>2, InsertedRows DEF Inserted
  <2>1. /\ NewRun(t, g).fire <= now /\ NewRun(t, g).created <= now /\ NewRun(t, g).boot <= boot
        /\ g = "webhook" => NewRun(t, g).created > 0
    <3>1. g \in Scheduled => next[t] <= now
      BY <1>2, InsertedRows DEF InsertsMarked, Fires
    <3> QED
      BY <1>0, <3>1, NewRunRow
  <2> SUFFICES ASSUME NEW r \in RunIds
               PROVE  /\ r > rowid' => runs'[r] = NoRun
                      /\ runs'[r].fire <= now' /\ runs'[r].created <= now' /\ runs'[r].boot <= boot'
                      /\ runs'[r].trigger = "webhook" => runs'[r].created > 0
                      /\ runs'[r].trigger \in Scheduled => runs'[r].task \in Tasks
    BY DEF RowInv
  <2>2. CASE r = rowid'
    <3>1. runs'[r] = NewRun(t, g) /\ NewRun(t, g).trigger = g /\ NewRun(t, g).task = t
      BY <2>0, <2>2, NewRunRow
    <3>2. ~(r > rowid')
      BY <2>0, <2>2
    <3> QED
      BY <2>0, <2>1, <3>1, <3>2
  <2>3. CASE r # rowid'
    <3>1. runs'[r] = runs[r] /\ (r > rowid' => r > rowid)
      BY <2>0, <2>3, BoundsAssumption DEF RunIds, BoundsAssumption
    <3> QED
      BY <2>0, <3>1 DEF RowInv
  <2> QED
    BY <2>2, <2>3
<1> QED
  BY <1>1, <1>2, RowsStep

\* A step that inserts no row keeps the distance of the fires.
LEMMA SpacedCalm == ASSUME SpacedInv, Calm, SchedTypeOK, [Next]_vars PROVE SpacedInv'
<1> SUFFICES ASSUME errors' = 0, cuts' = 0, NEW t \in Tasks, NEW r \in RunIds, NEW q \in RunIds,
                    r < q, ScheduledRow(r, t)', ScheduledRow(q, t)', Counts(r)', Counts(q)'
             PROVE  Spaced(r, q)'
  BY DEF SpacedInv
<1>1. SameRow(r) /\ SameRow(q) /\ Counts(r) /\ Counts(q) /\ errors = 0 /\ cuts = 0
  BY GhostsGrow DEF Calm
<1>2. ScheduledRow(r, t) /\ ScheduledRow(q, t)
  BY <1>1 DEF ScheduledRow, SameRow
<1>3. Spaced(r, q)
  BY <1>1, <1>2 DEF SpacedInv
<1> QED
  BY <1>1, <1>3 DEF Spaced, SameRow

\* Nor does such a step make two runs overlap.
LEMMA OverlapCalm == ASSUME OverlapInv, Calm, SchedTypeOK, [Next]_vars PROVE OverlapInv'
<1> SUFFICES ASSUME errors' = 0, up', NEW r \in RunIds, NEW q \in RunIds,
                    ActivePair(r, q)', runs'[q].trigger \in Scheduled, ~Marking(q)'
             PROVE  runs'[q].overlap = "queue"
  BY DEF OverlapInv
<1>1. SameRow(r) /\ SameRow(q) /\ errors = 0 /\ (Open(q)' => Open(q))
      /\ runs[r].status \in Active
  BY GhostsGrow DEF Calm, ActivePair
<1>2. Open(q)'
  BY DEF Open, ActivePair
<1>3. ActivePair(r, q) /\ ~Marking(q) /\ up
  BY <1>1, <1>2 DEF ActivePair, SameTask, Open, SameRow, Active
<1> QED
  BY <1>1, <1>3 DEF OverlapInv, SameRow

(***************************************************************************)
(* The next instant is ahead.                                              *)
(***************************************************************************)
LEMMA AheadCalm ==
    ASSUME Calm, errors' = 0, NEW t \in Tasks, cfg'[t] = cfg[t], next'[t] = next[t], Ahead(t)
    PROVE  Ahead(t)'
<1> SUFFICES ASSUME Fireable(cfg[t])', next'[t] > 0, NEW r \in RunIds, ScheduledRow(r, t)', Counts(r)'
             PROVE  Precedes(r, cfg[t], next[t])'
  BY DEF Ahead
<1>1. SameRow(r) /\ Counts(r)
  BY DEF Calm
<1>2. ScheduledRow(r, t) /\ Fireable(cfg[t]) /\ next[t] > 0
  BY <1>1 DEF ScheduledRow, SameRow, Fireable
<1>3. Precedes(r, cfg[t], next[t])
  BY <1>1, <1>2 DEF Ahead
<1> QED
  BY <1>1, <1>3 DEF Precedes, SameRow

\* An instant that has just been computed is ahead of every run of its task.
LEMMA AheadFar ==
    ASSUME SchedTypeOK', RowInv', NEW t \in Tasks, FarAhead(cfg[t], next[t])'
    PROVE  Ahead(t)'
<1> SUFFICES ASSUME Fireable(cfg[t])', NEW r \in RunIds
             PROVE  Precedes(r, cfg[t], next[t])'
  BY DEF Ahead
<1>1. /\ now' \in Nat /\ next'[t] \in Nat /\ runs'[r].fire \in Nat /\ runs'[r].created \in Nat
      /\ runs'[r].fire <= now' /\ runs'[r].created <= now'
      /\ Period \in Nat /\ CronPeriod \in Nat \ {0}
  BY BoundsAssumption DEF SchedTypeOK, Row, RowInv, BoundsAssumption
<1>2. /\ next'[t] > now'
      /\ cfg'[t].trig = "interval" => next'[t] >= now' + Period
      /\ cfg'[t].trig = "cron" => next'[t] \div CronPeriod > now' \div CronPeriod
  BY DEF FarAhead, Fireable
<1>3. runs'[r].created \div CronPeriod <= now' \div CronPeriod
  BY <1>1, DivMono
<1>4. runs'[r].created \div CronPeriod \in Nat /\ now' \div CronPeriod \in Nat /\ next'[t] \div CronPeriod \in Nat
  BY <1>1, DivDef
<1>5. cfg'[t].trig = "cron" => next'[t] \div CronPeriod > runs'[r].created \div CronPeriod
  BY <1>2, <1>3, <1>4
<1>6. cfg'[t].trig = "interval" => next'[t] >= runs'[r].created + Period
  BY <1>1, <1>2
<1>7. runs'[r].fire < next'[t]
  BY <1>1, <1>2
<1> QED
  BY <1>5, <1>6, <1>7 DEF Precedes

\* A row filed for a fire is behind the instant still to be written; a row
\* about to be marked, or filed by hand, is no fire.
LEMMA AheadInserted ==
    ASSUME SchedTypeOK, RowInv, NEW v \in Tasks, NEW g \in {"manual", "webhook"} \cup Scheduled,
           Inserted(v, g), NEW t \in Tasks, Ahead(t)
    PROVE  Ahead(t)' \/ (SettingNext(t)' /\ AheadOfStarted(t)')
<1>1. /\ rowid' = rowid + 1 /\ rowid' \in Nat /\ rowid \in Nat
      /\ \A r \in RunIds : r # rowid' => runs'[r] = runs[r] /\ (Counts(r)' => Counts(r))
      /\ rowid' \in RunIds => runs'[rowid'] = NewRun(v, g)
      /\ g \in Scheduled => g = TriggerOf(v) /\ (InsertsMarked(v) \/ Fires(v))
      /\ UNCHANGED <<cfg, next>>
  BY InsertedRows DEF Inserted
<1>2. /\ NewRun(v, g).task = v /\ NewRun(v, g).trigger = g /\ ~NewRun(v, g).started
  BY NewRunRow
<1>3. ASSUME NEW r \in RunIds, r # rowid', ScheduledRow(r, t)', Counts(r)', Fireable(cfg[t])', next'[t] > 0
      PROVE  Precedes(r, cfg[t], next[t])'
  <2>1. runs'[r] = runs[r] /\ Counts(r)
    BY <1>1, <1>3
  <2>2. ScheduledRow(r, t) /\ Fireable(cfg[t]) /\ next[t] > 0
    BY <1>1, <1>3, <2>1 DEF ScheduledRow, Fireable
  <2>3. Precedes(r, cfg[t], next[t])
    BY <2>1, <2>2 DEF Ahead
  <2> QED
    BY <1>1, <2>1, <2>3 DEF Precedes
<1>4. CASE v = t /\ Fires(v)
  <2>1. SettingNext(t)'
    BY <1>4 DEF Fires, SettingNext
  <2>2. AheadOfStarted(t)'
    <3> SUFFICES ASSUME Fireable(cfg[t])', next'[t] > 0, NEW r \in RunIds, ScheduledRow(r, t)', runs'[r].started
                 PROVE  Precedes(r, cfg[t], next[t])'
      BY DEF AheadOfStarted
    <3>1. r # rowid'
      BY <1>1, <1>2
    <3>2. Counts(r)'
      BY DEF Counts
    <3> QED
      BY <1>3, <3>1, <3>2
  <2> QED
    BY <2>1, <2>2
<1>5. CASE ~(v = t /\ Fires(v))
  <2> SUFFICES ASSUME Fireable(cfg[t])', next'[t] > 0, NEW r \in RunIds, ScheduledRow(r, t)', Counts(r)'
               PROVE  Precedes(r, cfg[t], next[t])'
    BY DEF Ahead
  <2>1. ASSUME r = rowid' PROVE FALSE
    <3>1. runs'[r] = NewRun(v, g)
      BY <1>1, <2>1
    <3>2. v = t /\ g \in Scheduled
      BY <1>2, <3>1 DEF ScheduledRow
    <3>3. InsertsMarked(v)
      BY <1>1, <1>5, <3>2
    <3>4. section' # <<>> /\ Head(section').op = "mark"
      BY <3>3, Tuples DEF InsertsMarked, Mark
    <3>5. Marking(r)'
      BY <2>1, <3>4 DEF Marking
    <3> QED
      BY <1>2, <3>1, <3>5 DEF Counts
  <2> QED
    BY <1>3, <2>1
<1> QED
  BY <1>4, <1>5

\* Every step keeps the next instant ahead of the runs.
LEMMA AheadStep ==
    ASSUME SchedTypeOK, TickInv, RowInv, AheadInv, [Next]_vars, SchedTypeOK', RowInv'
    PROVE  AheadInv'
<1> SUFFICES ASSUME errors' = 0, cuts' = 0, NEW t \in Tasks
             PROVE  Ahead(t)' \/ (SettingNext(t)' /\ (tick' = "off" \/ AheadOfStarted(t)'))
  BY DEF AheadInv
<1>0. /\ Ahead(t) \/ (SettingNext(t) /\ (tick = "off" \/ AheadOfStarted(t)))
      /\ section = <<>> => ~SettingNext(t)
      /\ errors = 0 /\ cuts = 0
  BY GhostsGrow, Tuples DEF AheadInv, SettingNext, SetNext
<1>1. CASE Commit
  <2>1. PICK u \in Tasks : CommitMove(u)
    BY <1>1, CommitMoves
  <2>2. up /\ UNCHANGED <<now, up, boot, exists, limiter, put, due, tick, errors, cuts>>
    BY <1>1, CommitMoves
  <2>3. SettingNext(t) => SetsNext(t) /\ u = t
    <3> SUFFICES ASSUME NEW a \in Nat, section = <<SetNext(t, a)>> PROVE SetsNext(t) /\ u = t
      BY DEF SettingNext
    <3>1. /\ Head(section).op = "next" /\ Head(section).task = t /\ Tail(section) = <<>>
      BY Tuples DEF SetNext
    <3>2. SetsNext(u)
      BY <2>1, <3>1, Tuples DEF CommitMove, Edits, BeginsEdit, Disables, InsertsMarked, Marks, Fires,
                                Write, Disable, Insert
    <3>3. u = t
      BY <3>1, <3>2, Tuples DEF SetsNext, SetNext
    <3> QED
      BY <3>2, <3>3
  <2>4. CASE u = t /\ SetsNext(t)
    <3>1. PICK a \in Nat : FarAhead(cfg[t], a) /\ next' = [next EXCEPT ![t] = a] /\ cfg' = cfg
      BY <2>4 DEF SetsNext
    <3>2. next'[t] = a
      BY <3>1 DEF SchedTypeOK
    <3>3. FarAhead(cfg[t], next[t])'
      BY <2>2, <3>1, <3>2 DEF FarAhead
    <3> QED
      BY <3>3, AheadFar
  <2>5. CASE ~(u = t /\ SetsNext(t))
    <3>1. Ahead(t)
      BY <1>0, <2>3, <2>5
    <3>2. CASE Calm /\ u # t
      <4>1. cfg'[t] = cfg[t] /\ next'[t] = next[t]
        BY <2>1, <3>2 DEF CommitMove, SetsNext, Edits, BeginsEdit, Disables, InsertsMarked, Marks, Fires,
                          SchedTypeOK
      <4> QED
        BY <3>1, <3>2, <4>1, AheadCalm
    <3>3. CASE Calm /\ u = t
      <4>1. CASE Edits(t)
        <5>1. PICK m \in Config : /\ Fireable(m) => Fireable(cfg[t]) /\ m.trig = cfg[t].trig
                                  /\ cfg' = [cfg EXCEPT ![t] = m] /\ next' = next
          BY <4>1 DEF Edits
        <5>2. cfg'[t] = m
          BY <5>1 DEF SchedTypeOK
        <5>3. ASSUME Fireable(m), next[t] > 0, NEW r \in RunIds, ScheduledRow(r, t)', Counts(r)'
              PROVE  Precedes(r, m, next[t]) /\ SameRow(r)
          <6>1. SameRow(r) /\ Counts(r)
            BY <3>3, <5>3 DEF Calm
          <6>2. ScheduledRow(r, t)
            BY <5>3, <6>1 DEF ScheduledRow, SameRow
          <6>3. Precedes(r, cfg[t], next[t])
            BY <3>1, <5>1, <5>3, <6>1, <6>2 DEF Ahead
          <6> QED
            BY <5>1, <5>3, <6>1, <6>3 DEF Precedes
        <5> SUFFICES ASSUME Fireable(cfg[t])', next'[t] > 0, NEW r \in RunIds, ScheduledRow(r, t)', Counts(r)'
                     PROVE  Precedes(r, cfg[t], next[t])'
          BY DEF Ahead
        <5>4. Fireable(m) /\ next[t] > 0
          BY <5>1, <5>2 DEF Fireable
        <5>5. Precedes(r, m, next[t]) /\ SameRow(r)
          BY <5>3, <5>4
        <5> QED
          BY <5>1, <5>2, <5>5 DEF Precedes, SameRow
      <4>2. CASE BeginsEdit(t)
        BY <2>2, <4>2 DEF BeginsEdit, SettingNext
      <4>3. CASE Disables(t)
        <5>1. next'[t] = 0
          BY <4>3 DEF Disables, SchedTypeOK
        <5> QED
          BY <5>1 DEF Ahead
      <4>4. CASE InsertsMarked(t) \/ Fires(t)
        <5>1. rowid' = rowid + 1
          BY <4>4 DEF InsertsMarked, Fires, InsertRun
        <5> QED
          BY <3>3, <5>1 DEF Calm, SchedTypeOK
      <4>5. CASE Marks(t)
        <5>1. cfg'[t] = cfg[t] /\ next'[t] = next[t]
          BY <4>5 DEF Marks
        <5> QED
          BY <3>1, <3>3, <5>1, AheadCalm
      <4> QED
        BY <2>1, <2>5, <3>3, <4>1, <4>2, <4>3, <4>4, <4>5 DEF CommitMove
    <3>4. ASSUME NEW v \in Tasks, NEW g \in {"manual", "webhook"} \cup Scheduled, Inserted(v, g)
          PROVE  Ahead(t)' \/ (SettingNext(t)' /\ AheadOfStarted(t)')
      BY <3>1, <3>4, AheadInserted
    <3> QED
      BY <2>1, <3>2, <3>3, <3>4, RowsStep
  <2> QED
    BY <2>4, <2>5
<1>2. CASE CommitRaises
  BY <1>2 DEF CommitRaises, SchedTypeOK
<1>3. CASE \/ TickStart \/ TickHandle \/ TickEnd \/ Advance
           \/ \E p \in Puts, u \in Tasks : PutBegin(p, u)
           \/ \E p \in Puts, patch \in Patches : PutCommit(p, patch)
           \/ Claim \/ (\E r \in RunIds : FinishRun(r)) \/ Restart
  <2>1. UNCHANGED <<cfg, next, rowid>> /\ section = <<>>
    BY <1>3 DEF TickStart, TickHandle, TickEnd, Advance, PutBegin, PutCommit, Claim, FinishRun, Restart,
                Idle, TickInv
  <2>2. Calm
    <3>1. ASSUME NEW u \in Tasks, NEW g \in {"manual", "webhook"} \cup Scheduled, Inserted(u, g) PROVE FALSE
      BY <2>1, <3>1 DEF Inserted, InsertRun, SchedTypeOK
    <3> QED
      BY <3>1, RowsStep
  <2> QED
    BY <1>0, <2>1, <2>2, AheadCalm
<1>4. ASSUME NEW u \in Tasks, NEW c \in Configs, CreateTask(u, c)
      PROVE  Ahead(t)'
  <2>1. /\ section = <<>> /\ UNCHANGED <<runs, rowid, now, up>> /\ Ahead(t)
        /\ cfg' = [cfg EXCEPT ![u] = c] /\ next' = [next EXCEPT ![u] = ComputeNextRun(c)]
    BY <1>0, <1>4 DEF CreateTask, Idle
  <2>2. CASE u = t
    <3>1. c \in Config
      BY BoundsAssumption DEF BoundsAssumption
    <3>2. PICK a : a = ComputeNextRun(c)
      OBVIOUS
    <3>3. cfg'[t] = c /\ next'[t] = a /\ FarAhead(c, a)
      BY <2>1, <2>2, <3>1, <3>2, ComputeAhead DEF SchedTypeOK
    <3>4. FarAhead(cfg[t], next[t])'
      BY <2>1, <3>3 DEF FarAhead
    <3> QED
      BY <3>4, AheadFar
  <2>3. CASE u # t
    <3>1. cfg'[t] = cfg[t] /\ next'[t] = next[t]
      BY <2>1, <2>3 DEF SchedTypeOK
    <3>2. Calm
      BY <2>1, CalmStill DEF Marking
    <3> QED
      BY <2>1, <3>1, <3>2, AheadCalm
  <2> QED
    BY <2>2, <2>3
<1>5. ASSUME NEW u \in Tasks, RunNow(u) \/ WebhookTrigger(u)
      PROVE  Ahead(t)' \/ (SettingNext(t)' /\ AheadOfStarted(t)')
  <2>1. section = <<>> /\ rowid' = rowid + 1
    BY <1>5 DEF RunNow, WebhookTrigger, InsertRun, Idle
  <2>2. Ahead(t) /\ ~Calm
    BY <1>0, <2>1 DEF Calm, SchedTypeOK
  <2> QED
    BY <2>2, RowsStep, AheadInserted
<1>6. CASE Crash
  <2>1. /\ UNCHANGED <<runs, cfg, next>> /\ ~up' /\ ~EditHalfDone
    BY <1>0, <1>6 DEF Crash
  <2>2. AheadOfStarted(t)
    <3>1. CASE Ahead(t)
      BY <3>1 DEF Ahead, AheadOfStarted, Counts
    <3>2. CASE SettingNext(t) /\ tick = "off"
      <4>1. section # <<>> /\ Head(section).op = "next"
        BY <3>2, Tuples DEF SettingNext, SetNext
      <4> QED
        BY <2>1, <3>2, <4>1 DEF EditHalfDone
    <3> QED
      BY <1>0, <3>1, <3>2
  <2>3. AheadOfStarted(t)'
    BY <2>1, <2>2 DEF AheadOfStarted, ScheduledRow, Precedes, Fireable
  <2>4. \A r \in RunIds : Counts(r)' => runs'[r].started
    BY <2>1 DEF Counts
  <2> QED
    BY <2>3, <2>4 DEF Ahead, AheadOfStarted
<1>7. CASE UNCHANGED vars
  <2>1. UNCHANGED <<runs, rowid, cfg, next, section, up, tick>>
    BY <1>7 DEF vars
  <2> QED
    BY <1>0, <2>1 DEF Ahead, SettingNext, AheadOfStarted, ScheduledRow, Precedes, Counts, Marking, Fireable
<1> QED
  BY <1>1, <1>2, <1>3, <1>4, <1>5, <1>6, <1>7 DEF Next

(***************************************************************************)
(* Spacing, overlap and the limiter.                                       *)
(***************************************************************************)
LEMMA SpacedStep ==
    ASSUME SchedTypeOK, TickInv, RowInv, AheadInv, SpacedInv, [Next]_vars
    PROVE  SpacedInv'
<1>1. CASE Calm
  BY <1>1, SpacedCalm
<1>2. ASSUME NEW v \in Tasks, NEW g \in {"manual", "webhook"} \cup Scheduled, Inserted(v, g)
      PROVE  SpacedInv'
  <2>0. /\ rowid' = rowid + 1 /\ rowid' \in Nat /\ rowid \in Nat
        /\ \A r \in RunIds : r # rowid' => runs'[r] = runs[r] /\ (Counts(r)' => Counts(r))
        /\ rowid' \in RunIds => runs'[rowid'] = NewRun(v, g)
        /\ g \in Scheduled => g = TriggerOf(v) /\ (InsertsMarked(v) \/ Fires(v))
        /\ UNCHANGED <<now, cfg, next>>
    BY <1>2, InsertedRows DEF Inserted
  <2>1. /\ NewRun(v, g).task = v /\ NewRun(v, g).trigger = g /\ ~NewRun(v, g).started
        /\ g \in Scheduled => NewRun(v, g).fire = next[v] /\ NewRun(v, g).created = now
        /\ NewRun(v, g).status = "queued"
    BY NewRunRow DEF Scheduled
  <2> SUFFICES ASSUME errors' = 0, cuts' = 0, NEW t \in Tasks, NEW r \in RunIds, NEW q \in RunIds,
                      r < q, ScheduledRow(r, t)', ScheduledRow(q, t)', Counts(r)', Counts(q)'
               PROVE  Spaced(r, q)'
    BY DEF SpacedInv
  <2>2. errors = 0 /\ cuts = 0 /\ r \in Nat /\ q \in Nat
    BY GhostsGrow, BoundsAssumption DEF RunIds, BoundsAssumption
  <2>3. r # rowid'
    <3>1. ASSUME r = rowid' PROVE FALSE
      <4>1. q > rowid /\ q # rowid'
        BY <2>0, <2>2, <3>1
      <4>2. runs'[q] = NoRun
        BY <2>0, <4>1 DEF RowInv
      <4> QED
        BY <4>2 DEF ScheduledRow, NoRun, Scheduled
    <3> QED
      BY <3>1
  <2>4. runs'[r] = runs[r] /\ Counts(r) /\ ScheduledRow(r, t)
    BY <2>0, <2>3 DEF ScheduledRow
  <2>5. CASE q # rowid'
    <3>1. runs'[q] = runs[q] /\ Counts(q) /\ ScheduledRow(q, t)
      BY <2>0, <2>5 DEF ScheduledRow
    <3>2. Spaced(r, q)
      BY <2>2, <2>4, <3>1 DEF SpacedInv
    <3> QED
      BY <2>4, <3>1, <3>2 DEF Spaced
  <2>6. CASE q = rowid'
    <3>1. runs'[q] = NewRun(v, g) /\ v = t /\ g \in Scheduled
      BY <2>0, <2>1, <2>6 DEF ScheduledRow
    <3>2. Fires(t)
      <4>1. ASSUME InsertsMarked(t) PROVE FALSE
        <5>1. section' # <<>> /\ Head(section').op = "mark"
          BY <4>1, Tuples DEF InsertsMarked, Mark
        <5>2. Marking(q)'
          BY <2>6, <5>1 DEF Marking
        <5> QED
          BY <2>1, <3>1, <5>2 DEF Counts
      <4> QED
        BY <2>0, <3>1, <4>1
    <3>3. /\ next[t] > 0 /\ next[t] <= now /\ Fireable(cfg[t]) /\ g = cfg[t].trig
          /\ ~SettingNext(t)
      <4>1. Head(section).op = "insert"
        BY <3>2, Tuples DEF Fires, Insert
      <4>2. ~SettingNext(t)
        BY <4>1, Tuples DEF SettingNext, SetNext
      <4> QED
        BY <2>0, <3>1, <3>2, <4>2, TriggerOfType DEF Fires
    <3>4. Precedes(r, cfg[t], next[t])
      BY <2>2, <2>4, <3>3 DEF AheadInv, Ahead
    <3>5. /\ now \in Nat /\ next[t] \in Nat /\ runs[r].fire \in Nat /\ runs[r].created \in Nat
          /\ Period \in Nat /\ CronPeriod \in Nat \ {0}
      BY BoundsAssumption DEF SchedTypeOK, Row, BoundsAssumption
    <3>6. next[t] \div CronPeriod <= now \div CronPeriod
      BY <3>3, <3>5, DivMono
    <3>7. /\ next[t] \div CronPeriod \in Nat /\ now \div CronPeriod \in Nat
          /\ runs[r].created \div CronPeriod \in Nat
      BY <3>5, DivDef
    <3>8. /\ runs'[q].fire = next[t] /\ runs'[q].created = now /\ runs'[q].trigger = cfg[t].trig
      BY <2>1, <3>1, <3>3
    <3>9. /\ runs[r].fire # next[t]
          /\ runs[r].trigger = cfg[t].trig =>
                /\ cfg[t].trig = "interval" => now >= runs[r].created + Period
                /\ cfg[t].trig = "cron" => now \div CronPeriod > runs[r].created \div CronPeriod
      BY <3>3, <3>4, <3>5, <3>6, <3>7 DEF Precedes
    <3> QED
      BY <2>4, <3>8, <3>9 DEF Spaced
  <2> QED
    BY <2>5, <2>6
<1> QED
  BY <1>1, <1>2, RowsStep

\* Every step keeps the runs of a `skip` task apart.
LEMMA OverlapStep ==
    ASSUME SchedTypeOK, TickInv, RowInv, OverlapInv, [Next]_vars
    PROVE  OverlapInv'
<1>1. CASE Calm
  BY <1>1, OverlapCalm
<1>2. ASSUME NEW v \in Tasks, NEW g \in {"manual", "webhook"} \cup Scheduled, Inserted(v, g)
      PROVE  OverlapInv'
  <2>0. /\ rowid' = rowid + 1 /\ rowid' \in Nat /\ rowid \in Nat
        /\ \A r \in RunIds : r # rowid' => runs'[r] = runs[r] /\ (Open(r)' => Open(r))
        /\ rowid' \in RunIds => runs'[rowid'] = NewRun(v, g)
        /\ g \in Scheduled => g = TriggerOf(v) /\ (InsertsMarked(v) \/ Fires(v))
        /\ UNCHANGED <<cfg, up>> /\ up
    BY <1>2, InsertedRows DEF Inserted
  <2>1. /\ NewRun(v, g).task = v /\ NewRun(v, g).trigger = g
        /\ g \in Scheduled => NewRun(v, g).overlap = cfg[v].overlap
    BY NewRunRow
  <2> SUFFICES ASSUME errors' = 0, NEW r \in RunIds, NEW q \in RunIds,
                      ActivePair(r, q)', runs'[q].trigger \in Scheduled, ~Marking(q)'
               PROVE  runs'[q].overlap = "queue"
    BY DEF OverlapInv
  <2>2. errors = 0 /\ r \in Nat /\ q \in Nat /\ r < q
    BY GhostsGrow, BoundsAssumption DEF RunIds, BoundsAssumption, ActivePair
  <2>3. r # rowid'
    <3>1. ASSUME r = rowid' PROVE FALSE
      <4>1. q > rowid /\ q # rowid'
        BY <2>0, <2>2, <3>1
      <4>2. runs'[q] = NoRun
        BY <2>0, <4>1 DEF RowInv
      <4> QED
        BY <4>2 DEF NoRun, Scheduled
    <3> QED
      BY <3>1
  <2>4. runs'[r] = runs[r] /\ runs[r].status \in Active
    BY <2>0, <2>3 DEF ActivePair
  <2>5. CASE q # rowid'
    <3>1. runs'[q] = runs[q] /\ Open(q)
      BY <2>0, <2>5 DEF Open, ActivePair
    <3>2. ActivePair(r, q) /\ ~Marking(q)
      BY <2>4, <3>1 DEF ActivePair, SameTask, Open
    <3> QED
      BY <2>0, <2>2, <3>1, <3>2 DEF OverlapInv
  <2>6. CASE q = rowid'
    <3>1. runs'[q] = NewRun(v, g) /\ g \in Scheduled /\ runs[r].task = v
      BY <2>0, <2>1, <2>4, <2>6 DEF ActivePair, SameTask
    <3>2. Fires(v)
      <4>1. ASSUME InsertsMarked(v) PROVE FALSE
        <5>1. section' # <<>> /\ Head(section').op = "mark"
          BY <4>1, Tuples DEF InsertsMarked, Mark
        <5> QED
          BY <2>6, <5>1 DEF Marking
      <4> QED
        BY <2>0, <3>1, <4>1
    <3>3. HasActiveRun(v)
      BY <2>4, <3>1 DEF HasActiveRun
    <3>4. cfg[v].overlap = "queue"
      BY <3>2, <3>3 DEF Fires, SchedTypeOK, Config
    <3> QED
      BY <2>1, <3>1, <3>4
  <2> QED
    BY <2>5, <2>6
<1> QED
  BY <1>1, <1>2, RowsStep

\* Rows as they were, or new ones that no webhook filed.
LEMMA LimiterCalm ==
    ASSUME SchedTypeOK, SchedTypeOK', LimiterInv, now' >= now,
           up' => \/ up /\ UNCHANGED <<limiter, boot>>
                  \/ \A r \in RunIds : runs'[r].boot # boot',
           \A r \in RunIds : runs'[r].trigger # "webhook" \/ SameRow(r)
    PROVE  LimiterInv'
<1>1. ASSUME NEW r \in RunIds, runs'[r].trigger = "webhook"
      PROVE  /\ SameRow(r) /\ runs[r].trigger = "webhook"
             /\ runs[r].created \in Nat
  BY <1>1 DEF SameRow, SchedTypeOK, Row
<1>2. ASSUME up', NEW r \in RunIds, runs'[r].trigger = "webhook", runs'[r].boot = boot'
      PROVE  \/ \E t \in Tasks : runs'[r].task = t /\ runs'[r].created <= limiter'[t]
             \/ runs'[r].created + Window <= now'
  <2>1. up /\ UNCHANGED <<limiter, boot>>
    BY <1>2
  <2>2. SameRow(r) /\ runs[r].trigger = "webhook" /\ runs[r].boot = boot
    BY <1>1, <1>2, <2>1 DEF SameRow
  <2>3. \/ \E t \in Tasks : runs[r].task = t /\ runs[r].created <= limiter[t]
        \/ runs[r].created + Window <= now
    BY <2>1, <2>2 DEF LimiterInv
  <2>4. runs[r].created \in Nat /\ Window \in Nat /\ now \in Nat /\ now' \in Nat
    BY BoundsAssumption DEF BoundsAssumption, SchedTypeOK, Row
  <2> QED
    BY <2>1, <2>2, <2>3, <2>4 DEF SameRow
<1>3. ASSUME NEW r \in RunIds, NEW q \in RunIds, r < q, runs'[r].task = runs'[q].task,
             runs'[r].boot = runs'[q].boot, runs'[r].trigger = "webhook", runs'[q].trigger = "webhook"
      PROVE  runs'[q].created >= runs'[r].created + Window
  <2>1. SameRow(r) /\ SameRow(q)
    BY <1>1, <1>3
  <2> QED
    BY <1>3, <2>1 DEF SameRow, LimiterInv
<1> QED
  BY <1>2, <1>3 DEF LimiterInv

\* Every step keeps what the limiter has counted in agreement with the rows.
LEMMA LimiterStep ==
    ASSUME SchedTypeOK, SchedTypeOK', TickInv, RowInv, LimiterInv, [Next]_vars
    PROVE  LimiterInv'
<1>0. now' >= now /\ now \in Nat /\ now' \in Nat
  <2>1. now' = now \/ now' = now + 1
    BY DEF Next, vars, Commit, CommitRaises, TickStart, TickHandle, TickEnd, CreateTask, PutBegin, PutCommit,
           RunNow, WebhookTrigger, Claim, FinishRun, Advance, Crash, Restart
  <2> QED
    BY <2>1 DEF SchedTypeOK
<1>1. ASSUME NEW t \in Tasks, WebhookTrigger(t) PROVE LimiterInv'
  <2>1. /\ up /\ UNCHANGED <<now, up, boot>> /\ InsertRun(t, "webhook")
        /\ ~Fresh(limiter[t]) /\ limiter' = [PrunedLimiter EXCEPT ![t] = now]
    BY <1>1 DEF WebhookTrigger, Allow, Idle
  <2>2. /\ rowid' \in Nat /\ rowid' = rowid + 1 /\ rowid \in Nat
        /\ \A r \in RunIds : r # rowid' => runs'[r] = runs[r]
        /\ rowid' \in RunIds => runs'[rowid'] = NewRun(t, "webhook")
    BY <2>1, RowInserted DEF SchedTypeOK
  <2>3. NewRun(t, "webhook").task = t /\ NewRun(t, "webhook").created = now
    BY NewRunRow
  <2>4. limiter'[t] = now /\ \A u \in Tasks : u # t => limiter'[u] = (IF Fresh(limiter[u]) THEN limiter[u] ELSE 0)
    BY <2>1 DEF PrunedLimiter
  <2>5. /\ Window \in Nat /\ limiter \in [Tasks -> Nat]
        /\ \A r \in RunIds : runs[r].created \in Nat /\ runs[r].created <= now
    BY BoundsAssumption DEF BoundsAssumption, SchedTypeOK, Row, RowInv
  <2>6. ASSUME NEW r \in RunIds, runs[r].trigger = "webhook", runs[r].boot = boot
        PROVE  \/ \E u \in Tasks : runs[r].task = u /\ u # t /\ Fresh(limiter[u]) /\ runs[r].created <= limiter[u]
               \/ runs[r].created + Window <= now
    <3>1. CASE runs[r].created + Window <= now
      BY <3>1
    <3>2. CASE \E u \in Tasks : runs[r].task = u /\ runs[r].created <= limiter[u]
      <4>1. PICK u \in Tasks : runs[r].task = u /\ runs[r].created <= limiter[u]
        BY <3>2
      <4>2. runs[r].created > 0
        BY <2>6 DEF RowInv
      <4>3. CASE ~Fresh(limiter[u])
        <5>1. limiter[u] # 0 /\ now - limiter[u] >= Window /\ limiter[u] \in Nat
          BY <1>0, <2>5, <4>1, <4>2, <4>3 DEF Fresh
        <5> QED
          BY <1>0, <2>5, <4>1, <5>1
      <4>4. CASE Fresh(limiter[u])
        BY <2>1, <4>1, <4>4
      <4> QED
        BY <4>3, <4>4
    <3> QED
      BY <2>1, <2>6, <3>1, <3>2 DEF LimiterInv
  <2>7. ASSUME NEW r \in RunIds, runs'[r].trigger = "webhook", runs'[r].boot = boot'
        PROVE  \/ \E u \in Tasks : runs'[r].task = u /\ runs'[r].created <= limiter'[u]
               \/ runs'[r].created + Window <= now'
    <3>1. CASE r = rowid'
      BY <1>0, <2>2, <2>3, <2>4, <3>1
    <3>2. CASE r # rowid'
      <4>1. runs'[r] = runs[r] /\ runs[r].boot = boot /\ runs[r].trigger = "webhook"
        BY <2>1, <2>2, <2>7, <3>2
      <4> QED
        BY <2>1, <2>4, <2>6, <4>1
    <3> QED
      BY <3>1, <3>2
  <2>8. ASSUME NEW r \in RunIds, NEW q \in RunIds, r < q, runs'[r].task = runs'[q].task,
               runs'[r].boot = runs'[q].boot, runs'[r].trigger = "webhook", runs'[q].trigger = "webhook"
        PROVE  runs'[q].created >= runs'[r].created + Window
    <3>0. r \in Nat /\ q \in Nat
      BY BoundsAssumption DEF BoundsAssumption, RunIds
    <3>1. r # rowid'
      <4>1. ASSUME r = rowid' PROVE FALSE
        <5>1. q > rowid /\ q # rowid'
          BY <2>2, <2>8, <3>0, <4>1
        <5>2. runs'[q] = NoRun
          BY <2>2, <5>1 DEF RowInv
        <5> QED
          BY <2>8, <5>2 DEF NoRun
      <4> QED
        BY <4>1
    <3>2. runs'[r] = runs[r]
      BY <2>2, <3>1
    <3>3. CASE q # rowid'
      <4>1. runs'[q] = runs[q]
        BY <2>2, <3>3
      <4> QED
        BY <2>8, <3>2, <4>1 DEF LimiterInv
    <3>4. CASE q = rowid'
      <4>1. runs'[q].task = t /\ runs'[q].created = now /\ runs'[q].boot = boot
        BY <2>2, <2>3, <3>4, NewRunRow
      <4>2. runs[r].created + Window <= now
        BY <2>6, <2>8, <3>2, <4>1
      <4> QED
        BY <3>2, <4>1, <4>2
    <3> QED
      BY <3>3, <3>4
  <2> QED
    BY <2>7, <2>8 DEF LimiterInv
<1>2. CASE Calm /\ ~(\E t \in Tasks : WebhookTrigger(t))
  <2>1. up' => \/ up /\ UNCHANGED <<limiter, boot>>
               \/ \A r \in RunIds : runs'[r].boot # boot'
    <3>1. CASE Crash
      BY <3>1 DEF Crash
    <3>2. CASE Restart
      <4>1. boot' = boot + 1 /\ boot \in Nat
        BY <3>2 DEF Restart, SchedTypeOK
      <4>2. \A r \in RunIds : runs'[r].boot = runs[r].boot /\ runs[r].boot <= boot /\ runs[r].boot \in Nat
        BY <1>2 DEF Calm, SameRow, RowInv, SchedTypeOK, Row
      <4>3. \A r \in RunIds : runs'[r].boot # boot'
        BY <4>1, <4>2
      <4> QED
        BY <4>3
    <3>3. CASE UNCHANGED <<limiter, boot, up>>
      BY <3>3
    <3> QED
      BY <1>2, <3>1, <3>2, <3>3
         DEF Next, vars, Commit, CommitRaises, TickStart, TickHandle, TickEnd, CreateTask, PutBegin, PutCommit,
             RunNow, Claim, FinishRun, Advance
  <2>2. \A r \in RunIds : SameRow(r)
    BY <1>2 DEF Calm
  <2> QED
    BY <1>0, <2>1, <2>2, LimiterCalm
<1>3. ASSUME NEW v \in Tasks, NEW g \in {"manual", "webhook"} \cup Scheduled, Inserted(v, g),
             ~(\E t \in Tasks : WebhookTrigger(t))
      PROVE  LimiterInv'
  <2>1. rowid' = rowid + 1 /\ rowid \in Nat /\ up
        /\ \A r \in RunIds : r # rowid' => runs'[r] = runs[r]
    BY <1>3, InsertedRows DEF Inserted
  <2>2. Commit \/ \E t \in Tasks : RunNow(t)
    <3>1. ~UNCHANGED rowid
      BY <2>1
    <3> QED
      BY <1>3, <3>1 DEF Next, vars, CommitRaises, TickStart, TickHandle, TickEnd, CreateTask, PutBegin,
                        PutCommit, Claim, FinishRun, Advance, Crash, Restart
  <2>3. UNCHANGED <<limiter, boot, up>>
    BY <2>2 DEF Commit, RunNow
  <2>4. rowid' \in RunIds => runs'[rowid'].trigger # "webhook"
    <3>1. CASE \E t \in Tasks : RunNow(t)
      <4>1. PICK t \in Tasks : InsertRun(t, "manual")
        BY <3>1 DEF RunNow
      <4>2. rowid' \in RunIds => runs'[rowid'] = NewRun(t, "manual")
        BY <4>1, RowInserted
      <4>3. NewRun(t, "manual").trigger = "manual"
        BY NewRunRow
      <4> QED
        BY <4>2, <4>3
    <3>2. CASE Commit
      <4>1. section # <<>>
        BY <3>2 DEF Commit
      <4>2. g # "webhook"
        BY <1>3, <4>1 DEF Inserted
      <4> QED
        BY <1>3, <4>2, InsertedRows, NewRunRow
    <3> QED
      BY <2>2, <3>1, <3>2
  <2>5. \A r \in RunIds : runs'[r].trigger # "webhook" \/ SameRow(r)
    BY <2>1, <2>4 DEF SameRow
  <2> QED
    BY <1>0, <2>1, <2>3, <2>5, LimiterCalm
<1> QED
  BY <1>1, <1>2, <1>3, RowsStep

(***************************************************************************)
(* The theorems.                                                           *)
(***************************************************************************)
LEMMA SchedInitInv == Init => SchedInv
<1> SUFFICES ASSUME Init PROVE SchedInv
  OBVIOUS
<1>0. NoConfig \in Config /\ NoRun \in Row
  <2>1. NoConfig \in Config
    BY BoundsAssumption DEF NoConfig, Config, Triggers, BoundsAssumption
  <2>2. NoRun \in Row
    BY DEF NoRun, Row
  <2> QED
    BY <2>1, <2>2
<1>1. \A r \in RunIds : runs[r] = NoRun
  BY DEF Init
<1>2. \A r \in RunIds : runs[r].trigger = "none" /\ runs[r].status = "none" /\ runs[r].fire = 0
                        /\ runs[r].created = 0 /\ runs[r].boot = 0
  BY <1>1 DEF NoRun
<1>3. SchedTypeOK
  <2>1. cfg \in [Tasks -> Config] /\ runs \in [RunIds -> Row] /\ put \in [Puts -> PutState]
    BY <1>0 DEF Init, PutState
  <2>2. up \in BOOLEAN
    BY Zenon DEF Init
  <2> QED
    BY <2>1, <2>2 DEF Init, SchedTypeOK
<1>4. TickInv
  BY DEF Init, TickInv
<1>5. RowInv
  BY <1>1, <1>2 DEF Init, RowInv, Scheduled
<1>6. AheadInv
  BY <1>2 DEF AheadInv, Ahead, ScheduledRow, Scheduled
<1>7. SpacedInv
  BY <1>2 DEF SpacedInv, ScheduledRow, Scheduled
<1>8. OverlapInv
  BY <1>2 DEF OverlapInv, Scheduled
<1>9. LimiterInv
  BY <1>2 DEF LimiterInv
<1> QED
  BY <1>3, <1>4, <1>5, <1>6, <1>7, <1>8, <1>9 DEF SchedInv

\* Every step keeps the whole invariant.
LEMMA SchedStep == ASSUME SchedInv, [Next]_vars PROVE SchedInv'
<1>1. SchedTypeOK' /\ TickInv'
  BY TypeStep, TickStep DEF SchedInv
<1>2. RowInv'
  BY RowStep DEF SchedInv
<1>3. AheadInv' /\ SpacedInv' /\ OverlapInv' /\ LimiterInv'
  BY <1>1, <1>2, AheadStep, SpacedStep, OverlapStep, LimiterStep DEF SchedInv
<1> QED
  BY <1>1, <1>2, <1>3 DEF SchedInv

\* So it always holds.
LEMMA SchedAlways == Spec => []SchedInv
BY SchedInitInv, SchedStep, PTL DEF Spec

\* For any tasks, schedules and edits: a scheduled run of a task that skips is
\* never active beside an older active run of it, if no write raised.
THEOREM SkipNeverOverlapsHolds == Spec => []SkipNeverOverlaps
<1>1. SchedInv => SkipNeverOverlaps
  BY DEF SchedInv, SkipNeverOverlaps, OverlapInv, Idle, Marking
<1> QED
  BY <1>1, SchedAlways, PTL

\* For any tasks, schedules, edits and crashes: no two executed runs of a task
\* answer one scheduled instant, if no write raised and no edit was cut in two.
THEOREM FireExecutedOnceHolds == Spec => []FireExecutedOnce
<1>1. SchedInv => FireExecutedOnce
  <2> SUFFICES ASSUME SchedInv, errors = 0, cuts = 0, NEW r \in RunIds, NEW q \in RunIds, r # q,
                      SameTask(r, q), runs[r].fire = runs[q].fire,
                      runs[r].trigger \in Scheduled, runs[q].trigger \in Scheduled,
                      runs[r].started, runs[q].started
               PROVE  FALSE
    BY DEF FireExecutedOnce
  <2>1. PICK t \in Tasks : ScheduledRow(r, t) /\ ScheduledRow(q, t)
    BY DEF SchedInv, RowInv, ScheduledRow, SameTask
  <2>2. Counts(r) /\ Counts(q) /\ (r < q \/ q < r)
    BY BoundsAssumption DEF BoundsAssumption, RunIds, Counts
  <2>3. Spaced(r, q) \/ Spaced(q, r)
    BY <2>1, <2>2 DEF SchedInv, SpacedInv
  <2> QED
    BY <2>3 DEF Spaced
<1> QED
  BY <1>1, SchedAlways, PTL

\* For any tasks, schedules, edits, downtimes and callers: executed fires of a
\* task are a period or a cron slot apart (if no write raised and no edit was
\* cut in two), and a process accepts webhook triggers a window apart.
THEOREM RatesHeldHolds == Spec => []RatesHeld
<1>1. SchedInv => NoReplayStorm
  <2> SUFFICES ASSUME SchedInv, errors = 0, cuts = 0, NEW r \in RunIds, NEW q \in RunIds, r < q,
                      SameTask(r, q), runs[r].started, runs[q].started, runs[r].trigger = runs[q].trigger
               PROVE  /\ runs[q].trigger = "interval" => runs[q].created >= runs[r].created + Period
                      /\ runs[q].trigger = "cron"
                           => runs[q].created \div CronPeriod > runs[r].created \div CronPeriod
    BY DEF NoReplayStorm
  <2>1. ASSUME runs[q].trigger \in Scheduled PROVE Spaced(r, q)
    <3>1. PICK t \in Tasks : ScheduledRow(r, t) /\ ScheduledRow(q, t)
      BY <2>1 DEF SchedInv, RowInv, ScheduledRow, SameTask
    <3>2. Counts(r) /\ Counts(q)
      BY DEF Counts
    <3> QED
      BY <3>1, <3>2 DEF SchedInv, SpacedInv
  <2> QED
    BY <2>1 DEF Spaced, Scheduled
<1>2. SchedInv => WebhookSpaced
  BY DEF SchedInv, LimiterInv, WebhookSpaced, SameTask
<1> QED
  BY <1>1, <1>2, SchedAlways, PTL DEF RatesHeld
=============================================================================
