--------------------------- MODULE ChannelProofs ----------------------------
(***************************************************************************)
(* Proofs about the messaging channels: ChannelManager, ChatRouter and     *)
(* LarkBinding, for any number of instances, calls, users and flows.       *)
(*                                                                         *)
(* MgrInv counts an instance's adapters by the running list and the stops  *)
(* under way, and has the list free of repetitions.  ChatInv says which    *)
(* pairing a chat's queue, run and sender stand for, which updates the     *)
(* platform has let go of, and which messages are still pending.  LarkInv  *)
(* says who may still write after each step of unbind.                     *)
(***************************************************************************)
EXTENDS ChannelManager, ChatRouter, LarkBinding, FiniteSetTheorems, WellFoundedInduction, TLAPS

Below == {ss \in Nat \X Nat : ss[1] < ss[2]}

\* Every non-empty set of naturals has a least element, and Min is it.
LEMMA MinNat ==
    ASSUME NEW S \in SUBSET Nat, S # {}
    PROVE  Min(S) \in S /\ \A y \in S : Min(S) <= y
<1>1. Below = OpToRel(<, Nat)
  BY Zenon DEF OpToRel, Below
<1>2. IsWellFoundedOn(Below, Nat)
  BY <1>1, NatLessThanWellFounded, Zenon
<1>3. PICK x \in S : \A y \in S : ~(<<y, x>> \in Below)
  BY <1>2, WFMin, Zenon
<1>4. ASSUME NEW y \in S PROVE x <= y
  <2>1. y < x => <<y, x>> \in Below
    BY DEF Below
  <2> QED
    BY <1>3, <2>1
<1> QED
  BY <1>4 DEF Min

\* SetToSeq lists a finite set: each of its elements, once.
LEMMA SetListed ==
    ASSUME NEW S, IsFiniteSet(S)
    PROVE  /\ SetToSeq(S) \in Seq(S) /\ IsInjective(SetToSeq(S)) /\ ToSet(SetToSeq(S)) = S
<1> DEFINE n == Cardinality(S)
           f == SetToSeq(S)
<1>1. n \in Nat /\ ExistsBijection(1..n, S)
  BY FS_CardinalityType
<1>2. f \in [1..n -> S] /\ IsInjective(f)
  BY <1>1 DEF ExistsBijection, Bijection, Injection, SetToSeq
<1>3. f \in Injection(1..n, S)
  BY <1>2 DEF Injection
<1>4. Cardinality(1..n) = n
  BY <1>1, FS_Interval
<1>5. f \in Surjection(1..n, S)
  BY <1>3, <1>4, FS_Injection
<1>6. f \in Seq(S)
  BY <1>1, <1>2
<1>7. ToSet(f) = S
  BY <1>2, <1>5 DEF Surjection, ToSet
<1> QED
  BY <1>2, <1>6, <1>7

\* Taking an id out of a list without repetitions.
LEMMA TakenOut ==
    ASSUME NEW S, NEW s \in Seq(S), IsInjective(s), NEW e \in ToSet(s)
    PROVE  LET t == RemoveFirst(s, e)
           IN t \in Seq(S) /\ IsInjective(t) /\ ToSet(t) = ToSet(s) \ {e}
<1> DEFINE I == {i \in 1..Len(s) : s[i] = e}
           k == SelectInSeq(s, LAMBDA v : v = e)
           t == RemoveFirst(s, e)
<1>1. I # {} /\ I \in SUBSET Nat
  BY DEF ToSet
<1>2. k = Min(I)
  BY <1>1 DEF SelectInSeq
<1>3. k \in 1..Len(s) /\ s[k] = e
  BY <1>1, <1>2, MinNat
<1>4. t = SubSeq(s, 1, k - 1) \o SubSeq(s, k + 1, Len(s))
  BY <1>3 DEF RemoveFirst, RemoveAt
<1> HIDE DEF k, t
<1>5. /\ t \in Seq(S) /\ Len(t) = Len(s) - 1
      /\ \A i \in 1..Len(t) : t[i] = IF i < k THEN s[i] ELSE s[i + 1]
  <2> DEFINE a == SubSeq(s, 1, k - 1)
             b == SubSeq(s, k + 1, Len(s))
  <2>1. a \in Seq(S) /\ Len(a) = k - 1 /\ \A i \in 1..(k - 1) : a[i] = s[i]
    BY <1>3
  <2>2. b \in Seq(S) /\ Len(b) = Len(s) - k /\ \A i \in 1..(Len(s) - k) : b[i] = s[k + i]
    BY <1>3
  <2> HIDE DEF a, b
  <2>0. t = a \o b
    BY <1>4 DEF a, b
  <2>3. t \in Seq(S) /\ Len(t) = Len(s) - 1
    BY <1>3, <2>0, <2>1, <2>2
  <2>4. ASSUME NEW i \in 1..Len(t) PROVE t[i] = IF i < k THEN s[i] ELSE s[i + 1]
    <3>2. CASE i < k
      BY <1>3, <2>0, <2>1, <2>2, <2>3, <3>2
    <3>3. CASE i >= k
      <4>1. i - (k - 1) \in 1..(Len(s) - k) /\ t[i] = b[i - (k - 1)] /\ k + (i - (k - 1)) = i + 1
        BY <1>3, <2>0, <2>1, <2>2, <2>3, <3>3
      <4> QED
        BY <1>3, <2>2, <3>3, <4>1
    <3> QED
      BY <1>3, <3>2, <3>3
  <2> QED
    BY <2>3, <2>4
<1>6. DOMAIN t = 1..Len(t) /\ DOMAIN s = 1..Len(s) /\ Len(s) \in Nat
  BY <1>5
<1> DEFINE At(i) == IF i < k THEN i ELSE i + 1
<1>7. \A i \in 1..Len(t) : At(i) \in 1..Len(s) /\ t[i] = s[At(i)] /\ At(i) # k
  BY <1>3, <1>5, <1>6
<1>8. IsInjective(t) /\ \A x \in ToSet(t) : x \in ToSet(s) /\ x # e
  <2>1. \A i, j \in 1..Len(t) : At(i) = At(j) => i = j
    BY <1>3
  <2> HIDE DEF At
  <2>2. IsInjective(t)
    BY <1>6, <1>7, <2>1 DEF IsInjective
  <2>3. \A x \in ToSet(t) : x \in ToSet(s) /\ x # e
    BY <1>3, <1>6, <1>7 DEF IsInjective, ToSet
  <2> QED
    BY <2>2, <2>3
<1>9. ASSUME NEW x \in ToSet(s), x # e PROVE x \in ToSet(t)
  <2>1. PICK i \in 1..Len(s) : s[i] = x
    BY <1>6 DEF ToSet
  <2>2. CASE i < k
    <3>1. i \in 1..Len(t) /\ t[i] = x
      BY <1>3, <1>5, <1>6, <2>1, <2>2
    <3> QED
      BY <1>6, <3>1 DEF ToSet
  <2>3. CASE i > k
    <3>1. i - 1 \in 1..Len(t) /\ t[i - 1] = x
      BY <1>3, <1>5, <1>6, <2>1, <2>3
    <3> QED
      BY <1>6, <3>1 DEF ToSet
  <2> QED
    BY <1>3, <1>9, <2>1, <2>2, <2>3
<1> QED
  BY <1>5, <1>8, <1>9 DEF t

\* Two lists without repetitions and with nothing in common, end to end.
LEMMA Listed2 ==
    ASSUME NEW S, NEW s \in Seq(S), NEW t \in Seq(S), IsInjective(s), IsInjective(t),
           ToSet(s) \cap ToSet(t) = {}
    PROVE  s \o t \in Seq(S) /\ IsInjective(s \o t) /\ ToSet(s \o t) = ToSet(s) \cup ToSet(t)
<1> DEFINE u == s \o t
<1>1. /\ u \in Seq(S) /\ Len(u) = Len(s) + Len(t) /\ Len(s) \in Nat /\ Len(t) \in Nat
      /\ DOMAIN s = 1..Len(s) /\ DOMAIN t = 1..Len(t) /\ DOMAIN u = 1..Len(u)
      /\ \A i \in 1..Len(s) : u[i] = s[i]
      /\ \A i \in 1..Len(t) : u[Len(s) + i] = t[i]
  OBVIOUS
<1> HIDE DEF u
<1>2. \A i \in 1..Len(u) : \/ i \in 1..Len(s) /\ u[i] = s[i]
                           \/ i - Len(s) \in 1..Len(t) /\ u[i] = t[i - Len(s)]
  <2> SUFFICES ASSUME NEW i \in 1..Len(u), i \notin 1..Len(s)
               PROVE  i - Len(s) \in 1..Len(t) /\ u[i] = t[i - Len(s)]
    BY <1>1
  <2>1. i - Len(s) \in 1..Len(t) /\ i = Len(s) + (i - Len(s))
    BY <1>1
  <2> QED
    BY <1>1, <2>1
<1>3. \A x \in ToSet(u) : x \in ToSet(s) \cup ToSet(t)
  BY <1>1, <1>2 DEF ToSet
<1>4. \A x \in ToSet(s) : x \in ToSet(u)
  BY <1>1 DEF ToSet
<1>5. ASSUME NEW x \in ToSet(t) PROVE x \in ToSet(u)
  <2>1. PICK i \in 1..Len(t) : t[i] = x
    BY <1>1 DEF ToSet
  <2>2. Len(s) + i \in 1..Len(u) /\ u[Len(s) + i] = x
    BY <1>1, <2>1
  <2> QED
    BY <1>1, <2>2 DEF ToSet
<1>6. ASSUME NEW i \in 1..Len(u), NEW j \in 1..Len(u), u[i] = u[j] PROVE i = j
  <2>1. ASSUME NEW a \in 1..Len(s), NEW b \in 1..Len(t) PROVE s[a] # t[b]
    BY <1>1 DEF ToSet
  <2>2. CASE i \in 1..Len(s) /\ j \in 1..Len(s)
    BY <1>1, <1>6, <2>2 DEF IsInjective
  <2>3. CASE i \notin 1..Len(s) /\ j \notin 1..Len(s)
    <3>1. /\ i - Len(s) \in 1..Len(t) /\ j - Len(s) \in 1..Len(t)
          /\ t[i - Len(s)] = t[j - Len(s)]
      BY <1>2, <1>6, <2>3
    <3>2. i - Len(s) = j - Len(s)
      BY <1>1, <3>1 DEF IsInjective
    <3> QED
      BY <1>1, <3>2
  <2> QED
    BY <1>2, <1>6, <2>1, <2>2, <2>3
<1> QED
  BY <1>1, <1>3, <1>4, <1>5, <1>6 DEF u, IsInjective

(***************************************************************************)
(* ChannelManager: NoStrayAdapter.                                         *)
(***************************************************************************)
MgrSpec == MgrInit /\ [][MgrNext]_mgrVars

Call == [at : {"idle", "stop", "resume"}, want : SUBSET Instances, todo : Seq(Instances),
         stopping : Instances \cup {"none"}]

MgrTypeOK ==
    /\ db \in [Instances -> {"absent", "on", "off"}]
    /\ running \in Seq(Instances)
    /\ live \in [Instances -> Int]
    /\ call \in [Calls -> Call]

\* No id is registered twice, and a reload that waits for a stop() knows whose.
MgrInv ==
    /\ MgrTypeOK /\ NoStrayAdapter
    /\ IsInjective(running)
    /\ \A c \in Calls : call[c].at = "stop" => call[c].stopping \in Instances

\* An idle request.
LEMMA NoCallIdle == NoCall \in Call /\ NoCall.at = "idle"
BY DEF NoCall, Call

\* The reloads that wait for one instance's stop() can be counted.
LEMMA StoppingFinite ==
    \A i : IsFiniteSet(Stopping(i)) /\ Cardinality(Stopping(i)) \in Nat
BY ManagerAssumption, FS_Subset, FS_CardinalityType DEF ManagerAssumption, Stopping

\* Adapters started from the rows: each once, with nothing else running.
LEMMA StartAllInv ==
    ASSUME db \in [Instances -> {"absent", "on", "off"}], running = SetToSeq(Wanted),
           live = [i \in Instances |-> IF i \in Wanted THEN 1 ELSE 0],
           call = [c \in Calls |-> NoCall]
    PROVE  MgrInv
<1>1. Wanted \subseteq Instances /\ IsFiniteSet(Wanted)
  BY ManagerAssumption, FS_Subset DEF ManagerAssumption, Wanted
<1>2. running \in Seq(Wanted) /\ IsInjective(running) /\ Running = Wanted
  BY <1>1, SetListed DEF Running
<1>3. running \in Seq(Instances)
  BY <1>1, <1>2
<1>4. \A i : Stopping(i) = {}
  BY NoCallIdle DEF Stopping
<1>5. NoStrayAdapter
  <2> SUFFICES ASSUME NEW i \in Instances
               PROVE  live[i] = (IF i \in Running THEN 1 ELSE 0) + Cardinality(Stopping(i))
    BY DEF NoStrayAdapter
  <2>1. Cardinality(Stopping(i)) = 0
    BY <1>4, FS_EmptySet
  <2> QED
    BY <1>2, <2>1
<1>6. \A c \in Calls : call[c] = NoCall
  OBVIOUS
<1>7. MgrTypeOK
  BY <1>3, <1>6, NoCallIdle DEF MgrTypeOK
<1> QED
  BY <1>2, <1>5, <1>6, <1>7, NoCallIdle DEF MgrInv

\* The rest of a list is a list.
LEMMA HaltPlace ==
    ASSUME NEW todo \in Seq(Instances), NEW want
    PROVE  /\ Halt(todo, want) \in 0..Len(todo)
           /\ SubSeq(todo, Halt(todo, want) + 1, Len(todo)) \in Seq(Instances)
<1> DEFINE I == {i \in 1..Len(todo) : todo[i] \notin want \/ todo[i] \notin Running}
           k == Halt(todo, want)
<1>1. k = IF I # {} THEN Min(I) ELSE 0
  BY DEF Halt, SelectInSeq
<1>2. I \in SUBSET Nat /\ Len(todo) \in Nat
  OBVIOUS
<1>3. k \in 0..Len(todo)
  <2>1. I # {} => Min(I) \in I
    BY <1>2, MinNat
  <2> HIDE DEF k
  <2> QED
    BY <1>1, <1>2, <2>1
<1> HIDE DEF k
<1> QED
  BY <1>2, <1>3 DEF k

\* One stretch of a reload, from whatever rows it has read, keeps the count of
\* adapters: it starts those it registers, or hands the one it takes out of the
\* registry to its own stop().
LEMMA ReloadKeeps ==
    ASSUME MgrInv, NEW c \in Calls, call[c].at # "stop", NEW want \in SUBSET Instances,
           NEW todo \in Seq(Instances), Reload(c, want, todo),
           db' \in [Instances -> {"absent", "on", "off"}]
    PROVE  MgrInv'
<1> DEFINE k == Halt(todo, want)
<1>0. /\ running \in Seq(Instances) /\ IsInjective(running) /\ live \in [Instances -> Int]
      /\ call \in [Calls -> Call] /\ NoStrayAdapter
      /\ \A d \in Calls : call[d].at = "stop" => call[d].stopping \in Instances
  BY DEF MgrInv, MgrTypeOK
<1>1. k \in 0..Len(todo) /\ SubSeq(todo, k + 1, Len(todo)) \in Seq(Instances)
  BY HaltPlace
<1> HIDE DEF k
<1>2. CASE k = 0
  <2> DEFINE new == Started(want)
  <2>1. /\ running' = running \o new
        /\ live' = [i \in Instances |-> live[i] + IF i \in ToSet(new) THEN 1 ELSE 0]
        /\ call' = [call EXCEPT ![c] = NoCall]
    BY <1>2 DEF Reload, k
  <2>2. IsFiniteSet(want \ Running) /\ want \ Running \subseteq Instances
    BY ManagerAssumption, FS_Subset DEF ManagerAssumption
  <2>3. new \in Seq(want \ Running) /\ IsInjective(new) /\ ToSet(new) = want \ Running
    BY <2>2, SetListed DEF Started
  <2> HIDE DEF new
  <2>4. new \in Seq(Instances)
    BY <2>2, <2>3
  <2>5. /\ running' \in Seq(Instances) /\ IsInjective(running')
        /\ Running' = Running \cup (want \ Running)
    BY <1>0, <2>1, <2>3, <2>4, Listed2 DEF Running
  <2>6. /\ call' \in [Calls -> Call] /\ call'[c] = NoCall
        /\ \A d \in Calls \ {c} : call'[d] = call[d]
    BY <1>0, <2>1, NoCallIdle
  <2>7. \A i : Stopping(i)' = Stopping(i)
    BY <2>6, NoCallIdle DEF Stopping
  <2>8. live' \in [Instances -> Int]
    BY <1>0, <2>1
  <2>9. NoStrayAdapter'
    <3> SUFFICES ASSUME NEW i \in Instances
                 PROVE  live'[i] = (IF i \in Running' THEN 1 ELSE 0) + Cardinality(Stopping(i)')
      BY DEF NoStrayAdapter
    <3>1. live[i] = (IF i \in Running THEN 1 ELSE 0) + Cardinality(Stopping(i))
      BY <1>0 DEF NoStrayAdapter
    <3>2. live'[i] = live[i] + IF i \in want \ Running THEN 1 ELSE 0
      BY <2>1, <2>3
    <3>3. Cardinality(Stopping(i)') = Cardinality(Stopping(i)) /\ Cardinality(Stopping(i)) \in Nat
      BY <2>7, StoppingFinite
    <3> QED
      BY <2>5, <3>1, <3>2, <3>3
  <2> QED
    BY <1>0, <2>5, <2>6, <2>8, <2>9, NoCallIdle DEF MgrInv, MgrTypeOK
<1>3. CASE k # 0 /\ todo[k] \in Running
  <2>0. PICK e \in Instances : e = todo[k]
    BY <1>1, <1>3
  <2> DEFINE x == [at |-> "stop", want |-> want, todo |-> SubSeq(todo, k + 1, Len(todo)), stopping |-> e]
  <2>1. running' = RemoveFirst(running, e) /\ call' = [call EXCEPT ![c] = x] /\ live' = live
    BY <1>3, <2>0 DEF Reload, k
  <2>2. e \in Running
    BY <1>3, <2>0
  <2>3. x \in Call /\ x.at = "stop" /\ x.stopping = e
    BY <1>1, <2>2 DEF Call
  <2> HIDE DEF x
  <2>4. running' \in Seq(Instances) /\ IsInjective(running') /\ Running' = Running \ {e}
    BY <1>0, <2>1, <2>2, TakenOut DEF Running
  <2>5. /\ call' \in [Calls -> Call] /\ call'[c] = x
        /\ \A d \in Calls \ {c} : call'[d] = call[d]
    BY <1>0, <2>1, <2>3
  <2>6. /\ \A i : i # e => Stopping(i)' = Stopping(i)
        /\ Stopping(e)' = Stopping(e) \cup {c} /\ c \notin Stopping(e)
    <3>1. \A i : Stopping(i)' = {d \in Calls : call'[d].at = "stop" /\ call'[d].stopping = i}
      BY DEF Stopping
    <3> QED
      BY <2>3, <2>5, <3>1 DEF Stopping
  <2>7. NoStrayAdapter'
    <3> SUFFICES ASSUME NEW i \in Instances
                 PROVE  live'[i] = (IF i \in Running' THEN 1 ELSE 0) + Cardinality(Stopping(i)')
      BY DEF NoStrayAdapter
    <3>1. live'[i] = (IF i \in Running THEN 1 ELSE 0) + Cardinality(Stopping(i))
      BY <1>0, <2>1 DEF NoStrayAdapter
    <3>2. Cardinality(Stopping(i)') = Cardinality(Stopping(i)) + IF i = e THEN 1 ELSE 0
      <4>1. CASE i = e
        BY <2>6, <4>1, StoppingFinite, FS_AddElement
      <4>2. CASE i # e
        BY <2>6, <4>2, StoppingFinite
      <4> QED
        BY <4>1, <4>2
    <3>3. Cardinality(Stopping(i)) \in Nat
      BY StoppingFinite
    <3> QED
      BY <2>2, <2>4, <3>1, <3>2, <3>3
  <2> QED
    BY <1>0, <2>1, <2>2, <2>3, <2>4, <2>5, <2>7 DEF MgrInv, MgrTypeOK
<1>4. CASE k # 0 /\ todo[k] \notin Running
  <2>1. call' = [call EXCEPT ![c] = NoCall] /\ UNCHANGED <<running, live>>
    BY <1>4 DEF Reload, k
  <2>2. /\ call' \in [Calls -> Call] /\ call'[c] = NoCall
        /\ \A d \in Calls \ {c} : call'[d] = call[d]
    BY <1>0, <2>1, NoCallIdle
  <2>3. \A i : Stopping(i)' = Stopping(i)
    BY <2>2, NoCallIdle DEF Stopping
  <2>4. NoStrayAdapter'
    BY <1>0, <2>1, <2>3 DEF NoStrayAdapter, Running
  <2> QED
    BY <1>0, <2>1, <2>2, <2>4, NoCallIdle DEF MgrInv, MgrTypeOK
<1> QED
  BY <1>2, <1>3, <1>4

\* Steps that touch neither the registry, nor an adapter's life, nor a reload.
LEMMA MgrCalm ==
    ASSUME MgrInv, UNCHANGED <<db, running, live, call>> PROVE MgrInv'
<1>1. \A i : Stopping(i)' = Stopping(i)
  BY DEF Stopping
<1> QED
  BY <1>1 DEF MgrInv, MgrTypeOK, NoStrayAdapter, Running

\* Every step of the manager keeps the invariant.
LEMMA MgrStep == MgrInv /\ [MgrNext]_mgrVars => MgrInv'
<1> SUFFICES ASSUME MgrInv, [MgrNext]_mgrVars PROVE MgrInv'
  OBVIOUS
<1>0. /\ db \in [Instances -> {"absent", "on", "off"}] /\ running \in Seq(Instances)
      /\ live \in [Instances -> Int] /\ call \in [Calls -> Call]
      /\ \A c \in Calls : call[c].at = "stop" => call[c].stopping \in Instances
  BY DEF MgrInv, MgrTypeOK
<1>1. ASSUME NEW c \in Calls, NEW i \in Instances, NEW to \in {"absent", "on", "off"}, Request(c, i, to)
      PROVE  MgrInv'
  <2> DEFINE want == {j \in Instances : db'[j] = "on"}
  <2>1. call[c].at # "stop" /\ db' = [db EXCEPT ![i] = to] /\ Reload(c, want, running)
    BY <1>1 DEF Request
  <2>2. want \in SUBSET Instances /\ db' \in [Instances -> {"absent", "on", "off"}]
    BY <1>0, <2>1
  <2> HIDE DEF want
  <2> QED
    BY <1>0, <2>1, <2>2, ReloadKeeps
<1>2. ASSUME NEW c \in Calls, ReloadResumes(c) PROVE MgrInv'
  <2>1. /\ call[c].at # "stop" /\ db' = db /\ Reload(c, call[c].want, call[c].todo)
        /\ call[c].want \in SUBSET Instances /\ call[c].todo \in Seq(Instances)
    BY <1>0, <1>2 DEF ReloadResumes, Call
  <2> QED
    BY <1>0, <2>1, ReloadKeeps
<1>3. ASSUME NEW c \in Calls, AdapterStops(c) PROVE MgrInv'
  <2>1. PICK e \in Instances : e = call[c].stopping
    BY <1>0, <1>3 DEF AdapterStops
  <2>2. /\ call[c].at = "stop" /\ live' = [live EXCEPT ![e] = @ - 1]
        /\ call' = [call EXCEPT ![c].at = "resume"] /\ UNCHANGED <<db, running>>
    BY <1>3, <2>1 DEF AdapterStops
  <2>3. /\ call' \in [Calls -> Call] /\ call'[c].at = "resume"
        /\ \A d \in Calls \ {c} : call'[d] = call[d]
    BY <1>0, <2>2 DEF Call
  <2>4. /\ \A i : i # e => Stopping(i)' = Stopping(i)
        /\ Stopping(e)' = Stopping(e) \ {c} /\ c \in Stopping(e)
    <3>1. \A i : Stopping(i)' = {d \in Calls : call'[d].at = "stop" /\ call'[d].stopping = i}
      BY DEF Stopping
    <3> QED
      BY <2>1, <2>2, <2>3, <3>1 DEF Stopping
  <2>5. live' \in [Instances -> Int]
    BY <1>0, <2>2
  <2>6. NoStrayAdapter'
    <3> SUFFICES ASSUME NEW i \in Instances
                 PROVE  live'[i] = (IF i \in Running' THEN 1 ELSE 0) + Cardinality(Stopping(i)')
      BY DEF NoStrayAdapter
    <3>1. live[i] = (IF i \in Running THEN 1 ELSE 0) + Cardinality(Stopping(i)) /\ Running' = Running
      BY <2>2 DEF MgrInv, NoStrayAdapter, Running
    <3>2. Cardinality(Stopping(i)) \in Nat
      BY StoppingFinite
    <3>3. CASE i = e
      <4>1. Cardinality(Stopping(i)') = Cardinality(Stopping(i)) - 1
        BY <2>4, <3>3, StoppingFinite, FS_RemoveElement
      <4>2. live'[i] = live[i] - 1
        BY <1>0, <2>2, <3>3
      <4> QED
        BY <3>1, <3>2, <4>1, <4>2
    <3>4. CASE i # e
      BY <1>0, <2>2, <2>4, <3>1, <3>4
    <3> QED
      BY <3>3, <3>4
  <2> QED
    BY <1>0, <2>2, <2>3, <2>5, <2>6 DEF MgrInv, MgrTypeOK
<1>4. ASSUME Reboot PROVE MgrInv'
  <2>1. /\ db' \in [Instances -> {"absent", "on", "off"}] /\ running' = SetToSeq(Wanted')
        /\ live' = [i \in Instances |-> IF i \in Wanted' THEN 1 ELSE 0]
        /\ call' = [c \in Calls |-> NoCall]
    BY <1>0, <1>4 DEF Reboot, Wanted
  <2>2. Wanted' \subseteq Instances /\ IsFiniteSet(Wanted')
    BY ManagerAssumption, FS_Subset DEF ManagerAssumption, Wanted
  <2>3. running' \in Seq(Wanted') /\ IsInjective(running') /\ Running' = Wanted'
    BY <2>1, <2>2, SetListed DEF Running
  <2>4. running' \in Seq(Instances)
    BY <2>2, <2>3
  <2>5. \A c \in Calls : call'[c] = NoCall
    BY <2>1
  <2>6. \A i : Stopping(i)' = {}
    BY <2>5, NoCallIdle DEF Stopping
  <2>7. NoStrayAdapter'
    <3> SUFFICES ASSUME NEW i \in Instances
                 PROVE  live'[i] = (IF i \in Running' THEN 1 ELSE 0) + Cardinality(Stopping(i)')
      BY DEF NoStrayAdapter
    <3>1. Cardinality(Stopping(i)') = 0
      BY <2>6, FS_EmptySet
    <3> QED
      BY <2>1, <2>3, <3>1
  <2>8. live' \in [Instances -> Int] /\ call' \in [Calls -> Call]
    BY <2>1, NoCallIdle
  <2> QED
    BY <2>1, <2>3, <2>4, <2>5, <2>7, <2>8, NoCallIdle DEF MgrInv, MgrTypeOK
<1>5. ASSUME NEW i \in Instances, Connects(i) \/ Drops(i) \/ Redials(i) PROVE MgrInv'
  BY <1>5, MgrCalm DEF Connects, Drops, Redials
<1>6. ASSUME UNCHANGED mgrVars PROVE MgrInv'
  BY <1>6, MgrCalm DEF mgrVars
<1> QED
  BY <1>1, <1>2, <1>3, <1>4, <1>5, <1>6
     DEF MgrNext, CreateInstance, EnableInstance, DisableInstance, DeleteInstance

\* For any instances and requests, and however many reloads overlap: no adapter
\* is left running that nobody can stop.
THEOREM NoStrayAdapterHolds == MgrSpec => []NoStrayAdapter
<1>1. MgrInit => MgrInv
  <2>1. MgrInit => db \in [Instances -> {"absent", "on", "off"}]
    BY DEF MgrInit
  <2> QED
    BY <2>1, StartAllInv DEF MgrInit
<1>2. MgrInv => NoStrayAdapter
  BY DEF MgrInv
<1> QED
  BY <1>1, <1>2, MgrStep, PTL DEF MgrSpec

(***************************************************************************)
(* ChatRouter: RunsForThePaired and NoMessageLost.                         *)
(***************************************************************************)
ChatSpec == ChatInit /\ [][ChatNext]_chatVars

Handler == [user : BoundUsers \cup {"none"}, at : {"waits", "creds", "driving"},
            session : ChatSessions \cup {0}]

ChatTypeOK ==
    /\ sent \in Seq(Said)
    /\ confirmed \in Nat /\ nextId \in Nat
    /\ batch \in Seq(Nat) /\ hand \in Nat
    /\ code \in [Codes -> [user : BoundUsers \cup {"none"}, state : {"none", "live", "used", "late"}]]
    /\ bind \in [People -> BoundUsers \cup {"none"}]
    /\ chat \in [People -> ChatSessions \cup {0}]
    /\ queue \in [People -> Seq(Handler)]
    /\ pending \in [People -> Int]
    /\ redeemed \in [Codes -> SUBSET People]
    /\ ran \subseteq People \X (BoundUsers \cup {"none"})

\* Person p has redeemed a code of user u.
Paired(p, u) == \E c \in Codes : code[c].user = u /\ p \in redeemed[c]

\* Whoever is bound, waits in a queue or had a run has redeemed a code of that
\* very user; a redeemed code is used up, and by one person.
PairInv ==
    /\ \A p \in People : bind[p] # "none" => Paired(p, bind[p])
    /\ \A p \in People : \A i \in 1..Len(queue[p]) : Paired(p, queue[p][i].user)
    /\ \A x \in ran : Paired(x[1], x[2])
    /\ \A c \in Codes : redeemed[c] # {} =>
          code[c].state = "used" /\ \E p \in People : redeemed[c] = {p}

\* The updates the poll loop is done with: with the router, or given up.
Passed == handled \cup unread

\* It is done with every update before the one it looks at next, but for the one
\* in hand, and so it is with every one below the offset: what the next poll
\* confirms is with the router already, or given up.
OffsetInv ==
    /\ \A n \in 1..confirmed : n \in Passed
    /\ \A n \in 1..(nextId - 1) : n \in Passed \/ n = hand
    /\ hand \in 0..Len(sent)
    /\ \A k \in 1..Len(batch) : /\ batch[k] = batch[1] + k - 1 /\ batch[k] \in 1..Len(sent)
                                /\ \A n \in 1..(batch[1] - 1) : n \in Passed \/ n = hand

\* Only files are given up.
UnreadFiles == \A n \in unread : n \in 1..Len(sent) /\ sent[n].what = "file"

ChatInv == ChatTypeOK /\ PairInv /\ OffsetInv /\ UnreadFiles /\ PendingExact

\* The message in hand was sent by somebody.
LEMMA HandSaid ==
    ASSUME ChatTypeOK, OffsetInv, hand # 0
    PROVE  /\ sent[hand].person \in People
           /\ sent[hand].what = "pair" => sent[hand].code \in Codes
<1>1. hand \in 1..Len(sent) /\ sent[hand] \in Said
  BY DEF ChatTypeOK, OffsetInv
<1> QED
  BY <1>1 DEF Said

\* The handler at the head of a chat's queue, and what stepping it does.
LEMMA HeadSteps ==
    ASSUME ChatTypeOK, NEW p \in People, queue[p] # <<>>
    PROVE  /\ Head(queue[p]) \in Handler /\ Head(queue[p]) = queue[p][1] /\ 1 \in 1..Len(queue[p])
           /\ Tail(queue[p]) \in Seq(Handler) /\ Len(Tail(queue[p])) = Len(queue[p]) - 1
           /\ \A i \in 1..(Len(queue[p]) - 1) :
                 Tail(queue[p])[i] = queue[p][i + 1] /\ i + 1 \in 1..Len(queue[p])
           /\ \A h \in Handler :
                 /\ <<h>> \o Tail(queue[p]) \in Seq(Handler)
                 /\ Len(<<h>> \o Tail(queue[p])) = Len(queue[p])
                 /\ (<<h>> \o Tail(queue[p]))[1] = h
                 /\ \A i \in 2..Len(queue[p]) : (<<h>> \o Tail(queue[p]))[i] = queue[p][i]
<1> DEFINE q == queue[p]
<1>1. q \in Seq(Handler) /\ Len(q) \in Nat \ {0}
  BY DEF ChatTypeOK
<1>2. /\ Head(q) \in Handler /\ Head(q) = q[1] /\ 1 \in 1..Len(q)
      /\ Tail(q) \in Seq(Handler) /\ Len(Tail(q)) = Len(q) - 1
      /\ \A i \in 1..(Len(q) - 1) : Tail(q)[i] = q[i + 1] /\ i + 1 \in 1..Len(q)
  BY <1>1
<1>3. ASSUME NEW h \in Handler
      PROVE  /\ <<h>> \o Tail(q) \in Seq(Handler) /\ Len(<<h>> \o Tail(q)) = Len(q)
             /\ (<<h>> \o Tail(q))[1] = h
             /\ \A i \in 2..Len(q) : (<<h>> \o Tail(q))[i] = q[i]
  <2> DEFINE t == Tail(q)
  <2>1. t \in Seq(Handler) /\ Len(t) = Len(q) - 1 /\ \A i \in 1..(Len(q) - 1) : t[i] = q[i + 1]
    BY <1>2
  <2> HIDE DEF t
  <2>2. /\ <<h>> \o t \in Seq(Handler) /\ Len(<<h>> \o t) = Len(q) /\ (<<h>> \o t)[1] = h
        /\ \A i \in 2..Len(q) : (<<h>> \o t)[i] = t[i - 1]
    BY <1>1, <2>1
  <2>3. \A i \in 2..Len(q) : i - 1 \in 1..(Len(q) - 1) /\ (i - 1) + 1 = i
    BY <1>1
  <2> QED
    BY <2>1, <2>2, <2>3 DEF t
<1> QED
  BY <1>2, <1>3

\* Who may still hold a place in a queue: the steps on a queue, in one lemma.
QueueMove(p) ==
    \/ queue'[p] = queue[p] /\ pending'[p] = pending[p]
    \/ /\ queue'[p] = Append(queue[p], [user |-> bind[p], at |-> "waits", session |-> 0])
       /\ pending'[p] = pending[p] + 1 /\ bind[p] # "none" /\ bind' = bind
    \/ /\ queue[p] # <<>> /\ pending'[p] = pending[p]
       /\ \E h \in Handler : h.user = Head(queue[p]).user /\ queue'[p] = <<h>> \o Tail(queue[p])
    \/ queue[p] # <<>> /\ queue'[p] = Tail(queue[p]) /\ pending'[p] = pending[p] - 1

\* What a step may do to the codes and the bindings.
PairMove ==
    \/ UNCHANGED <<code, bind, redeemed>>
    \/ \E p \in People, c \in Codes :
          /\ code[c].state = "live" /\ code' = [code EXCEPT ![c].state = "used"]
          /\ bind' = [bind EXCEPT ![p] = code[c].user]
          /\ redeemed' = [redeemed EXCEPT ![c] = @ \cup {p}]
    \/ \E u \in BoundUsers, c \in Codes :
          /\ code[c] = NoCode /\ code' = [code EXCEPT ![c] = [user |-> u, state |-> "live"]]
          /\ UNCHANGED <<bind, redeemed>>
    \/ \E c \in Codes : /\ code[c].state = "live" /\ code' = [code EXCEPT ![c].state = "late"]
                        /\ UNCHANGED <<bind, redeemed>>
    \/ \E p \in People : bind' = [bind EXCEPT ![p] = "none"] /\ UNCHANGED <<code, redeemed>>

\* What a step may do to the poll loop.
LoopMove ==
    \/ UNCHANGED <<confirmed, nextId, batch, hand, handled, unread>>
       /\ (sent' = sent \/ \E m \in Said : sent' = Append(sent, m))
    \/ Poll \/ Take \/ AdapterRestarts
    \/ /\ hand # 0 /\ hand' = 0 /\ handled' = handled \cup {hand}
       /\ UNCHANGED <<sent, confirmed, nextId, batch, unread>>
    \/ /\ hand # 0 /\ hand' = 0 /\ unread' = unread \cup {hand} /\ sent[hand].what = "file"
       /\ UNCHANGED <<sent, confirmed, nextId, batch, handled>>

RanMove ==
    \/ ran' = ran
    \/ \E p \in People : queue[p] # <<>> /\ ran' = ran \cup {<<p, Head(queue[p]).user>>}

ChatMoves ==
    /\ \A p \in People : QueueMove(p)
    /\ PairMove /\ LoopMove /\ RanMove
    /\ queue' \in [People -> Seq(Handler)] /\ pending' \in [People -> Int]
    /\ chat' \in [People -> ChatSessions \cup {0}]

\* A step that leaves queues and chats alone.
LEMMA QueuesStill ==
    ASSUME ChatTypeOK, UNCHANGED <<queue, pending, chat>>
    PROVE  /\ \A p \in People : QueueMove(p)
           /\ queue' \in [People -> Seq(Handler)] /\ pending' \in [People -> Int]
           /\ chat' \in [People -> ChatSessions \cup {0}]
BY DEF ChatTypeOK, QueueMove

\* Every step of the router moves its parts as described.
LEMMA ChatStepMoves == ASSUME ChatTypeOK, OffsetInv, [ChatNext]_chatVars PROVE ChatMoves
<1> USE DEF platform, tables
<1>1. ASSUME NEW m \in Said, SayTo(m) PROVE ChatMoves
  BY <1>1, QueuesStill DEF SayTo, ChatMoves, PairMove, LoopMove, RanMove
<1>2. ASSUME Poll \/ Take \/ DownloadFails \/ AdapterRestarts PROVE ChatMoves
  <2>1. UNCHANGED <<queue, pending, chat, code, bind, redeemed, ran>>
        /\ (DownloadFails \/ Poll \/ Take \/ AdapterRestarts)
    BY <1>2 DEF Poll, Take, DownloadFails, AdapterRestarts
  <2>2. LoopMove
    BY <2>1 DEF LoopMove, DownloadFails
  <2> QED
    BY <2>1, <2>2, QueuesStill DEF ChatMoves, PairMove, RanMove
<1>3. ASSUME Dispatch PROVE ChatMoves
  <2> DEFINE p == sent[hand].person
             w == sent[hand].what
  <2>1. hand # 0 /\ LoopMove /\ RanMove
    BY <1>3 DEF Dispatch, LoopMove, RanMove
  <2>2. p \in People /\ (w = "pair" => sent[hand].code \in Codes)
    BY <2>1, HandSaid
  <2>3. CASE w = "pair" /\ CmdPair(p, sent[hand].code)
    <3>1. PairMove /\ UNCHANGED <<queue, pending, chat>>
      BY <2>2, <2>3 DEF CmdPair, Redeemed, PairMove
    <3> QED
      BY <2>1, <3>1, QueuesStill DEF ChatMoves
  <2>4. CASE UNCHANGED <<code, bind, redeemed, chat, owner, queue, pending, run>>
    BY <2>1, <2>4, QueuesStill DEF ChatMoves, PairMove
  <2>5. CASE CmdNew(p)
    <3>1. FreeSession \in ChatSessions
      BY <2>5 DEF CmdNew, HasRoom, FreeSession
    <3>2. chat' \in [People -> ChatSessions \cup {0}]
      BY <2>2, <2>5, <3>1 DEF CmdNew, ChatTypeOK
    <3>3. UNCHANGED <<code, bind, redeemed, queue, pending>>
      BY <2>5 DEF CmdNew
    <3> QED
      BY <2>1, <3>2, <3>3 DEF ChatMoves, PairMove, QueueMove, ChatTypeOK
  <2>6. CASE CmdStop(p)
    BY <2>1, <2>6, QueuesStill DEF ChatMoves, PairMove, CmdStop
  <2>7. CASE bind[p] # "none" /\ RunSerialized(p)
    <3>1. UNCHANGED <<code, bind, redeemed, chat>>
      BY <2>7 DEF RunSerialized
    <3>2. CASE UNCHANGED <<pending, queue>>
      BY <2>1, <3>1, <3>2, QueuesStill DEF ChatMoves, PairMove
    <3>3. CASE /\ pending' = [pending EXCEPT ![p] = @ + 1]
               /\ queue' = [queue EXCEPT ![p] = Append(@, [user |-> bind[p], at |-> "waits", session |-> 0])]
      <4> DEFINE h == [user |-> bind[p], at |-> "waits", session |-> 0]
      <4>1. h \in Handler
        BY <2>2 DEF Handler, ChatTypeOK
      <4>2. queue' \in [People -> Seq(Handler)]
        BY <2>2, <3>3, <4>1 DEF ChatTypeOK
      <4>3. pending' \in [People -> Int]
        BY <2>2, <3>3 DEF ChatTypeOK
      <4>4. ASSUME NEW x \in People PROVE QueueMove(x)
        <5>1. CASE x = p
          BY <2>2, <2>7, <3>1, <3>3, <5>1 DEF QueueMove, ChatTypeOK
        <5>2. CASE x # p
          BY <2>2, <3>3, <5>2 DEF QueueMove, ChatTypeOK
        <5> QED
          BY <5>1, <5>2
      <4> QED
        BY <2>1, <3>1, <4>2, <4>3, <4>4 DEF ChatMoves, PairMove, ChatTypeOK
    <3> QED
      BY <2>7, <3>2, <3>3 DEF RunSerialized
  <2> QED
    BY <1>3, <2>3, <2>4, <2>5, <2>6, <2>7 DEF Dispatch
<1>4. ASSUME NEW p \in People, ProcessBegins(p) \/ ProcessRuns(p) PROVE ChatMoves
  <2>1. queue[p] # <<>> /\ pending' = pending /\ UNCHANGED <<code, bind, redeemed>>
        /\ UNCHANGED <<sent, confirmed, nextId, batch, hand, handled, unread>>
    BY <1>4 DEF ProcessBegins, ProcessRuns, AtHead
  <2>2. Head(queue[p]) \in Handler
    BY <2>1, HeadSteps
  <2>3. chat' \in [People -> ChatSessions \cup {0}] /\ RanMove
        /\ \E h \in Handler : h.user = Head(queue[p]).user /\ Steps(p, h)
    <3>1. CASE ProcessBegins(p)
      <4>1. [Head(queue[p]) EXCEPT !.at = "creds"] \in Handler
        BY <2>2 DEF Handler
      <4> QED
        BY <2>2, <3>1, <4>1 DEF ProcessBegins, RanMove, ChatTypeOK, Handler
    <3>2. CASE ProcessRuns(p)
      <4> DEFINE s == IF chat[p] # 0 THEN chat[p] ELSE FreeSession
      <4>1. s \in ChatSessions
        BY <3>2 DEF ProcessRuns, ChatTypeOK, HasRoom, FreeSession
      <4> HIDE DEF s
      <4>2. [Head(queue[p]) EXCEPT !.at = "driving", !.session = s] \in Handler
        BY <2>2, <4>1 DEF Handler
      <4>3. /\ Steps(p, [Head(queue[p]) EXCEPT !.at = "driving", !.session = s])
            /\ chat' = [chat EXCEPT ![p] = s] /\ ran' = ran \cup {<<p, Head(queue[p]).user>>}
        BY <3>2 DEF ProcessRuns, s
      <4>4. [Head(queue[p]) EXCEPT !.at = "driving", !.session = s].user = Head(queue[p]).user
        BY <2>2 DEF Handler
      <4> QED
        BY <2>1, <4>1, <4>2, <4>3, <4>4 DEF RanMove, ChatTypeOK
    <3> QED
      BY <1>4, <3>1, <3>2
  <2>4. PICK h \in Handler : h.user = Head(queue[p]).user /\ queue' = [queue EXCEPT ![p] = <<h>> \o Tail(@)]
    BY <2>3 DEF Steps
  <2>5. queue' \in [People -> Seq(Handler)]
    BY <2>1, <2>4, HeadSteps DEF ChatTypeOK
  <2>6. ASSUME NEW x \in People PROVE QueueMove(x)
    <3>1. CASE x = p
      BY <2>1, <2>4, <3>1 DEF QueueMove, ChatTypeOK
    <3>2. CASE x # p
      BY <2>1, <2>4, <3>2 DEF QueueMove, ChatTypeOK
    <3> QED
      BY <3>1, <3>2
  <2> QED
    BY <2>1, <2>3, <2>5, <2>6 DEF ChatMoves, PairMove, LoopMove, ChatTypeOK
<1>5. ASSUME NEW p \in People, ProcessEnds(p) PROVE ChatMoves
  <2>1. /\ queue[p] # <<>> /\ queue' = [queue EXCEPT ![p] = Tail(@)]
        /\ pending' = [pending EXCEPT ![p] = @ - 1] /\ UNCHANGED <<code, bind, redeemed, chat, ran>>
        /\ UNCHANGED <<sent, confirmed, nextId, batch, hand, handled, unread>>
    BY <1>5 DEF ProcessEnds, Release
  <2>2. queue' \in [People -> Seq(Handler)] /\ pending' \in [People -> Int]
    <3>1. Tail(queue[p]) \in Seq(Handler)
      BY <2>1, HeadSteps
    <3> QED
      BY <2>1, <3>1 DEF ChatTypeOK
  <2>3. ASSUME NEW x \in People PROVE QueueMove(x)
    <3>1. CASE x = p
      BY <2>1, <3>1 DEF QueueMove, ChatTypeOK
    <3>2. CASE x # p
      BY <2>1, <3>2 DEF QueueMove, ChatTypeOK
    <3> QED
      BY <3>1, <3>2
  <2> QED
    BY <2>1, <2>2, <2>3 DEF ChatMoves, PairMove, LoopMove, RanMove, ChatTypeOK
<1>6. ASSUME NEW s \in ChatSessions, RunEnds(s) PROVE ChatMoves
  BY <1>6, QueuesStill DEF RunEnds, ChatMoves, PairMove, LoopMove, RanMove
<1>7. ASSUME NEW u \in BoundUsers, IssueCode(u) PROVE ChatMoves
  BY <1>7, QueuesStill DEF IssueCode, ChatMoves, PairMove, LoopMove, RanMove
<1>8. ASSUME NEW u \in BoundUsers, NEW p \in People, RevokeBinding(u, p) PROVE ChatMoves
  BY <1>8, QueuesStill DEF RevokeBinding, ChatMoves, PairMove, LoopMove, RanMove
<1>9. ASSUME NEW c \in Codes, CodeExpires(c) PROVE ChatMoves
  BY <1>9, QueuesStill DEF CodeExpires, ChatMoves, PairMove, LoopMove, RanMove
<1>10. ASSUME UNCHANGED chatVars PROVE ChatMoves
  BY <1>10, QueuesStill DEF chatVars, ChatMoves, PairMove, LoopMove, RanMove
<1> QED
  BY <1>1, <1>2, <1>3, <1>4, <1>5, <1>6, <1>7, <1>8, <1>9, <1>10 DEF ChatNext

\* The poll loop never passes an update it has not given to the router.
LEMMA OffsetStep == ASSUME ChatTypeOK, OffsetInv, LoopMove PROVE
    /\ sent' \in Seq(Said) /\ confirmed' \in Nat /\ nextId' \in Nat
    /\ batch' \in Seq(Nat) /\ hand' \in Nat /\ OffsetInv'
<1>0. /\ sent \in Seq(Said) /\ confirmed \in Nat /\ nextId \in Nat /\ batch \in Seq(Nat) /\ hand \in Nat
      /\ Len(sent) \in Nat /\ Len(batch) \in Nat
  BY DEF ChatTypeOK
<1>1. CASE /\ UNCHANGED <<confirmed, nextId, batch, hand, handled, unread>>
           /\ (sent' = sent \/ \E m \in Said : sent' = Append(sent, m))
  <2>0. sent \in Seq(Said) /\ (sent' = sent \/ \E m \in Said : sent' = Append(sent, m))
    BY <1>0, <1>1
  <2>1. sent' \in Seq(Said) /\ Len(sent') \in Nat /\ Len(sent') >= Len(sent)
    BY <2>0
  <2>2. UNCHANGED <<confirmed, nextId, batch, hand, Passed>>
    BY <1>1 DEF Passed
  <2>3. UNCHANGED <<confirmed, nextId, batch, hand>> /\ Passed' = Passed
    BY <2>2
  <2> QED
    <3>1. /\ sent' \in Seq(Said) /\ confirmed' \in Nat /\ nextId' \in Nat
          /\ batch' \in Seq(Nat) /\ hand' \in Nat
      BY <1>0, <2>1, <2>3
    <3>2. hand' \in 0..Len(sent')
      BY <1>0, <2>1, <2>3 DEF OffsetInv
    <3>3. 1..Len(sent) \subseteq 1..Len(sent')
      BY <1>0, <2>1
    <3> QED
      BY <2>3, <3>1, <3>2, <3>3 DEF OffsetInv
<1>2. CASE Poll
  <2> DEFINE gone == IF nextId = 0 THEN confirmed ELSE nextId - 1
  <2>1. /\ batch = <<>> /\ hand = 0 /\ gone < Len(sent) /\ confirmed' = gone
        /\ batch' = [k \in 1..(Len(sent) - gone) |-> gone + k]
        /\ UNCHANGED <<sent, nextId, hand, Passed>>
    BY <1>2 DEF Poll, Passed
  <2>2. gone \in Nat
    BY <1>0
  <2>3. \A n \in 1..gone : n \in Passed
    BY <1>0, <2>1 DEF OffsetInv
  <2> HIDE DEF gone
  <2>4. /\ batch' \in Seq(Nat) /\ Len(batch') = Len(sent) - gone
        /\ \A k \in 1..Len(batch') : batch'[k] = gone + k
    BY <1>0, <2>1, <2>2
  <2>5. \A k \in 1..Len(batch') : /\ batch'[k] = batch'[1] + k - 1 /\ batch'[k] \in 1..Len(sent)
                                  /\ batch'[1] = gone + 1
    BY <1>0, <2>1, <2>2, <2>4
  <2>6. \A k \in 1..Len(batch') : \A n \in 1..(batch'[1] - 1) : n \in Passed
    BY <2>2, <2>3, <2>5
  <2> QED
    BY <1>0, <2>1, <2>2, <2>3, <2>4, <2>5, <2>6 DEF OffsetInv
<1>3. CASE Take
  <2> DEFINE b == Head(batch)
  <2>1. /\ batch # <<>> /\ hand = 0 /\ hand' = b /\ batch' = Tail(batch)
        /\ nextId' = (IF b + 1 > nextId THEN b + 1 ELSE nextId)
        /\ UNCHANGED <<sent, confirmed, Passed>>
    BY <1>3 DEF Take, Passed
  <2>0. batch # <<>> /\ batch' = Tail(batch)
    BY <2>1
  <2>2. /\ 1 \in 1..Len(batch) /\ b = batch[1] /\ batch' \in Seq(Nat) /\ Len(batch') = Len(batch) - 1
        /\ \A k \in 1..(Len(batch) - 1) : batch'[k] = batch[k + 1] /\ k + 1 \in 1..Len(batch)
    BY <1>0, <2>0
  <2>3. /\ b \in 1..Len(sent) /\ \A n \in 1..(b - 1) : n \in Passed
        /\ \A k \in 1..Len(batch) : batch[k] = b + k - 1 /\ batch[k] \in 1..Len(sent)
    BY <1>0, <2>1, <2>2 DEF OffsetInv
  <2> HIDE DEF b
  <2>4. \A n \in 1..b : n \in Passed \/ n = hand'
    BY <1>0, <2>1, <2>3
  <2>5. ASSUME NEW k \in 1..Len(batch') PROVE batch'[k] = b + k /\ batch'[k] \in 1..Len(sent)
    <3>1. k \in 1..(Len(batch) - 1) /\ k \in Nat
      BY <1>0, <2>2
    <3>2. batch'[k] = batch[k + 1] /\ k + 1 \in 1..Len(batch)
      BY <2>2, <3>1
    <3>3. batch[k + 1] = b + (k + 1) - 1 /\ batch[k + 1] \in 1..Len(sent)
      BY <2>3, <3>2
    <3> QED
      BY <1>0, <2>3, <3>1, <3>2, <3>3
  <2>6. ASSUME NEW k \in 1..Len(batch') PROVE batch'[1] = b + 1 /\ batch'[k] = batch'[1] + k - 1
    <3>0. Len(batch') \in Nat /\ b \in Nat
      BY <2>2, <2>3
    <3>1. 1 \in 1..Len(batch') /\ k \in Nat /\ b \in Nat
      BY <3>0
    <3>2. batch'[1] = b + 1 /\ batch'[k] = b + k
      BY <2>5, <3>1
    <3> QED
      BY <3>1, <3>2
  <2>7. \A n \in 1..(nextId' - 1) : n \in Passed \/ n = hand'
    BY <1>0, <2>1, <2>3, <2>4 DEF OffsetInv
  <2>8. \A k \in 1..Len(batch') : \A n \in 1..(batch'[1] - 1) : n \in Passed \/ n = hand'
    BY <2>3, <2>4, <2>6
  <2>9. OffsetInv'
    <3>1. \A n \in 1..confirmed' : n \in Passed'
      BY <2>1 DEF OffsetInv
    <3>2. \A n \in 1..(nextId' - 1) : n \in Passed' \/ n = hand'
      BY <2>1, <2>7
    <3>3. hand' \in 0..Len(sent')
      BY <1>0, <2>1, <2>3
    <3>4. \A k \in 1..Len(batch') : /\ batch'[k] = batch'[1] + k - 1 /\ batch'[k] \in 1..Len(sent')
                                    /\ \A n \in 1..(batch'[1] - 1) : n \in Passed' \/ n = hand'
      BY <2>1, <2>5, <2>6, <2>8
    <3> QED
      BY <3>1, <3>2, <3>3, <3>4 DEF OffsetInv
  <2>10. nextId' \in Nat /\ hand' \in Nat
    BY <1>0, <2>1, <2>3
  <2> QED
    BY <1>0, <2>1, <2>2, <2>9, <2>10
<1>4. CASE AdapterRestarts
  <2>1. nextId' = 0 /\ batch' = <<>> /\ hand' = 0 /\ UNCHANGED <<sent, confirmed, Passed>>
    BY <1>4 DEF AdapterRestarts, OffsetFresh, Passed
  <2> QED
    BY <1>0, <2>1 DEF OffsetInv
<1>5. CASE /\ hand # 0 /\ hand' = 0 /\ Passed' = Passed \cup {hand}
           /\ UNCHANGED <<sent, confirmed, nextId, batch>>
  BY <1>0, <1>5 DEF OffsetInv
<1>6. (handled' = handled \cup {hand} /\ unread' = unread) \/ (unread' = unread \cup {hand} /\ handled' = handled)
         => Passed' = Passed \cup {hand}
  BY DEF Passed
<1> QED
  BY <1>1, <1>2, <1>3, <1>4, <1>5, <1>6 DEF LoopMove

\* What is given up is a file, and stays one.
LEMMA UnreadStep == ASSUME ChatTypeOK, OffsetInv, UnreadFiles, LoopMove PROVE UnreadFiles'
<1>1. sent \in Seq(Said) /\ Len(sent) \in Nat /\ hand \in 0..Len(sent)
  BY DEF ChatTypeOK, OffsetInv
<1>2. CASE unread' = unread /\ (sent' = sent \/ \E m \in Said : sent' = Append(sent, m))
  BY <1>1, <1>2 DEF UnreadFiles
<1>3. CASE hand # 0 /\ unread' = unread \cup {hand} /\ sent[hand].what = "file" /\ sent' = sent
  BY <1>1, <1>3 DEF UnreadFiles
<1> QED
  BY <1>2, <1>3 DEF LoopMove, Poll, Take, AdapterRestarts

\* The counter of a chat stays the length of its queue.
LEMMA PendingStep ==
    ASSUME ChatTypeOK, PendingExact, \A p \in People : QueueMove(p) PROVE PendingExact'
<1> SUFFICES ASSUME NEW p \in People PROVE pending'[p] = Len(queue'[p])
  BY DEF PendingExact
<1>0. queue[p] \in Seq(Handler) /\ Len(queue[p]) \in Nat /\ pending[p] = Len(queue[p]) /\ QueueMove(p)
  BY DEF ChatTypeOK, PendingExact
<1>1. CASE queue'[p] = queue[p] /\ pending'[p] = pending[p]
  BY <1>0, <1>1
<1>2. CASE /\ queue'[p] = Append(queue[p], [user |-> bind[p], at |-> "waits", session |-> 0])
           /\ pending'[p] = pending[p] + 1
  BY <1>0, <1>2
<1>3. CASE /\ queue[p] # <<>> /\ pending'[p] = pending[p]
           /\ \E h \in Handler : queue'[p] = <<h>> \o Tail(queue[p])
  BY <1>0, <1>3, HeadSteps
<1>4. CASE queue[p] # <<>> /\ queue'[p] = Tail(queue[p]) /\ pending'[p] = pending[p] - 1
  BY <1>0, <1>4, HeadSteps
<1> QED
  BY <1>0, <1>1, <1>2, <1>3, <1>4 DEF QueueMove

\* Codes and bindings stay of their types, and a pairing once made is never
\* forgotten: its code is used up, so it is not issued again.
LEMMA PairedStays ==
    ASSUME ChatTypeOK, PairInv, PairMove
    PROVE  /\ code' \in [Codes -> [user : BoundUsers \cup {"none"}, state : {"none", "live", "used", "late"}]]
           /\ bind' \in [People -> BoundUsers \cup {"none"}]
           /\ redeemed' \in [Codes -> SUBSET People]
           /\ \A u : \A p \in People : Paired(p, u) => Paired(p, u)'
           /\ \A p \in People : bind'[p] # "none" =>
                 \E c \in Codes : code'[c].user = bind'[p] /\ p \in redeemed'[c]
           /\ \A c \in Codes : redeemed'[c] # {} =>
                 code'[c].state = "used" /\ \E p \in People : redeemed'[c] = {p}
<1> DEFINE Code == [user : BoundUsers \cup {"none"}, state : {"none", "live", "used", "late"}]
<1>0. /\ code \in [Codes -> Code] /\ bind \in [People -> BoundUsers \cup {"none"}]
      /\ redeemed \in [Codes -> SUBSET People]
      /\ \A p \in People : bind[p] # "none" => \E c \in Codes : code[c].user = bind[p] /\ p \in redeemed[c]
      /\ \A c \in Codes : redeemed[c] # {} =>
            code[c].state = "used" /\ \E p \in People : redeemed[c] = {p}
  BY DEF ChatTypeOK, PairInv, Paired
<1>1. CASE UNCHANGED <<code, bind, redeemed>>
  BY <1>0, <1>1 DEF Paired
<1>2. CASE \E p \in People, c \in Codes :
             /\ code[c].state = "live" /\ code' = [code EXCEPT ![c].state = "used"]
             /\ bind' = [bind EXCEPT ![p] = code[c].user]
             /\ redeemed' = [redeemed EXCEPT ![c] = @ \cup {p}]
  <2>1. PICK p \in People, c \in Codes :
             /\ code[c].state = "live" /\ code' = [code EXCEPT ![c].state = "used"]
             /\ bind' = [bind EXCEPT ![p] = code[c].user]
             /\ redeemed' = [redeemed EXCEPT ![c] = @ \cup {p}]
    BY <1>2
  <2>2. redeemed[c] = {} /\ redeemed'[c] = {p} /\ \A d \in Codes \ {c} : redeemed'[d] = redeemed[d]
    BY <1>0, <2>1
  <2>3. /\ code' \in [Codes -> Code] /\ code'[c].state = "used"
        /\ \A d \in Codes : code'[d].user = code[d].user
        /\ \A d \in Codes \ {c} : code'[d] = code[d]
    BY <1>0, <2>1
  <2>4. bind' \in [People -> BoundUsers \cup {"none"}] /\ redeemed' \in [Codes -> SUBSET People]
    BY <1>0, <2>1
  <2>5. \A u : \A x \in People : Paired(x, u) => Paired(x, u)'
    BY <2>2, <2>3 DEF Paired
  <2>6. ASSUME NEW x \in People, bind'[x] # "none"
        PROVE  \E d \in Codes : code'[d].user = bind'[x] /\ x \in redeemed'[d]
    <3>1. CASE x = p
      BY <1>0, <2>1, <2>2, <2>3, <3>1
    <3>2. CASE x # p
      BY <1>0, <2>1, <2>2, <2>3, <2>6, <3>2
    <3> QED
      BY <3>1, <3>2
  <2>7. ASSUME NEW d \in Codes, redeemed'[d] # {}
        PROVE  code'[d].state = "used" /\ \E x \in People : redeemed'[d] = {x}
    <3>1. CASE d = c
      BY <2>2, <2>3, <3>1
    <3>2. CASE d # c
      <4>1. redeemed'[d] = redeemed[d] /\ code'[d] = code[d] /\ redeemed[d] # {}
        BY <2>2, <2>3, <2>7, <3>2
      <4> QED
        BY <1>0, <4>1
    <3> QED
      BY <3>1, <3>2
  <2> QED
    BY <2>3, <2>4, <2>5, <2>6, <2>7
<1>3. ASSUME NEW c \in Codes, code[c].state # "used", UNCHANGED <<bind, redeemed>>,
             \A d \in Codes \ {c} : code'[d] = code[d]
      PROVE  /\ bind' \in [People -> BoundUsers \cup {"none"}]
             /\ redeemed' \in [Codes -> SUBSET People]
             /\ \A u : \A p \in People : Paired(p, u) => Paired(p, u)'
             /\ \A p \in People : bind'[p] # "none" =>
                   \E d \in Codes : code'[d].user = bind'[p] /\ p \in redeemed'[d]
             /\ \A d \in Codes : redeemed'[d] # {} =>
                   code'[d].state = "used" /\ \E p \in People : redeemed'[d] = {p}
  <2>1. redeemed[c] = {}
    BY <1>0, <1>3
  <2>2. \A u : \A p \in People : Paired(p, u) => Paired(p, u)'
    BY <1>3, <2>1 DEF Paired
  <2>3. ASSUME NEW p \in People, bind'[p] # "none"
        PROVE  \E d \in Codes : code'[d].user = bind'[p] /\ p \in redeemed'[d]
    <3>1. PICK d \in Codes : code[d].user = bind[p] /\ p \in redeemed[d]
      BY <1>0, <1>3, <2>3
    <3> QED
      BY <1>3, <2>1, <3>1
  <2> QED
    BY <1>0, <1>3, <2>1, <2>2, <2>3
<1>4. CASE \E u \in BoundUsers, c \in Codes :
             /\ code[c] = NoCode /\ code' = [code EXCEPT ![c] = [user |-> u, state |-> "live"]]
             /\ UNCHANGED <<bind, redeemed>>
  <2>1. PICK c \in Codes : /\ code[c].state = "none" /\ code' \in [Codes -> Code] /\ UNCHANGED <<bind, redeemed>>
                           /\ \A d \in Codes \ {c} : code'[d] = code[d]
    BY <1>0, <1>4 DEF NoCode
  <2> QED
    BY <1>0, <2>1, <1>3
<1>5. CASE \E c \in Codes : /\ code[c].state = "live" /\ code' = [code EXCEPT ![c].state = "late"]
                            /\ UNCHANGED <<bind, redeemed>>
  <2>1. PICK c \in Codes : /\ code[c].state = "live" /\ code' \in [Codes -> Code] /\ UNCHANGED <<bind, redeemed>>
                           /\ \A d \in Codes \ {c} : code'[d] = code[d]
    BY <1>0, <1>5
  <2> QED
    BY <1>0, <2>1, <1>3
<1>6. CASE \E p \in People : bind' = [bind EXCEPT ![p] = "none"] /\ UNCHANGED <<code, redeemed>>
  <2>1. /\ bind' \in [People -> BoundUsers \cup {"none"}] /\ UNCHANGED <<code, redeemed>>
        /\ \A x \in People : bind'[x] # "none" => bind'[x] = bind[x]
    BY <1>0, <1>6
  <2> QED
    BY <1>0, <2>1 DEF Paired
<1> QED
  BY <1>1, <1>2, <1>4, <1>5, <1>6 DEF PairMove

\* Whoever waits in a queue, and whoever gets a run, is paired with the user in
\* whose name the handler works.
LEMMA PairStep ==
    ASSUME ChatTypeOK, PairInv, ChatMoves
    PROVE  PairInv'
<1>1. /\ \A u : \A p \in People : Paired(p, u) => Paired(p, u)'
      /\ \A p \in People : bind'[p] # "none" =>
            \E c \in Codes : code'[c].user = bind'[p] /\ p \in redeemed'[c]
      /\ \A c \in Codes : redeemed'[c] # {} =>
            code'[c].state = "used" /\ \E p \in People : redeemed'[c] = {p}
  BY PairedStays DEF ChatMoves
<1>2. \A p \in People : \A i \in 1..Len(queue[p]) : Paired(p, queue[p][i].user)
  BY DEF PairInv
<1>3. ASSUME NEW p \in People, NEW i \in 1..Len(queue'[p])
      PROVE  \E u : Paired(p, u) /\ u = queue'[p][i].user
  <2>1. QueueMove(p) /\ queue[p] \in Seq(Handler)
    BY DEF ChatMoves, ChatTypeOK
  <2>2. CASE queue'[p] = queue[p]
    BY <1>2, <1>3, <2>2
  <2>3. CASE /\ queue'[p] = Append(queue[p], [user |-> bind[p], at |-> "waits", session |-> 0])
             /\ bind[p] # "none"
    <3>1. CASE i \in 1..Len(queue[p])
      BY <1>2, <2>1, <2>3, <3>1
    <3>2. CASE i = Len(queue[p]) + 1
      <4>1. queue'[p][i].user = bind[p]
        BY <2>1, <2>3, <3>2
      <4> QED
        BY <2>3, <4>1 DEF PairInv
    <3>3. i \in 1..Len(queue[p]) \/ i = Len(queue[p]) + 1
      BY <2>1, <2>3
    <3> QED
      BY <3>1, <3>2, <3>3
  <2>4. CASE /\ queue[p] # <<>>
             /\ \E h \in Handler : h.user = Head(queue[p]).user /\ queue'[p] = <<h>> \o Tail(queue[p])
    <3>1. PICK h \in Handler : h.user = Head(queue[p]).user /\ queue'[p] = <<h>> \o Tail(queue[p])
      BY <2>4
    <3>2. /\ Len(queue'[p]) = Len(queue[p]) /\ queue'[p][1] = h /\ h.user = queue[p][1].user
          /\ \A k \in 2..Len(queue[p]) : queue'[p][k] = queue[p][k]
      BY <2>4, <3>1, HeadSteps
    <3>3. Len(queue[p]) \in Nat
      BY <2>1
    <3>4. i \in 1..Len(queue[p]) /\ (i = 1 \/ i \in 2..Len(queue[p]))
      BY <1>3, <3>2, <3>3
    <3>5. queue'[p][i].user = queue[p][i].user
      BY <3>2, <3>4
    <3> QED
      BY <1>2, <3>4, <3>5
  <2>5. CASE queue[p] # <<>> /\ queue'[p] = Tail(queue[p])
    <3>1. i \in 1..(Len(queue[p]) - 1)
      BY <1>3, <2>5, HeadSteps
    <3>2. queue'[p][i] = queue[p][i + 1] /\ i + 1 \in 1..Len(queue[p])
      BY <2>5, <3>1, HeadSteps
    <3> QED
      BY <1>2, <3>2
  <2> QED
    BY <2>1, <2>2, <2>3, <2>4, <2>5 DEF QueueMove
<1>4. ASSUME NEW x \in ran' PROVE Paired(x[1], x[2]) /\ x[1] \in People
  <2>1. CASE x \in ran
    BY <2>1 DEF PairInv, ChatTypeOK
  <2>2. CASE x \notin ran
    <3>1. PICK p \in People : queue[p] # <<>> /\ x = <<p, Head(queue[p]).user>>
      BY <1>4, <2>2 DEF ChatMoves, RanMove
    <3>2. Paired(p, queue[p][1].user) /\ Head(queue[p]) = queue[p][1]
      BY <1>2, <3>1, HeadSteps
    <3> QED
      BY <3>1, <3>2
  <2> QED
    BY <2>1, <2>2
<1>5. \A p \in People : \A i \in 1..Len(queue'[p]) :
         \E c \in Codes : code'[c].user = queue'[p][i].user /\ p \in redeemed'[c]
  <2> SUFFICES ASSUME NEW p \in People, NEW i \in 1..Len(queue'[p])
               PROVE  \E c \in Codes : code'[c].user = queue'[p][i].user /\ p \in redeemed'[c]
    OBVIOUS
  <2>1. PICK u : Paired(p, u) /\ u = queue'[p][i].user
    BY <1>3
  <2>2. Paired(p, u)'
    BY <1>1, <2>1
  <2> QED
    BY <2>1, <2>2 DEF Paired
<1>6. \A x \in ran' : \E c \in Codes : code'[c].user = x[2] /\ x[1] \in redeemed'[c]
  <2> SUFFICES ASSUME NEW x \in ran'
               PROVE  \E c \in Codes : code'[c].user = x[2] /\ x[1] \in redeemed'[c]
    OBVIOUS
  <2>1. PICK p, u : p \in People /\ Paired(p, u) /\ p = x[1] /\ u = x[2]
    BY <1>4
  <2>2. Paired(p, u)'
    BY <1>1, <2>1
  <2> QED
    BY <2>1, <2>2 DEF Paired
<1> QED
  BY <1>1, <1>5, <1>6 DEF PairInv, Paired

\* Every step of a chat keeps the invariant of pairings and offsets.
LEMMA ChatStep == ASSUME ChatInv, [ChatNext]_chatVars PROVE ChatInv'
<1>1. ChatMoves
  BY ChatStepMoves DEF ChatInv
<1>2. PairInv' /\ PendingExact'
  BY <1>1, PairStep, PendingStep DEF ChatInv, ChatMoves
<1>3. /\ sent' \in Seq(Said) /\ confirmed' \in Nat /\ nextId' \in Nat
      /\ batch' \in Seq(Nat) /\ hand' \in Nat /\ OffsetInv'
  BY <1>1, OffsetStep DEF ChatInv, ChatMoves
<1>6. UnreadFiles'
  BY <1>1, UnreadStep DEF ChatInv, ChatMoves
<1>4. /\ code' \in [Codes -> [user : BoundUsers \cup {"none"}, state : {"none", "live", "used", "late"}]]
      /\ bind' \in [People -> BoundUsers \cup {"none"}]
      /\ redeemed' \in [Codes -> SUBSET People]
  BY <1>1, PairedStays DEF ChatInv, ChatMoves
<1>5. ran' \subseteq People \X (BoundUsers \cup {"none"})
  <2>1. CASE ran' = ran
    BY <2>1 DEF ChatInv, ChatTypeOK
  <2>2. CASE \E p \in People : queue[p] # <<>> /\ ran' = ran \cup {<<p, Head(queue[p]).user>>}
    <3>1. PICK p \in People : queue[p] # <<>> /\ ran' = ran \cup {<<p, Head(queue[p]).user>>}
      BY <2>2
    <3>2. Head(queue[p]).user \in BoundUsers \cup {"none"}
      BY <3>1, HeadSteps DEF ChatInv, Handler
    <3> QED
      BY <3>1, <3>2 DEF ChatInv, ChatTypeOK
  <2> QED
    BY <1>1, <2>1, <2>2 DEF ChatMoves, RanMove
<1> QED
  BY <1>1, <1>2, <1>3, <1>4, <1>5, <1>6 DEF ChatInv, ChatTypeOK, ChatMoves

\* It holds when the bot starts.
LEMMA ChatInitInv == ChatInit => ChatInv
<1> SUFFICES ASSUME ChatInit PROVE ChatInv
  OBVIOUS
<1>1. ChatTypeOK
  <2>1. code \in [Codes -> [user : BoundUsers \cup {"none"}, state : {"none", "live", "used", "late"}]]
    BY DEF ChatInit, NoCode
  <2>2. sent \in Seq(Said) /\ batch \in Seq(Nat) /\ queue \in [People -> Seq(Handler)]
    BY DEF ChatInit
  <2> QED
    BY <2>1, <2>2 DEF ChatInit, ChatTypeOK
<1>2. PairInv
  BY DEF ChatInit, PairInv
<1>3. OffsetInv /\ UnreadFiles
  BY DEF ChatInit, OffsetInv, UnreadFiles
<1>4. PendingExact
  BY DEF ChatInit, PendingExact
<1> QED
  BY <1>1, <1>2, <1>3, <1>4 DEF ChatInv

\* So it always holds.
LEMMA ChatAlways == ChatSpec => []ChatInv
BY ChatInitInv, ChatStep, PTL DEF ChatSpec

\* For any people, users, codes and messages: a run is only started in the name
\* of a user whose code the sender has redeemed, and a code pairs one account.
THEOREM RunsForThePairedHolds == ChatSpec => []RunsForThePaired
<1>1. ChatInv => RunsForThePaired
  <2> SUFFICES ASSUME ChatInv PROVE RunsForThePaired
    OBVIOUS
  <2>1. \A x \in ran : \E c \in Codes : code[c].user = x[2] /\ x[1] \in redeemed[c]
    BY DEF ChatInv, PairInv, Paired
  <2>2. ASSUME NEW c \in Codes PROVE Cardinality(redeemed[c]) <= 1
    <3>1. CASE redeemed[c] = {}
      BY <3>1, FS_EmptySet
    <3>2. CASE redeemed[c] # {}
      <4>1. PICK p \in People : redeemed[c] = {p}
        BY <3>2 DEF ChatInv, PairInv
      <4>2. Cardinality(redeemed[c]) = 1
        BY <4>1, FS_Singleton
      <4> QED
        BY <4>2
    <3> QED
      BY <3>1, <3>2
  <2> QED
    BY <2>1, <2>2 DEF RunsForThePaired
<1> QED
  BY <1>1, ChatAlways, PTL

\* For any number of messages and restarts of the adapter, wherever its loop is:
\* no update the messenger may forget is lost, but for files without a caption
\* whose download failed, and a chat refuses messages only while its queue is full.
THEOREM NoMessageLostHolds == ChatSpec => []NoMessageLost
<1>1. ChatInv => NoMessageLost
  BY DEF ChatInv, OffsetInv, Passed, UnreadFiles, NoMessageLost, NoUpdateLost
<1> QED
  BY <1>1, ChatAlways, PTL

-----------------------------------------------------------------------------
(* The binding of a Feishu account.                                        *)

LarkSpec == LarkInit /\ [][LarkNext]_larkVars

Syncs == [at : {"none", "list", "read"} \cup Skills, left : SUBSET Skills]

LarkTypeOK ==
    /\ task \in 0..MaxFlows /\ syncTask \in 0..MaxFlows /\ flows \in 0..MaxFlows
    /\ flow \in [FlowIds -> FlowAt]
    /\ child \in [FlowIds -> {"none", "runs", "ok", "bad"}]
    /\ sync \in [FlowIds -> Syncs]
    /\ transit \subseteq FlowIds \X Skills /\ installed \subseteq Skills
    /\ unbind \in [at : {"free", "flow", "logout", "remove"}, flow : 0..MaxFlows, left : SUBSET Skills]

\* A flow at work is the one the state holds, or the one unbind waits for; a child
\* runs for a flow at work; while unbind is at it, and after it, no flow is held.
FlowInv ==
    /\ \A f \in FlowIds : flow[f] \in Working => task = f \/ (unbind.at = "flow" /\ unbind.flow = f)
    /\ \A f \in FlowIds : child[f] = "runs" => flow[f] \in Working
    /\ unbind.at # "free" => task = 0
    /\ parted => task = 0 /\ unbind.flow = 0 /\ home = {}

\* A registration at work is the one the state holds, or was lost from it; unbind
\* has cancelled the former before it removes the skills, and what is registered
\* then is still to be removed or excused.
RegisterInv ==
    /\ \A f \in FlowIds : sync[f] # NoSync => f \in orphans \/ syncTask = f
    /\ unbind.at \in {"logout", "remove"} => syncTask = 0
    /\ parted => syncTask = 0 /\ installed \subseteq excused
    /\ unbind.at = "remove" => installed \subseteq excused \cup unbind.left

LarkInv == LarkTypeOK /\ FlowInv /\ RegisterInv

\* The invariant of the binding holds at the start.
LEMMA LarkInitInv == LarkInit => LarkInv
<1> SUFFICES ASSUME LarkInit PROVE LarkInv
  OBVIOUS
<1>1. NoSync \in Syncs /\ 0 \in 0..MaxFlows /\ Free.at = "free"
      /\ Free \in [at : {"free", "flow", "logout", "remove"}, flow : 0..MaxFlows, left : SUBSET Skills]
  BY LarkAssumption DEF NoSync, Syncs, Free
<1>2. LarkTypeOK
  BY <1>1 DEF LarkInit, LarkTypeOK, FlowAt
<1>3. FlowInv /\ RegisterInv
  BY <1>1 DEF LarkInit, FlowInv, RegisterInv, Working
<1> QED
  BY <1>2, <1>3 DEF LarkInv

\* No flow is at work once unbind has waited for it, nor after unbind.
LEMMA NobodyWorks ==
    ASSUME FlowInv, parted \/ unbind.at \in {"logout", "remove"}
    PROVE  \A f \in FlowIds : flow[f] \notin Working /\ child[f] # "runs"
<1>1. \A f \in FlowIds : f # 0
  BY LarkAssumption DEF FlowIds
<1> QED
  BY <1>1 DEF FlowInv

\* It implies that a finished unbind leaves nothing.
LEMMA LarkInvSound == LarkInv => UnbindLeavesNothing
  BY NobodyWorks DEF LarkInv, FlowInv, RegisterInv, UnbindLeavesNothing

\* Every step keeps the types.
LEMMA LarkTypes == LarkTypeOK /\ [LarkNext]_larkVars => LarkTypeOK'
<1> SUFFICES ASSUME LarkTypeOK, [LarkNext]_larkVars PROVE LarkTypeOK'
  OBVIOUS
<1>0. NoSync \in Syncs /\ 0 \in 0..MaxFlows /\ FlowIds \subseteq 0..MaxFlows
      /\ Free \in [at : {"free", "flow", "logout", "remove"}, flow : 0..MaxFlows, left : SUBSET Skills]
  BY LarkAssumption DEF NoSync, Syncs, Free, FlowIds
<1>1. CASE StartFlow
  <2>1. flows + 1 \in FlowIds
    BY <1>1, LarkAssumption DEF StartFlow, LarkTypeOK, FlowIds
  <2> QED
    BY <1>0, <1>1, <2>1 DEF StartFlow, Skilled, LarkTypeOK, FlowAt
<1>2. ASSUME NEW f \in FlowIds, ChildExits(f) \/ ChildTimesOut(f) PROVE LarkTypeOK'
  <2>1. child' \in [FlowIds -> {"none", "runs", "ok", "bad"}] /\ flow' \in [FlowIds -> FlowAt]
    BY <1>2 DEF ChildExits, ChildTimesOut, LarkTypeOK, FlowAt
  <2> QED
    BY <1>2, <2>1 DEF ChildExits, ChildTimesOut, Skilled, Counts, LarkTypeOK
<1>3. ASSUME NEW f \in FlowIds, NEW lost \in BOOLEAN, FlowStep(f, lost) PROVE LarkTypeOK'
  <2> DEFINE to == IF lost THEN "over" ELSE NextStep(flow[f], child[f])
  <2>1. to \in FlowAt
    BY DEF NextStep, FlowAt
  <2>2. [at |-> "list", left |-> {}] \in Syncs
    BY DEF Syncs
  <2>3. flow' = [flow EXCEPT ![f] = to]
        /\ child' = [child EXCEPT ![f] = IF to = "over" THEN "none" ELSE "runs"]
    BY <1>3 DEF FlowStep
  <2> HIDE DEF to
  <2>4. flow' \in [FlowIds -> FlowAt] /\ child' \in [FlowIds -> {"none", "runs", "ok", "bad"}]
    BY <2>1, <2>3 DEF LarkTypeOK
  <2>5. sync' \in [FlowIds -> Syncs] /\ syncTask' \in 0..MaxFlows
    BY <1>0, <1>3, <2>2 DEF FlowStep, LarkTypeOK
  <2> QED
    BY <1>3, <2>4, <2>5 DEF FlowStep, Counts, LarkTypeOK
<1>4. ASSUME NEW f \in FlowIds, SyncList(f) \/ SyncSkill(f) \/ SyncAnswered(f) PROVE LarkTypeOK'
  <2>1. UNCHANGED <<task, syncTask, flows, flow, child, installed, unbind>>
    BY <1>4 DEF SyncList, SyncSkill, SyncAnswered, Counts
  <2>2. \A s : After(f, s) \in Syncs
    BY <1>0 DEF After, Syncs, LarkTypeOK
  <2>3. \A s \in sync[f].left : s \in Skills /\ [at |-> s, left |-> sync[f].left] \in Syncs
    BY DEF Syncs, LarkTypeOK
  <2>4. sync' \in [FlowIds -> Syncs]
    <3>1. CASE SyncList(f)
      <4>1. [at |-> "read", left |-> Skills] \in Syncs
        BY DEF Syncs
      <4> QED
        BY <1>0, <3>1, <4>1 DEF SyncList, LarkTypeOK
    <3>2. CASE SyncSkill(f)
      BY <2>2, <2>3, <3>2 DEF SyncSkill, LarkTypeOK
    <3>3. CASE SyncAnswered(f)
      BY <2>2, <3>3 DEF SyncAnswered, LarkTypeOK
    <3> QED
      BY <1>4, <3>1, <3>2, <3>3
  <2>5. transit' \subseteq FlowIds \X Skills
    BY <1>4, <2>3 DEF SyncList, SyncSkill, SyncAnswered, LarkTypeOK
  <2> QED
    BY <2>1, <2>4, <2>5 DEF LarkTypeOK
<1>5. ASSUME NEW f \in FlowIds, NEW s \in Skills, ServerInstalls(f, s) PROVE LarkTypeOK'
  BY <1>5 DEF ServerInstalls, Counts, LarkTypeOK
<1>6. CASE StatusProbe \/ ProbeAnswers \/ StatusReturns \/ UNCHANGED larkVars
  BY <1>6 DEF StatusProbe, ProbeAnswers, StatusReturns, Skilled, Counts, larkVars, LarkTypeOK
<1>7. CASE UnbindBegins
  <2>1. [at |-> "flow", flow |-> task, left |-> {}]
          \in [at : {"free", "flow", "logout", "remove"}, flow : 0..MaxFlows, left : SUBSET Skills]
    BY DEF LarkTypeOK
  <2>2. flow' \in [FlowIds -> FlowAt] /\ child' \in [FlowIds -> {"none", "runs", "ok", "bad"}]
    BY <1>7 DEF UnbindBegins, CancelledChild, LarkTypeOK, FlowAt
  <2> QED
    BY <1>0, <1>7, <2>1, <2>2 DEF UnbindBegins, Skilled, LarkTypeOK
<1>8. CASE UnbindSync
  <2>1. sync' \in [FlowIds -> Syncs]
    BY <1>0, <1>8 DEF UnbindSync, SyncCancelled, LarkTypeOK
  <2>2. [unbind EXCEPT !.at = "logout"]
          \in [at : {"free", "flow", "logout", "remove"}, flow : 0..MaxFlows, left : SUBSET Skills]
    BY DEF LarkTypeOK
  <2> QED
    BY <1>0, <1>8, <2>1, <2>2 DEF UnbindSync, Counts, LarkTypeOK
<1>9. CASE UnbindLogout
  <2>1. \A left \in SUBSET Skills : [unbind EXCEPT !.at = "remove", !.left = left]
          \in [at : {"free", "flow", "logout", "remove"}, flow : 0..MaxFlows, left : SUBSET Skills]
    BY DEF LarkTypeOK
  <2>2. \E left \in SUBSET Skills : unbind' = [unbind EXCEPT !.at = "remove", !.left = left]
    BY <1>9 DEF UnbindLogout
  <2> QED
    BY <1>9, <2>1, <2>2 DEF UnbindLogout, Counts, LarkTypeOK
<1>10. CASE UnbindSkill
  <2>1. PICK s \in unbind.left : unbind' = [unbind EXCEPT !.left = unbind.left \ {s}]
                                 /\ installed' \in {installed, installed \ {s}}
    BY <1>10 DEF UnbindSkill
  <2>2. unbind' \in [at : {"free", "flow", "logout", "remove"}, flow : 0..MaxFlows, left : SUBSET Skills]
    BY <2>1 DEF LarkTypeOK
  <2> QED
    BY <1>10, <2>1, <2>2 DEF UnbindSkill, Counts, LarkTypeOK
<1>11. CASE UnbindWipe
  BY <1>0, <1>11 DEF UnbindWipe, Counts, LarkTypeOK
<1> QED
  BY <1>1, <1>2, <1>3, <1>4, <1>5, <1>6, <1>7, <1>8, <1>9, <1>10, <1>11 DEF LarkNext

\* What the flows, the children, the state and unbind are about stays.
LEMMA FlowQuiet ==
    ASSUME FlowInv, UNCHANGED <<flow, child, task, unbind, parted>>, home' = home \/ home' = {}
    PROVE  FlowInv'
  BY DEF FlowInv

\* Every step keeps what is known of flows and their children.
LEMMA FlowStays == LarkTypeOK /\ FlowInv /\ [LarkNext]_larkVars => FlowInv'
<1> SUFFICES ASSUME LarkTypeOK, FlowInv, [LarkNext]_larkVars PROVE FlowInv'
  OBVIOUS
<1>0. /\ \A f \in FlowIds : f # 0
      /\ flow \in [FlowIds -> FlowAt] /\ child \in [FlowIds -> {"none", "runs", "ok", "bad"}]
  BY LarkAssumption DEF FlowIds, LarkTypeOK
<1>1. CASE StartFlow
  <2>1. flows + 1 \in FlowIds
    BY <1>1, LarkAssumption DEF StartFlow, LarkTypeOK, FlowIds
  <2>2. PICK g \in FlowIds : g = flows + 1
    BY <2>1
  <2>3. unbind.at = "free" /\ (task # 0 => flow[task] \notin Working) /\ ~parted' /\ task' = g
        /\ flow' = [flow EXCEPT ![g] = "config"] /\ child' = [child EXCEPT ![g] = "runs"]
        /\ unbind' = unbind
    BY <1>1, <2>2 DEF StartFlow, Free
  <2>4. \A f \in FlowIds : flow[f] \notin Working
    BY <1>0, <2>3 DEF FlowInv
  <2>5. \A f \in FlowIds : /\ f = g => flow'[f] = "config" /\ child'[f] = "runs"
                           /\ f # g => flow'[f] = flow[f] /\ child'[f] = child[f]
    BY <1>0, <2>3
  <2> QED
    BY <2>3, <2>4, <2>5 DEF FlowInv, Working, FlowAt
<1>2. ASSUME NEW f \in FlowIds, ChildExits(f) \/ ChildTimesOut(f) PROVE FlowInv'
  <2>1. child[f] = "runs" /\ flow[f] \in Working /\ ~parted
    BY <1>2, NobodyWorks DEF ChildExits, ChildTimesOut, FlowInv
  <2>2. /\ UNCHANGED <<task, unbind, parted>>
        /\ flow'[f] \in {flow[f], "over"} /\ child'[f] # "runs"
        /\ \A g \in FlowIds : g # f => flow'[g] = flow[g] /\ child'[g] = child[g]
    BY <1>0, <1>2 DEF ChildExits, ChildTimesOut
  <2> QED
    BY <2>1, <2>2 DEF FlowInv, Working
<1>3. ASSUME NEW f \in FlowIds, NEW lost \in BOOLEAN, FlowStep(f, lost) PROVE FlowInv'
  <2> DEFINE to == IF lost THEN "over" ELSE NextStep(flow[f], child[f])
  <2>1. to = "over" \/ to \in Working
    BY DEF NextStep, Working, FlowAt
  <2>2. flow' = [flow EXCEPT ![f] = to] /\ flow[f] \in Working
        /\ child' = [child EXCEPT ![f] = IF to = "over" THEN "none" ELSE "runs"]
        /\ UNCHANGED <<task, home, unbind, parted>>
    BY <1>3 DEF FlowStep
  <2> HIDE DEF to
  <2>3. flow'[f] = to /\ child'[f] = (IF to = "over" THEN "none" ELSE "runs")
        /\ \A g \in FlowIds : g # f => flow'[g] = flow[g] /\ child'[g] = child[g]
    BY <1>0, <2>2
  <2> QED
    BY <2>1, <2>2, <2>3 DEF FlowInv, Working
<1>4. CASE UnbindBegins
  <2>1. unbind.at = "free" /\ task' = 0 /\ unbind'.at = "flow" /\ unbind'.flow = task
        /\ UNCHANGED <<home, parted>>
    BY <1>4 DEF UnbindBegins, Free
  <2>2. \A f \in FlowIds : /\ flow'[f] \in Working => flow[f] \in Working
                           /\ child'[f] = "runs" => child[f] = "runs" /\ flow'[f] = flow[f]
    BY <1>0, <1>4 DEF UnbindBegins, CancelledChild, Working
  <2> QED
    BY <2>1, <2>2 DEF FlowInv
<1>5. CASE UnbindSync
  <2>1. unbind.at = "flow" /\ (unbind.flow # 0 => flow[unbind.flow] \notin Working)
        /\ UNCHANGED <<task, flow, child, home, parted>> /\ unbind'.at = "logout"
        /\ unbind'.flow = unbind.flow
    BY <1>5 DEF UnbindSync, Counts, LarkTypeOK
  <2>2. \A f \in FlowIds : flow[f] \notin Working
    BY <1>0, <2>1 DEF FlowInv
  <2> QED
    BY <2>1, <2>2 DEF FlowInv
<1>6. CASE UnbindLogout
  <2>1. PICK left \in SUBSET Skills : unbind' = [unbind EXCEPT !.at = "remove", !.left = left]
    BY <1>6 DEF UnbindLogout
  <2>2. unbind'.at = "remove" /\ unbind'.flow = unbind.flow /\ unbind.at = "logout"
        /\ UNCHANGED <<task, flow, child, parted>> /\ (home = {} => home' = {})
    BY <1>6, <2>1 DEF UnbindLogout, LarkTypeOK
  <2> QED
    BY <2>2, NobodyWorks DEF FlowInv
<1>7. CASE UnbindSkill
  <2>1. PICK s \in unbind.left : unbind' = [unbind EXCEPT !.left = unbind.left \ {s}]
    BY <1>7 DEF UnbindSkill
  <2>2. unbind'.at = unbind.at /\ unbind'.flow = unbind.flow /\ UNCHANGED <<task, flow, child, parted, home>>
    BY <1>7, <2>1 DEF UnbindSkill, LarkTypeOK
  <2> QED
    BY <2>2 DEF FlowInv
<1>8. CASE UnbindWipe
  <2>1. unbind.at = "remove" /\ unbind'.at = "free" /\ unbind'.flow = 0 /\ home' = {} /\ task' = 0
        /\ UNCHANGED <<flow, child>>
    BY <1>8 DEF UnbindWipe, Free
  <2> QED
    BY <2>1, NobodyWorks DEF FlowInv
<1>9. ASSUME NEW f \in FlowIds, SyncList(f) \/ SyncSkill(f) \/ SyncAnswered(f) PROVE FlowInv'
  BY <1>9, FlowQuiet DEF SyncList, SyncSkill, SyncAnswered
<1>10. ASSUME NEW f \in FlowIds, NEW s \in Skills, ServerInstalls(f, s) PROVE FlowInv'
  BY <1>10, FlowQuiet DEF ServerInstalls
<1>11. CASE StatusProbe \/ ProbeAnswers \/ StatusReturns \/ UNCHANGED larkVars
  BY <1>11, FlowQuiet DEF StatusProbe, ProbeAnswers, StatusReturns, larkVars
<1> QED
  BY <1>1, <1>2, <1>3, <1>4, <1>5, <1>6, <1>7, <1>8, <1>9, <1>10, <1>11 DEF LarkNext

\* A step that leaves skills and syncs alone keeps what is known of them.
LEMMA RegisterQuiet ==
    ASSUME RegisterInv, UNCHANGED <<sync, syncTask, orphans, installed, excused>>,
           unbind' = unbind \/ unbind'.at \in {"free", "flow"}, parted' => parted
    PROVE  RegisterInv'
  BY DEF RegisterInv

\* Every step keeps what is known of skills and syncs.
LEMMA RegisterStays == LarkInv /\ [LarkNext]_larkVars => RegisterInv'
<1> SUFFICES ASSUME LarkTypeOK, FlowInv, RegisterInv, [LarkNext]_larkVars PROVE RegisterInv'
  BY DEF LarkInv
<1>0. (\A f \in FlowIds : f # 0) /\ sync \in [FlowIds -> Syncs]
  BY LarkAssumption DEF FlowIds, LarkTypeOK
<1>1. CASE StartFlow \/ UnbindBegins
  BY <1>1, RegisterQuiet DEF StartFlow, UnbindBegins, Skilled
<1>2. ASSUME NEW f \in FlowIds, ChildExits(f) \/ ChildTimesOut(f) PROVE RegisterInv'
  BY <1>2, RegisterQuiet DEF ChildExits, ChildTimesOut, Skilled
<1>3. ASSUME NEW f \in FlowIds, NEW lost \in BOOLEAN, FlowStep(f, lost) PROVE RegisterInv'
  <2>1. flow[f] \in Working /\ ~parted /\ unbind.at \notin {"logout", "remove"}
        /\ UNCHANGED <<unbind, parted, installed, excused>>
    BY <1>3, NobodyWorks DEF FlowStep
  <2>2. CASE UNCHANGED <<syncTask, sync, orphans>>
    BY <2>1, <2>2, RegisterQuiet
  <2>3. CASE /\ syncTask' = f /\ sync' = [sync EXCEPT ![f] = [at |-> "list", left |-> {}]]
             /\ orphans' = orphans \cup {g \in {syncTask} \ {0} : sync[g] # NoSync}
    <3>1. \A g \in FlowIds : g # f => sync'[g] = sync[g]
      BY <1>0, <2>3
    <3>2. ASSUME NEW g \in FlowIds, sync'[g] # NoSync PROVE g \in orphans' \/ syncTask' = g
      BY <1>0, <2>3, <3>1, <3>2 DEF RegisterInv
    <3> QED
      BY <2>1, <3>2 DEF RegisterInv
  <2> QED
    BY <1>3, <2>2, <2>3 DEF FlowStep
<1>4. ASSUME NEW f \in FlowIds, SyncList(f) \/ SyncSkill(f) \/ SyncAnswered(f) PROVE RegisterInv'
  <2>1. sync[f] # NoSync
    BY <1>4, LarkAssumption DEF SyncList, SyncSkill, SyncAnswered, Syncing, NoSync
  <2>2. \A g \in FlowIds : g # f => sync'[g] = sync[g]
    BY <1>0, <1>4 DEF SyncList, SyncSkill, SyncAnswered
  <2>3. UNCHANGED <<syncTask, orphans, installed, excused, unbind, parted>>
    BY <1>4 DEF SyncList, SyncSkill, SyncAnswered
  <2> QED
    BY <2>1, <2>2, <2>3 DEF RegisterInv
<1>5. ASSUME NEW f \in FlowIds, NEW s \in Skills, ServerInstalls(f, s) PROVE RegisterInv'
  <2>1. /\ installed' = installed \cup {s} /\ UNCHANGED <<syncTask, orphans, sync, unbind, parted>>
        /\ excused' = IF f \in orphans \/ sync[f].at # s THEN excused \cup {s} ELSE excused
    BY <1>5 DEF ServerInstalls
  <2>2. sync[f].at = s => sync[f] # NoSync
    BY LarkAssumption DEF NoSync
  <2>3. syncTask = 0 => s \in excused'
    BY <1>0, <2>1, <2>2 DEF RegisterInv
  <2>4. excused \subseteq excused'
    BY <2>1
  <2> QED
    BY <2>1, <2>3, <2>4 DEF RegisterInv
<1>6. CASE UnbindSync
  <2>1. unbind'.at = "logout" /\ syncTask' = 0 /\ UNCHANGED <<installed, excused, orphans, parted>>
        /\ sync' = IF syncTask = 0 THEN sync ELSE [sync EXCEPT ![syncTask] = NoSync]
    BY <1>6 DEF UnbindSync, SyncCancelled, LarkTypeOK
  <2>2. \A f \in FlowIds : sync'[f] # NoSync => f \in orphans
    BY <1>0, <2>1 DEF RegisterInv
  <2> QED
    BY <2>1, <2>2 DEF RegisterInv
<1>7. CASE UnbindLogout
  <2>1. PICK left \in {Skills, {}} :
          /\ unbind' = [unbind EXCEPT !.at = "remove", !.left = left]
          /\ excused' = IF left = {} THEN excused \cup installed ELSE excused
    BY <1>7 DEF UnbindLogout
  <2>2. unbind'.at = "remove" /\ unbind'.left = left /\ unbind.at = "logout"
        /\ UNCHANGED <<syncTask, sync, orphans, installed, parted>> /\ installed \subseteq Skills
    BY <1>7, <2>1 DEF UnbindLogout, LarkTypeOK
  <2>3. installed \subseteq excused' \cup left /\ excused \subseteq excused'
    BY <2>1, <2>2
  <2> QED
    BY <2>2, <2>3 DEF RegisterInv
<1>8. CASE UnbindSkill
  <2>1. PICK s \in unbind.left, ok \in BOOLEAN :
          /\ unbind' = [unbind EXCEPT !.left = unbind.left \ {s}]
          /\ installed' = IF ok THEN installed \ {s} ELSE installed
          /\ excused' = IF ok THEN excused \ {s} ELSE excused \cup {s}
    BY <1>8 DEF UnbindSkill
  <2>2. unbind'.at = unbind.at /\ unbind'.left = unbind.left \ {s}
        /\ UNCHANGED <<syncTask, sync, orphans, parted>>
    BY <1>8, <2>1 DEF UnbindSkill, LarkTypeOK
  <2>3. /\ installed \subseteq excused => installed' \subseteq excused'
        /\ installed \subseteq excused \cup unbind.left => installed' \subseteq excused' \cup (unbind.left \ {s})
    BY <2>1
  <2> QED
    BY <2>2, <2>3 DEF RegisterInv
<1>9. CASE UnbindWipe
  <2>1. unbind.at = "remove" /\ unbind.left = {} /\ unbind'.at = "free" /\ syncTask' = 0
        /\ UNCHANGED <<sync, orphans, installed, excused>>
    BY <1>9 DEF UnbindWipe, Free
  <2> QED
    BY <2>1 DEF RegisterInv
<1>10. CASE StatusProbe \/ ProbeAnswers \/ StatusReturns \/ UNCHANGED larkVars
  BY <1>10, RegisterQuiet DEF StatusProbe, ProbeAnswers, StatusReturns, Skilled, larkVars
<1> QED
  BY <1>1, <1>2, <1>3, <1>4, <1>5, <1>6, <1>7, <1>8, <1>9, <1>10 DEF LarkNext

\* Once unbind has returned the account is gone: files, flows, children and skills,
\* whatever was in flight when it began (lark/binding.py, skills_sync.py).
THEOREM UnbindLeavesNothingHolds == LarkSpec => []UnbindLeavesNothing
<1>1. LarkInv /\ [LarkNext]_larkVars => LarkInv'
  BY LarkTypes, FlowStays, RegisterStays DEF LarkInv
<1> QED
  BY <1>1, LarkInitInv, LarkInvSound, PTL DEF LarkSpec
=============================================================================
