----------------------------- MODULE TurnProofs -----------------------------
(***************************************************************************)
(* Proofs about a turn of a run: the sub-agents it sets going and the sink *)
(* its events go to, SubAgents and RunSink, for any number of sub-agents,  *)
(* paths, streams, events and subscribers; and what a turn is given to go  *)
(* on, Conversation and ToolRepair, for any limits, any history and any    *)
(* number of runs.                                                         *)
(*                                                                         *)
(* The library's induction theorems take an operator, and no prover can    *)
(* instantiate them.  NatInductive is derived without: were m the first    *)
(* number not in X, adding one would map the part of X in 0..m into itself *)
(* but not onto it, against the pigeonhole theorem.  With it lists that    *)
(* are made item by item (FlattenSeq) can be reasoned about.               *)
(***************************************************************************)
EXTENDS RunSink, SubAgents, Conversation, ToolRepair, FiniteSetTheorems, TLAPS

-----------------------------------------------------------------------------
(* Sub-agents.                                                             *)

SubSpec == SubInit /\ [][SubNext]_subVars

SubStages == {"idle", "queued", "busy", "asking", "following", "ended"}
SubStates == [at : SubStages, path : Locations \cup {Nowhere},
              told : {"no", "granted", "denied", "cancelled"}]

SubTypeOK ==
    /\ sub \in [Subs -> SubStates]
    /\ owner \in [Locations -> Subs \cup {Nobody}]
    /\ batch \in SUBSET Locations

\* An open request is owned by a call that waits for its card, and a call that
\* joined a request still waits on an open one.
OwnersAsk ==
    \A p \in Locations : owner[p] # Nobody => sub[owner[p]].at = "asking" /\ sub[owner[p]].path = p

FollowersJoined ==
    \A c \in Subs : sub[c].at = "following" /\ sub[c].told = "no" =>
        sub[c].path \in Locations /\ owner[sub[c].path] # Nobody

SubInv == SubTypeOK /\ OwnersAsk /\ FollowersJoined /\ SystemByHand

\* No call asks at the start.
LEMMA SubInitInv == SubInit => SubInv
  BY SubsAssumption DEF SubInit, SubInv, SubTypeOK, OwnersAsk, FollowersJoined, SystemByHand,
     SubStates, SubStages, IdleSub, Nobody, Nowhere

\* Only a click on a card or on the settings page opens a system location.
LEMMA SystemStays == SubTypeOK /\ SystemByHand /\ [SubNext]_subVars => SystemByHand'
<1> SUFFICES ASSUME SubTypeOK, SystemByHand, [SubNext]_subVars PROVE SystemByHand'
  OBVIOUS
<1>1. CASE UNCHANGED <<visible, byHand>>
  BY <1>1 DEF SystemByHand
<1>2. ASSUME NEW p \in Locations, visible' = visible \cup {p}, byHand' = byHand \cup {p}
      PROVE  SystemByHand'
  BY <1>2 DEF SystemByHand
<1>3. ASSUME NEW c \in Subs, NEW p \in Locations, RequestAccess(c, p) PROVE SystemByHand'
  BY <1>1, <1>3 DEF RequestAccess, PolicyGrants, SystemByHand
<1>4. ASSUME NEW p \in Locations, NEW yes \in BOOLEAN, AccessAnswered(p, yes) PROVE SystemByHand'
  BY <1>1, <1>2, <1>4 DEF AccessAnswered
<1>5. ASSUME NEW p \in Locations, RemoveVisible(p) PROVE SystemByHand'
  BY <1>5 DEF RemoveVisible, SystemByHand
<1>6. ASSUME NEW ps \in SUBSET Locations, BatchAsks(ps) PROVE SystemByHand'
  BY <1>1, <1>6 DEF BatchAsks, PolicyGrants, SystemByHand
<1>7. ASSUME NEW yes \in BOOLEAN, BatchAnswered(yes) PROVE SystemByHand'
  BY <1>1, <1>7 DEF BatchAnswered, SystemByHand
<1>8. ASSUME NEW p \in Locations, AddVisible(p) PROVE SystemByHand'
  BY <1>2, <1>8 DEF AddVisible
<1>9. CASE \E c \in Subs : Delegate(c) \/ Acquire(c) \/ FollowerWakes(c) \/ DelegateTimesOut(c)
                           \/ DelegateReturns(c)
  BY <1>1, <1>9 DEF Delegate, Acquire, FollowerWakes, DelegateTimesOut, DelegateReturns
<1>10. CASE SubRunStarts \/ SubRunStopped \/ SubRunFinishes \/ ToggleAuto \/ UNCHANGED subVars
  BY <1>1, <1>10 DEF SubRunStarts, SubRunStopped, SubRunFinishes, ToggleAuto, subVars
<1> QED
  BY <1>3, <1>4, <1>5, <1>6, <1>7, <1>8, <1>9, <1>10 DEF SubNext

Waits == SubTypeOK /\ OwnersAsk /\ FollowersJoined

\* A call that owns no card and opens none changes nothing for the others.
LEMMA AloneKeeps ==
    ASSUME Waits, NEW c \in Subs, NEW v \in SubStates,
           sub' = [sub EXCEPT ![c] = v], owner' = owner, batch' \in SUBSET Locations,
           sub[c].at # "asking",
           v.at = "following" /\ v.told = "no" => v.path \in Locations /\ owner[v.path] # Nobody
    PROVE  Waits'
<1>1. SubTypeOK'
  BY DEF Waits, SubTypeOK
<1>2. OwnersAsk'
  <2> SUFFICES ASSUME NEW p \in Locations, owner[p] # Nobody
               PROVE  sub'[owner[p]].at = "asking" /\ sub'[owner[p]].path = p
    BY DEF OwnersAsk
  <2>1. owner[p] \in Subs /\ sub[owner[p]].at = "asking" /\ sub[owner[p]].path = p
    BY DEF Waits, OwnersAsk, SubTypeOK
  <2>2. owner[p] # c
    BY <2>1
  <2> QED
    BY <2>1, <2>2 DEF Waits, SubTypeOK
<1>3. FollowersJoined'
  <2> SUFFICES ASSUME NEW d \in Subs, sub'[d].at = "following", sub'[d].told = "no"
               PROVE  sub'[d].path \in Locations /\ owner[sub'[d].path] # Nobody
    BY DEF FollowersJoined
  <2>1. CASE d = c
    BY <2>1 DEF Waits, SubTypeOK
  <2>2. CASE d # c
    BY <2>2 DEF Waits, SubTypeOK, FollowersJoined
  <2> QED
    BY <2>1, <2>2
<1> QED
  BY <1>1, <1>2, <1>3 DEF Waits

\* Where every call is idle nobody waits.
LEMMA AtRest ==
    ASSUME sub' = [c \in Subs |-> IdleSub], owner' \in [Locations -> {Nobody}],
           batch' \in SUBSET Locations
    PROVE  Waits'
  BY SubsAssumption DEF Waits, SubTypeOK, OwnersAsk, FollowersJoined, SubStates, SubStages,
     IdleSub, Nobody

\* A call that asks for a path owns the request or joins the one that is open.
LEMMA RequestKeeps ==
    ASSUME Waits, NEW c \in Subs, NEW p \in Locations, RequestAccess(c, p)
    PROVE  Waits'
<1>0. batch' \in SUBSET Locations /\ sub[c].at = "busy"
  BY DEF RequestAccess, Waits, SubTypeOK
<1>1. CASE owner[p] # Nobody
  <2> DEFINE v == [at |-> "following", path |-> p, told |-> IF p \in spoiled THEN "cancelled" ELSE "no"]
  <2>1. v \in SubStates /\ v.at = "following" /\ v.path = p
    BY DEF SubStates, SubStages
  <2>2. sub' = [sub EXCEPT ![c] = v] /\ owner' = owner
    BY <1>1 DEF RequestAccess
  <2> HIDE DEF v
  <2> QED
    BY <1>0, <1>1, <2>1, <2>2, AloneKeeps
<1>2. CASE owner' = owner /\ sub' = sub
  BY <1>0, <1>2 DEF Waits, SubTypeOK, OwnersAsk, FollowersJoined
<1>3. CASE /\ owner[p] = Nobody
           /\ sub' = [sub EXCEPT ![c] = [at |-> "asking", path |-> p, told |-> "no"]]
           /\ owner' = [owner EXCEPT ![p] = c]
  <2> DEFINE v == [at |-> "asking", path |-> p, told |-> "no"]
  <2>1. v \in SubStates /\ v.at = "asking" /\ v.path = p
    BY DEF SubStates, SubStages
  <2>2. sub' = [sub EXCEPT ![c] = v]
    BY <1>3
  <2> HIDE DEF v
  <2>3. SubTypeOK'
    BY <1>0, <1>3, <2>1, <2>2 DEF Waits, SubTypeOK
  <2>4. sub'[c] = v /\ owner'[p] = c
    BY <1>3, <2>2 DEF Waits, SubTypeOK
  <2>5. OwnersAsk'
    <3> SUFFICES ASSUME NEW q \in Locations, owner'[q] # Nobody
                 PROVE  sub'[owner'[q]].at = "asking" /\ sub'[owner'[q]].path = q
      BY DEF OwnersAsk
    <3>1. CASE q = p
      BY <2>1, <2>4, <3>1
    <3>2. CASE q # p
      <4>1. owner'[q] = owner[q] /\ owner[q] \in Subs
        BY <1>3, <3>2 DEF Waits, SubTypeOK
      <4>2. sub[owner[q]].at = "asking" /\ sub[owner[q]].path = q
        BY <4>1 DEF Waits, OwnersAsk
      <4>3. owner[q] # c
        BY <1>0, <4>2
      <4> QED
        BY <2>2, <4>1, <4>2, <4>3 DEF Waits, SubTypeOK
    <3> QED
      BY <3>1, <3>2
  <2>6. FollowersJoined'
    <3> SUFFICES ASSUME NEW d \in Subs, sub'[d].at = "following", sub'[d].told = "no"
                 PROVE  sub'[d].path \in Locations /\ owner'[sub'[d].path] # Nobody
      BY DEF FollowersJoined
    <3>1. d # c
      BY <2>1, <2>4
    <3>2. sub'[d] = sub[d]
      BY <2>2, <3>1 DEF Waits, SubTypeOK
    <3>3. sub[d].path \in Locations /\ owner[sub[d].path] # Nobody
      BY <3>2 DEF Waits, FollowersJoined
    <3> QED
      BY <1>3, <3>2, <3>3, SubsAssumption DEF Waits, SubTypeOK, Nobody
  <2> QED
    BY <2>3, <2>5, <2>6 DEF Waits
<1> QED
  BY <1>1, <1>2, <1>3 DEF RequestAccess

\* An answer reaches every call that joined: none is left on the closed request.
LEMMA AnswerKeeps ==
    ASSUME Waits, NEW p \in Locations, NEW yes \in BOOLEAN, AccessAnswered(p, yes)
    PROVE  Waits'
<1> DEFINE o == owner[p]
           what == IF yes THEN "granted" ELSE "denied"
           subs == [sub EXCEPT ![o].at = "busy"]
<1>1. o \in Subs /\ sub[o].at = "asking" /\ sub[o].path = p
  BY DEF AccessAnswered, Waits, SubTypeOK, OwnersAsk
<1>2. /\ owner' = [owner EXCEPT ![p] = Nobody] /\ batch' = batch
      /\ sub' = Told(subs, p, what)
  BY DEF AccessAnswered
<1>3. what \in {"granted", "denied"}
  OBVIOUS
<1> HIDE DEF what
<1>4. subs[o] = [sub[o] EXCEPT !.at = "busy"] /\ \A c \in Subs : c # o => subs[c] = sub[c]
  BY <1>1 DEF Waits, SubTypeOK
<1> HIDE DEF subs
<1>5. o \notin Followers(p)
  BY <1>1 DEF Followers
<1>6. ASSUME NEW c \in Subs
      PROVE  /\ c \in Followers(p) => sub'[c] = [sub[c] EXCEPT !.told = what]
             /\ c = o => sub'[c] = [sub[c] EXCEPT !.at = "busy"]
             /\ c \notin Followers(p) /\ c # o => sub'[c] = sub[c]
  BY <1>2, <1>4, <1>5 DEF Told
<1>7. SubTypeOK'
  <2>1. ASSUME NEW c \in Subs PROVE sub'[c] \in SubStates
    <3>1. sub[c] \in SubStates
      BY DEF Waits, SubTypeOK
    <3>2. [sub[c] EXCEPT !.told = what] \in SubStates /\ [sub[c] EXCEPT !.at = "busy"] \in SubStates
      BY <1>3, <3>1 DEF SubStates, SubStages
    <3> QED
      BY <1>6, <3>1, <3>2
  <2>2. sub' \in [Subs -> SubStates]
    BY <1>2, <2>1 DEF Told
  <2> QED
    BY <1>2, <2>2 DEF Waits, SubTypeOK
<1>8. OwnersAsk'
  <2> SUFFICES ASSUME NEW q \in Locations, owner'[q] # Nobody
               PROVE  sub'[owner'[q]].at = "asking" /\ sub'[owner'[q]].path = q
    BY DEF OwnersAsk
  <2>1. q # p /\ owner'[q] = owner[q] /\ owner[q] \in Subs
    BY <1>2 DEF Waits, SubTypeOK
  <2>2. sub[owner[q]].at = "asking" /\ sub[owner[q]].path = q
    BY <2>1 DEF Waits, OwnersAsk
  <2>3. owner[q] # o /\ owner[q] \notin Followers(p)
    BY <1>1, <2>1, <2>2 DEF Followers
  <2> QED
    BY <1>6, <2>1, <2>2, <2>3
<1>9. FollowersJoined'
  <2> SUFFICES ASSUME NEW d \in Subs, sub'[d].at = "following", sub'[d].told = "no"
               PROVE  sub'[d].path \in Locations /\ owner'[sub'[d].path] # Nobody
    BY DEF FollowersJoined
  <2>0. sub[d] \in SubStates
    BY DEF Waits, SubTypeOK
  <2>1. d \notin Followers(p) /\ d # o
    BY <1>3, <1>6, <2>0 DEF SubStates
  <2>2. sub'[d] = sub[d]
    BY <1>6, <2>1
  <2>3. sub[d].path \in Locations /\ owner[sub[d].path] # Nobody
    BY <2>2 DEF Waits, FollowersJoined
  <2>4. sub[d].path # p
    BY <2>1, <2>2 DEF Followers
  <2> QED
    BY <1>2, <2>2, <2>3, <2>4 DEF Waits, SubTypeOK
<1> QED
  BY <1>7, <1>8, <1>9 DEF Waits

\* A call that times out tells whoever waits on its request, or with it.
LEMMA TimeoutKeeps ==
    ASSUME Waits, NEW c \in Subs, DelegateTimesOut(c)
    PROVE  Waits'
<1> DEFINE gone == [IdleSub EXCEPT !.at = "ended"]
           p == sub[c].path
           hit == sub[c].at = "asking" \/ c \in Followers(p)
           others == [sub EXCEPT ![c] = gone]
<1>1. sub' = Cancelled(c) /\ owner' = Leave(c) /\ batch' = batch
  BY DEF DelegateTimesOut
<1>2. gone \in SubStates /\ gone.at = "ended"
  BY DEF IdleSub, SubStates, SubStages
<1>3. others[c] = gone /\ (\A d \in Subs : d # c => others[d] = sub[d]) /\ others \in [Subs -> SubStates]
  BY <1>2 DEF Waits, SubTypeOK
<1>4. sub' = IF hit THEN [d \in Subs |-> IF d # c /\ d \in Followers(p)
                                        THEN [sub[d] EXCEPT !.told = "cancelled"] ELSE others[d]]
                    ELSE others
  BY <1>1 DEF Cancelled
<1> HIDE DEF gone, others
<1>5. ASSUME NEW d \in Subs
      PROVE  /\ d = c => sub'[d] = gone
             /\ d # c /\ hit /\ d \in Followers(p) => sub'[d] = [sub[d] EXCEPT !.told = "cancelled"]
             /\ d # c /\ ~(hit /\ d \in Followers(p)) => sub'[d] = sub[d]
  BY <1>3, <1>4
<1>6. SubTypeOK'
  <2>1. ASSUME NEW d \in Subs PROVE sub'[d] \in SubStates
    <3>1. sub[d] \in SubStates
      BY DEF Waits, SubTypeOK
    <3>2. [sub[d] EXCEPT !.told = "cancelled"] \in SubStates
      BY <3>1 DEF SubStates, SubStages
    <3> QED
      BY <1>2, <1>5, <3>1, <3>2
  <2>2. sub' \in [Subs -> SubStates]
    <3>1. CASE hit
      BY <1>4, <2>1, <3>1
    <3>2. CASE ~hit
      BY <1>3, <1>4, <3>2
    <3> QED
      BY <3>1, <3>2
  <2>3. owner' \in [Locations -> Subs \cup {Nobody}]
    BY <1>1 DEF Leave, Waits, SubTypeOK
  <2> QED
    BY <1>1, <2>2, <2>3 DEF Waits, SubTypeOK
<1>7. ASSUME NEW q \in Locations
      PROVE  owner'[q] = IF owner[q] = c THEN Nobody ELSE owner[q]
  BY <1>1 DEF Leave
<1>8. OwnersAsk'
  <2> SUFFICES ASSUME NEW q \in Locations, owner'[q] # Nobody
               PROVE  sub'[owner'[q]].at = "asking" /\ sub'[owner'[q]].path = q
    BY DEF OwnersAsk
  <2>1. owner[q] # c /\ owner'[q] = owner[q] /\ owner[q] \in Subs
    BY <1>7 DEF Waits, SubTypeOK
  <2>2. sub[owner[q]].at = "asking" /\ sub[owner[q]].path = q
    BY <2>1 DEF Waits, OwnersAsk
  <2>3. owner[q] \notin Followers(p)
    BY <2>2 DEF Followers
  <2> QED
    BY <1>5, <2>1, <2>2, <2>3
<1>9. FollowersJoined'
  <2> SUFFICES ASSUME NEW d \in Subs, sub'[d].at = "following", sub'[d].told = "no"
               PROVE  sub'[d].path \in Locations /\ owner'[sub'[d].path] # Nobody
    BY DEF FollowersJoined
  <2>0. sub[d] \in SubStates
    BY DEF Waits, SubTypeOK
  <2>1. d # c /\ ~(hit /\ d \in Followers(p))
    BY <1>2, <1>5, <2>0 DEF SubStates
  <2>2. sub'[d] = sub[d]
    BY <1>5, <2>1
  <2>3. sub[d].path \in Locations /\ owner[sub[d].path] # Nobody
    BY <2>2 DEF Waits, FollowersJoined
  <2>4. owner[sub[d].path] # c
    <3> SUFFICES ASSUME owner[sub[d].path] = c PROVE FALSE
      OBVIOUS
    <3>1. sub[c].at = "asking" /\ p = sub[d].path
      BY <2>3 DEF Waits, OwnersAsk
    <3>2. d \in Followers(p)
      BY <2>2, <3>1 DEF Followers
    <3> QED
      BY <2>1, <3>1, <3>2
  <2> QED
    BY <1>7, <2>2, <2>3, <2>4
<1> QED
  BY <1>6, <1>8, <1>9 DEF Waits
\* Every step keeps the waits in agreement with the requests.
LEMMA WaitsStay == Waits /\ [SubNext]_subVars => Waits'
<1> SUFFICES ASSUME Waits, [SubNext]_subVars PROVE Waits'
  OBVIOUS
<1>1. CASE UNCHANGED <<sub, owner>> /\ batch' \in SUBSET Locations
  BY <1>1 DEF Waits, SubTypeOK, OwnersAsk, FollowersJoined
<1>2. ASSUME NEW c \in Subs, Delegate(c) \/ Acquire(c) \/ DelegateReturns(c) PROVE Waits'
  <2> PICK a \in {"queued", "busy", "ended"} : sub' = [sub EXCEPT ![c].at = a]
    BY <1>2 DEF Delegate, Acquire, DelegateReturns
  <2>1. owner' = owner /\ batch' = batch /\ sub[c].at # "asking"
    BY <1>2 DEF Delegate, Acquire, DelegateReturns
  <2>2. batch' \in SUBSET Locations
    BY <2>1 DEF Waits, SubTypeOK
  <2> DEFINE v == [sub[c] EXCEPT !.at = a]
  <2>3. v \in SubStates /\ v.at # "following"
    BY DEF Waits, SubTypeOK, SubStates, SubStages
  <2>4. sub' = [sub EXCEPT ![c] = v]
    OBVIOUS
  <2> HIDE DEF v
  <2> QED
    BY <2>1, <2>2, <2>3, <2>4, AloneKeeps
<1>3. ASSUME NEW c \in Subs, FollowerWakes(c) PROVE Waits'
  <2>1. owner' = owner /\ batch' = batch /\ sub[c].at # "asking"
    BY <1>3 DEF FollowerWakes
  <2>2. batch' \in SUBSET Locations
    BY <2>1 DEF Waits, SubTypeOK
  <2>3. ASSUME NEW a \in {"busy", "ended"}, sub' = [sub EXCEPT ![c] = [IdleSub EXCEPT !.at = a]]
        PROVE  Waits'
    <3> DEFINE v == [IdleSub EXCEPT !.at = a]
    <3>1. v \in SubStates /\ v.at # "following"
      BY DEF IdleSub, SubStates, SubStages
    <3>2. sub' = [sub EXCEPT ![c] = v]
      BY <2>3
    <3> HIDE DEF v
    <3> QED
      BY <2>1, <2>2, <3>1, <3>2, AloneKeeps
  <2> QED
    BY <1>3, <2>3 DEF FollowerWakes
<1>4. ASSUME NEW c \in Subs, DelegateTimesOut(c) PROVE Waits'
  BY <1>4, TimeoutKeeps
<1>5. ASSUME NEW c \in Subs, NEW p \in Locations, RequestAccess(c, p) PROVE Waits'
  BY <1>5, RequestKeeps
<1>6. ASSUME NEW p \in Locations, NEW yes \in BOOLEAN, AccessAnswered(p, yes) PROVE Waits'
  BY <1>6, AnswerKeeps
<1>7. CASE SubRunStopped
  BY <1>7, AtRest DEF SubRunStopped
<1>8. CASE SubRunFinishes
  <2>1. \A p \in Locations : owner[p] = Nobody
    BY <1>8 DEF SubRunFinishes, Waits, SubTypeOK, OwnersAsk
  <2>2. owner' \in [Locations -> {Nobody}]
    BY <1>8, <2>1 DEF SubRunFinishes, Waits, SubTypeOK
  <2> QED
    BY <1>8, <2>2, AtRest DEF SubRunFinishes
<1>9. CASE SubRunStarts \/ ToggleAuto \/ UNCHANGED subVars
           \/ \E p \in Locations : AddVisible(p) \/ RemoveVisible(p)
  BY <1>1, <1>9 DEF SubRunStarts, ToggleAuto, subVars, AddVisible, RemoveVisible, Waits, SubTypeOK
<1>10. ASSUME NEW ps \in SUBSET Locations, BatchAsks(ps) PROVE Waits'
  BY <1>1, <1>10 DEF BatchAsks, Waits, SubTypeOK
<1>11. ASSUME NEW yes \in BOOLEAN, BatchAnswered(yes) PROVE Waits'
  BY <1>1, <1>11 DEF BatchAnswered
<1> QED
  BY <1>2, <1>3, <1>4, <1>5, <1>6, <1>7, <1>8, <1>9, <1>10, <1>11 DEF SubNext

\* So they always are.
LEMMA SubInvariance == SubSpec => []SubInv
<1>1. SubInv /\ [SubNext]_subVars => SubInv'
  BY WaitsStay, SystemStays DEF SubInv, Waits
<1> QED
  BY <1>1, SubInitInv, PTL DEF SubSpec

\* However sub-agents join, time out, are answered or stopped, none waits on a
\* request without an owner (fs/access_request.py:116-171).
THEOREM NoStrandedWaitHolds == SubSpec => []NoStrandedWait
<1>1. SubInv => NoStrandedWait
  BY DEF SubInv, SubTypeOK, OwnersAsk, FollowersJoined, NoStrandedWait
<1> QED
  BY <1>1, SubInvariance, PTL

\* No policy opens a system location (permissions.py:311-330).
THEOREM SystemByHandHolds == SubSpec => []SystemByHand
<1>1. SubInv => SystemByHand
  BY DEF SubInv
<1> QED
  BY <1>1, SubInvariance, PTL

-----------------------------------------------------------------------------
(* The sink of a run.  Operators over a sequence of events E, so that what *)
(* is known of E can be carried over to E with one more event.             *)

SinkSpec == SinkInit /\ [][SinkNext]_sinkVars

Rows == Seq(Seq(Nat))

\* The parts of the invariant, for events E, past rows P and buffers U.
OrderedIn(E, i, j) == Whole(E[i]) \/ Whole(E[j]) \/ E[i].scope = E[j].scope
KnownIn(E, R) == \A r \in DOMAIN R : \A p \in DOMAIN R[r] : R[r][p] \in DOMAIN E
InOrderIn(E, R) ==
    \A r, s \in DOMAIN R : \A p \in DOMAIN R[r], q \in DOMAIN R[s] :
        r < s \/ (r = s /\ p < q) =>
            /\ R[r][p] # R[s][q]
            /\ OrderedIn(E, R[r][p], R[s][q]) => R[r][p] < R[s][q]
\* The rows Q can be read after the rows R.
Follows(E, R, Q) ==
    \A r \in DOMAIN R, s \in DOMAIN Q : \A p \in DOMAIN R[r], q \in DOMAIN Q[s] :
        /\ R[r][p] # Q[s][q]
        /\ OrderedIn(E, R[r][p], Q[s][q]) => R[r][p] < Q[s][q]

KeyIn(E, b) == E[b[1]]
\* What a buffer holds: deltas of one scope and type, in the order they were put,
\* and later than every whole event.
BufferIn(E, b) ==
    /\ b # <<>>
    /\ \A p \in DOMAIN b : b[p] \in DOMAIN E /\ E[b[p]] = KeyIn(E, b) /\ ~Whole(KeyIn(E, b))
    /\ \A p, q \in DOMAIN b : p < q => b[p] < b[q]
    /\ \A p \in DOMAIN b, n \in DOMAIN E : Whole(E[n]) => n < b[p]
BuffersIn(E, U) ==
    /\ \A i \in DOMAIN U : BufferIn(E, U[i])
    /\ \A i, j \in DOMAIN U : i # j => KeyIn(E, U[i]).scope # KeyIn(E, U[j]).scope

PastIn(E, P, U) ==
    InOrderIn(E, P) /\ KnownIn(E, P) /\ BuffersIn(E, U) /\ Follows(E, P, U)
CoveredIn(E, P, U) == \A n \in DOMAIN E : Shows(P, n) \/ Shows(U, n)

PastSound == up => PastIn(emitted, past, unflushed) /\ CoveredIn(emitted, past, unflushed)

\* A reader of the rows R has seen every event of E, each once and in order.
Reads(E, R) == InOrderIn(E, R) /\ KnownIn(E, R) /\ \A n \in DOMAIN E : Shows(R, n)
ClientsSound == \A c \in Clients : client[c].on => Reads(emitted, client[c].got)

TableSound == ~missed => IF up THEN table = past ELSE LogReplays

SinkTypeOK ==
    /\ up \in BOOLEAN /\ missed \in BOOLEAN
    /\ emitted \in Seq(Events)
    /\ past \in Rows /\ unflushed \in Rows
    /\ client \in [Clients -> [on : BOOLEAN, got : Rows]]

SinkInv == SinkTypeOK /\ PastSound /\ ClientsSound /\ TableSound

\* Rows that can be read after others, put behind them.
LEMMA ConcatInOrder ==
  ASSUME NEW E, NEW R \in Rows, NEW Q \in Rows,
         InOrderIn(E, R), InOrderIn(E, Q), Follows(E, R, Q)
  PROVE  InOrderIn(E, R \o Q)
<1> DEFINE C == R \o Q
<1>1. /\ Len(R) \in Nat /\ Len(Q) \in Nat /\ DOMAIN R = 1 .. Len(R) /\ DOMAIN Q = 1 .. Len(Q)
      /\ DOMAIN C = 1 .. Len(R) + Len(Q)
  BY DEF Rows
<1>2. \A k \in DOMAIN C : \/ k \in DOMAIN R /\ C[k] = R[k]
                          \/ k - Len(R) \in DOMAIN Q /\ k > Len(R) /\ C[k] = Q[k - Len(R)]
  BY <1>1 DEF Rows
<1> SUFFICES ASSUME NEW r \in DOMAIN C, NEW s \in DOMAIN C, NEW p \in DOMAIN C[r], NEW q \in DOMAIN C[s],
                    r < s \/ (r = s /\ p < q)
             PROVE  /\ C[r][p] # C[s][q]
                    /\ OrderedIn(E, C[r][p], C[s][q]) => C[r][p] < C[s][q]
  BY DEF InOrderIn
<1> HIDE DEF C
<1>3. CASE r \in DOMAIN R /\ C[r] = R[r] /\ s \in DOMAIN R /\ C[s] = R[s]
  BY <1>3 DEF InOrderIn
<1>4. CASE r \in DOMAIN R /\ C[r] = R[r] /\ s - Len(R) \in DOMAIN Q /\ C[s] = Q[s - Len(R)]
  BY <1>4 DEF Follows
<1>5. CASE /\ r - Len(R) \in DOMAIN Q /\ C[r] = Q[r - Len(R)]
           /\ s - Len(R) \in DOMAIN Q /\ C[s] = Q[s - Len(R)]
  <2>1. r - Len(R) < s - Len(R) \/ (r - Len(R) = s - Len(R) /\ p < q)
    BY <1>1
  <2> QED
    BY <1>5, <2>1 DEF InOrderIn
<1>6. CASE r > Len(R) /\ s \in DOMAIN R
  BY <1>1, <1>6
<1> QED
  BY <1>2, <1>3, <1>4, <1>5, <1>6

\* What rows put behind others show.
LEMMA ConcatShows ==
  ASSUME NEW R \in Rows, NEW Q \in Rows, NEW n
  PROVE  Shows(R \o Q, n) <=> Shows(R, n) \/ Shows(Q, n)
<1> DEFINE C == R \o Q
<1>1. /\ Len(R) \in Nat /\ Len(Q) \in Nat /\ DOMAIN R = 1 .. Len(R) /\ DOMAIN Q = 1 .. Len(Q)
      /\ DOMAIN C = 1 .. Len(R) + Len(Q)
  BY DEF Rows
<1>2. \A k \in DOMAIN C : \/ k \in DOMAIN R /\ C[k] = R[k]
                          \/ k - Len(R) \in DOMAIN Q /\ C[k] = Q[k - Len(R)]
  BY <1>1 DEF Rows
<1>3. \A k \in DOMAIN R : k \in DOMAIN C /\ C[k] = R[k]
  BY <1>1 DEF Rows
<1>4. \A k \in DOMAIN Q : k + Len(R) \in DOMAIN C /\ C[k + Len(R)] = Q[k]
  BY <1>1 DEF Rows
<1> HIDE DEF C
<1>5. Shows(C, n) => Shows(R, n) \/ Shows(Q, n)
  BY <1>2 DEF Shows
<1>6. Shows(R, n) => Shows(C, n)
  BY <1>3 DEF Shows
<1>7. Shows(Q, n) => Shows(C, n)
  BY <1>4 DEF Shows
<1> QED
  BY <1>5, <1>6, <1>7 DEF C

\* Rows of known events put behind such rows.
LEMMA ConcatKnown ==
  ASSUME NEW E, NEW R \in Rows, NEW Q \in Rows, KnownIn(E, R), KnownIn(E, Q)
  PROVE  R \o Q \in Rows /\ KnownIn(E, R \o Q)
<1> DEFINE C == R \o Q
<1>1. /\ Len(R) \in Nat /\ Len(Q) \in Nat /\ DOMAIN R = 1 .. Len(R) /\ DOMAIN Q = 1 .. Len(Q)
      /\ DOMAIN C = 1 .. Len(R) + Len(Q) /\ C \in Rows
  BY DEF Rows
<1>2. \A k \in DOMAIN C : \/ k \in DOMAIN R /\ C[k] = R[k]
                          \/ k - Len(R) \in DOMAIN Q /\ C[k] = Q[k - Len(R)]
  BY <1>1 DEF Rows
<1> HIDE DEF C
<1>3. KnownIn(E, C)
  BY <1>2 DEF KnownIn
<1> QED
  BY <1>1, <1>3 DEF C

\* The buffers, flushed in insertion order, can be read one after the other.
LEMMA BuffersInOrder ==
  ASSUME NEW E \in Seq(Events), NEW U \in Rows, BuffersIn(E, U)
  PROVE  InOrderIn(E, U) /\ KnownIn(E, U)
<1>1. KnownIn(E, U)
  BY DEF KnownIn, BuffersIn, BufferIn
<1>2. ASSUME NEW r \in DOMAIN U, NEW s \in DOMAIN U, NEW p \in DOMAIN U[r], NEW q \in DOMAIN U[s],
             r < s \/ (r = s /\ p < q)
      PROVE  U[r][p] # U[s][q] /\ (OrderedIn(E, U[r][p], U[s][q]) => U[r][p] < U[s][q])
  <2>1. CASE r = s
    <3>1. DOMAIN U[r] = 1 .. Len(U[r]) /\ U[r] \in Seq(Nat) /\ p # q
      BY <1>2, <2>1 DEF Rows
    <3>2. p < q /\ p \in DOMAIN U[r] /\ q \in DOMAIN U[r]
      BY <1>2, <2>1, <3>1
    <3>3. U[r][p] < U[r][q]
      BY <3>2 DEF BuffersIn, BufferIn
    <3>4. U[r][p] \in Nat /\ U[r][q] \in Nat
      BY <3>1, <3>2
    <3>5. U[r][p] # U[r][q]
      BY <3>3, <3>4
    <3> QED BY <2>1, <3>3, <3>5
  <2>2. CASE r # s
    <3>1. E[U[r][p]] = KeyIn(E, U[r]) /\ E[U[s][q]] = KeyIn(E, U[s]) /\ ~Whole(E[U[r][p]]) /\ ~Whole(E[U[s][q]])
      BY DEF BuffersIn, BufferIn
    <3>2. KeyIn(E, U[r]).scope # KeyIn(E, U[s]).scope
      BY <2>2 DEF BuffersIn
    <3> QED BY <3>1, <3>2 DEF OrderedIn
  <2>3. r = s \/ r # s
    OBVIOUS
  <2> QED BY <1>2, <2>1, <2>2
<1> QED
  BY <1>1, <1>2 DEF InOrderIn

\* What is known of the events so far still holds after one more.
LEMMA OneMore ==
  ASSUME NEW E \in Seq(Events), NEW e \in Events, NEW R \in Rows, KnownIn(E, R), InOrderIn(E, R)
  PROVE  /\ KnownIn(Append(E, e), R) /\ InOrderIn(Append(E, e), R)
         /\ InOrderIn(Append(E, e), Append(R, <<Len(E) + 1>>))
         /\ KnownIn(Append(E, e), Append(R, <<Len(E) + 1>>))
         /\ Append(R, <<Len(E) + 1>>) = R \o << <<Len(E) + 1>> >>
         /\ Append(R, <<Len(E) + 1>>) \in Rows
<1> DEFINE F == Append(E, e)
           n == Len(E) + 1
           Q == << <<n>> >>
<1>1. /\ Len(E) \in Nat /\ n \in Nat /\ DOMAIN E = 1 .. Len(E) /\ DOMAIN F = 1 .. n /\ F[n] = e /\ n \in DOMAIN F
      /\ \A i \in DOMAIN E : F[i] = E[i] /\ i \in DOMAIN F /\ i < n /\ i \in Nat
  OBVIOUS
<1>2. Q \in Rows /\ DOMAIN Q = {1} /\ DOMAIN Q[1] = {1} /\ Q[1][1] = n
  <2>1. <<n>> \in Seq(Nat) /\ DOMAIN <<n>> = {1} /\ <<n>>[1] = n
    BY <1>1
  <2> QED BY <2>1 DEF Rows
<1>3. Append(R, <<n>>) = R \o Q
  BY <1>1 DEF Rows
<1> HIDE DEF F, n, Q
<1>4. KnownIn(F, R) /\ KnownIn(F, Q)
  <2>1. KnownIn(F, R)
    BY <1>1 DEF KnownIn
  <2>2. n \in DOMAIN F
    BY <1>1
  <2>3. ASSUME NEW r \in DOMAIN Q, NEW p \in DOMAIN Q[r] PROVE Q[r][p] = n
    BY <1>2
  <2>4. KnownIn(F, Q)
    BY <2>2, <2>3 DEF KnownIn
  <2> QED BY <2>1, <2>4
<1>5. InOrderIn(F, R)
  BY <1>1 DEF KnownIn, InOrderIn, OrderedIn
<1>6. InOrderIn(F, Q)
  BY <1>2 DEF InOrderIn
<1>7. Follows(F, R, Q)
  BY <1>1, <1>2 DEF Follows, KnownIn
<1>8. InOrderIn(F, R \o Q) /\ KnownIn(F, R \o Q) /\ R \o Q \in Rows
  BY <1>2, <1>4, <1>5, <1>6, <1>7, ConcatInOrder, ConcatKnown
<1> QED
  BY <1>3, <1>4, <1>5, <1>8 DEF F, n, Q

\* A live event reaches every subscriber as the latest it has seen.
LEMMA FanOutStep ==
  ASSUME SinkInv, NEW e \in Events, emitted' = Append(emitted, e), FanOut(Len(emitted) + 1)
  PROVE  ClientsSound' /\ client' \in [Clients -> [on : BOOLEAN, got : Rows]]
<1> DEFINE n == Len(emitted) + 1
           Q == << <<n>> >>
<1>1. ASSUME NEW c \in Clients
      PROVE  /\ client'[c] \in [on : BOOLEAN, got : Rows]
             /\ client'[c].on => Reads(emitted', client'[c].got)
  <2>0. client[c] \in [on : BOOLEAN, got : Rows] /\ emitted \in Seq(Events)
    BY DEF SinkInv, SinkTypeOK
  <2>1. CASE ~client[c].on
    BY <2>0, <2>1 DEF FanOut
  <2>2. CASE client[c].on
    <3>1. client'[c] = [client[c] EXCEPT !.got = Append(@, <<n>>)]
      BY <2>2 DEF FanOut
    <3>2. client'[c].on = client[c].on /\ client'[c].got = Append(client[c].got, <<n>>)
          /\ DOMAIN client'[c] = DOMAIN client[c]
      BY <2>0, <3>1
    <3>3. Reads(emitted, client[c].got)
      BY <2>2 DEF SinkInv, ClientsSound
    <3>4. /\ InOrderIn(emitted', client'[c].got) /\ KnownIn(emitted', client'[c].got)
          /\ client'[c].got = client[c].got \o Q /\ client'[c].got \in Rows
      BY <2>0, <3>2, <3>3, OneMore DEF Reads
    <3>5. ASSUME NEW m \in DOMAIN emitted' PROVE Shows(client'[c].got, m)
      <4>1. m \in DOMAIN emitted \/ m = n
        BY <2>0
      <4>2. Q \in Rows /\ Shows(Q, n)
        <5>1. n \in Nat /\ <<n>> \in Seq(Nat)
          BY <2>0
        <5> HIDE DEF n
        <5>2. Q \in Rows
          BY <5>1 DEF Rows
        <5>3. 1 \in DOMAIN Q /\ Q[1] = <<n>> /\ 1 \in DOMAIN <<n>> /\ <<n>>[1] = n
          OBVIOUS
        <5> QED BY <5>2, <5>3, Zenon DEF Shows
      <4> HIDE DEF Q
      <4>3. m \in DOMAIN emitted => Shows(client[c].got, m)
        BY <3>3 DEF Reads
      <4> QED BY <2>0, <3>4, <4>1, <4>2, <4>3, ConcatShows
    <3>6. client'[c] \in [on : BOOLEAN, got : Rows]
      BY <2>0, <3>1, <3>4
    <3> QED BY <3>4, <3>5, <3>6 DEF Reads
  <2> QED BY <2>1, <2>2
<1> HIDE DEF n
<1>2. DOMAIN client' = Clients /\ \E f : client' = [c \in Clients |-> f[c]]
  <2>1. client' = [c \in Clients |-> client'[c]]
    BY DEF FanOut
  <2> QED BY <2>1
<1> QED
  BY <1>1, <1>2 DEF ClientsSound

\* After a flush, the past alone tells every event.
LEMMA AllFlushed ==
  ASSUME NEW E \in Seq(Events), NEW P \in Rows, NEW U \in Rows, PastIn(E, P, U), CoveredIn(E, P, U)
  PROVE  Reads(E, P \o U) /\ P \o U \in Rows
<1>1. InOrderIn(E, U) /\ KnownIn(E, U)
  BY BuffersInOrder DEF PastIn
<1>2. InOrderIn(E, P \o U) /\ KnownIn(E, P \o U) /\ P \o U \in Rows
  BY <1>1, ConcatInOrder, ConcatKnown DEF PastIn
<1>3. \A n \in DOMAIN E : Shows(P \o U, n)
  BY ConcatShows DEF CoveredIn
<1> QED
  BY <1>2, <1>3 DEF Reads

\* Where nothing is buffered the past alone is what the reader sees.
LEMMA NoBuffers ==
  ASSUME NEW E \in Seq(Events), NEW P \in Rows, Reads(E, P)
  PROVE  PastIn(E, P, <<>>) /\ CoveredIn(E, P, <<>>)
BY DEF PastIn, CoveredIn, Reads, BuffersIn, Follows

\* A whole event goes behind everything.
LEMMA WholeIsLast ==
  ASSUME NEW E \in Seq(Events), NEW e \in Events, NEW R \in Rows, Reads(E, R)
  PROVE  Reads(Append(E, e), Append(R, <<Len(E) + 1>>)) /\ Append(R, <<Len(E) + 1>>) \in Rows
<1> DEFINE n == Len(E) + 1
           Q == << <<n>> >>
           F == Append(E, e)
<1>1. /\ InOrderIn(F, Append(R, <<n>>)) /\ KnownIn(F, Append(R, <<n>>))
      /\ Append(R, <<n>>) = R \o Q /\ Append(R, <<n>>) \in Rows
  BY OneMore DEF Reads
<1>2. Q \in Rows /\ Shows(Q, n)
  <2>1. n \in Nat /\ <<n>> \in Seq(Nat)
    OBVIOUS
  <2> HIDE DEF n
  <2>2. Q \in Rows
    BY <2>1 DEF Rows
  <2>3. 1 \in DOMAIN Q /\ Q[1] = <<n>> /\ 1 \in DOMAIN <<n>> /\ <<n>>[1] = n
    OBVIOUS
  <2> QED BY <2>2, <2>3, Zenon DEF Shows
<1>3. \A m \in DOMAIN F : m \in DOMAIN E \/ m = n
  OBVIOUS
<1> HIDE DEF F, n, Q
<1>4. \A m \in DOMAIN F : Shows(R \o Q, m)
  BY <1>2, <1>3, ConcatShows DEF Reads
<1> QED
  BY <1>1, <1>4 DEF Reads, F, n

\* A delta that joins the buffer of its scope.
LEMMA Joined ==
  ASSUME NEW E \in Seq(Events), NEW e \in Events, NEW P \in Rows, NEW U \in Rows,
         PastIn(E, P, U), CoveredIn(E, P, U), ~Whole(e), NEW i \in DOMAIN U, KeyIn(E, U[i]) = e
  PROVE  LET F == Append(E, e)
             V == [U EXCEPT ![i] = Append(@, Len(E) + 1)]
         IN  PastIn(F, P, V) /\ CoveredIn(F, P, V) /\ V \in Rows
<1> DEFINE n == Len(E) + 1
           F == Append(E, e)
           V == [U EXCEPT ![i] = Append(@, n)]
<1> SUFFICES PastIn(F, P, V) /\ CoveredIn(F, P, V) /\ V \in Rows
  OBVIOUS
<1>1. /\ Len(E) \in Nat /\ n \in Nat /\ DOMAIN E = 1 .. Len(E) /\ DOMAIN F = 1 .. n /\ F[n] = e /\ n \in DOMAIN F
      /\ \A k \in DOMAIN E : F[k] = E[k] /\ k \in DOMAIN F /\ k < n /\ k \in Nat
  OBVIOUS
<1>2. /\ DOMAIN V = DOMAIN U /\ V[i] = Append(U[i], n) /\ \A k \in DOMAIN U : k # i => V[k] = U[k]
      /\ V \in Rows
  BY <1>1 DEF Rows
<1>3. /\ U[i] \in Seq(Nat) /\ U[i] # <<>> /\ 1 \in DOMAIN U[i]
      /\ DOMAIN V[i] = 1 .. Len(U[i]) + 1 /\ Len(U[i]) \in Nat
      /\ \A p \in DOMAIN V[i] : IF p = Len(U[i]) + 1 THEN V[i][p] = n ELSE p \in DOMAIN U[i] /\ V[i][p] = U[i][p]
  <2>1. U[i] \in Seq(Nat) /\ U[i] # <<>>
    BY DEF PastIn, BuffersIn, BufferIn, Rows
  <2> QED BY <1>1, <1>2, <2>1
<1>7. \A k \in DOMAIN U : U[k] \in Seq(Nat) /\ U[k] # <<>> /\ 1 \in DOMAIN U[k]
  <2> TAKE k \in DOMAIN U
  <2>1. U[k] \in Seq(Nat) /\ U[k] # <<>>
    BY DEF PastIn, BuffersIn, BufferIn, Rows
  <2> QED BY <2>1
<1>9. \A m \in DOMAIN F : m \in DOMAIN E \/ m = n
  OBVIOUS
<1> HIDE DEF F, n, V
<1>8. \A k \in DOMAIN U : BufferIn(E, U[k])
  BY DEF PastIn, BuffersIn
<1>10. \A k \in DOMAIN U : KeyIn(E, U[k]) = E[U[k][1]] /\ U[k][1] \in DOMAIN E
  BY <1>7, <1>8 DEF KeyIn, BufferIn
<1>4. \A k \in DOMAIN V : KeyIn(F, V[k]) = KeyIn(E, U[k])
  <2> TAKE k \in DOMAIN V
  <2>1. V[k][1] = U[k][1]
    <3>1. CASE k # i
      BY <1>2, <3>1
    <3>2. CASE k = i
      <4>1. DOMAIN U[i] = 1 .. Len(U[i]) /\ 1 <= Len(U[i])
        BY <1>3
      <4>2. 1 \in DOMAIN V[i] /\ 1 # Len(U[i]) + 1
        BY <1>3, <4>1
      <4> QED BY <1>3, <3>2, <4>2
    <3> QED BY <3>1, <3>2
  <2> QED BY <1>1, <1>2, <1>10, <2>1 DEF KeyIn
<1>5. ASSUME NEW k \in DOMAIN V PROVE BufferIn(F, V[k])
  <2>0. BufferIn(E, U[k]) /\ KeyIn(F, V[k]) = KeyIn(E, U[k]) /\ k \in DOMAIN U
    BY <1>2, <1>4, <1>8
  <2>1. CASE k # i
    <3>1. V[k] = U[k]
      BY <1>2, <2>1
    <3>2. \A m \in DOMAIN F : Whole(F[m]) => m \in DOMAIN E
      BY <1>1, <1>9
    <3> QED BY <1>1, <2>0, <3>1, <3>2 DEF BufferIn
  <2>2. CASE k = i
    <3>1. \A p \in DOMAIN V[k] : V[k][p] = n \/ (p \in DOMAIN U[k] /\ V[k][p] = U[k][p] /\ p <= Len(U[k]))
      BY <1>3, <2>2
    <3>2. \A p \in DOMAIN V[k] : V[k][p] \in DOMAIN F /\ F[V[k][p]] = KeyIn(F, V[k]) /\ ~Whole(KeyIn(F, V[k]))
      BY <1>1, <2>0, <2>2, <3>1 DEF BufferIn
    <3>3. \A p, q \in DOMAIN V[k] : p < q => V[k][p] < V[k][q]
      <4> SUFFICES ASSUME NEW p \in DOMAIN V[k], NEW q \in DOMAIN V[k], p < q PROVE V[k][p] < V[k][q]
        OBVIOUS
      <4>1. p \in DOMAIN U[k] /\ V[k][p] = U[k][p]
        BY <1>3, <2>2
      <4>2. U[k][p] \in DOMAIN E
        BY <2>0, <4>1 DEF BufferIn
      <4>3. CASE V[k][q] = n
        BY <1>1, <4>1, <4>2, <4>3
      <4>4. CASE q \in DOMAIN U[k] /\ V[k][q] = U[k][q]
        BY <2>0, <4>1, <4>4 DEF BufferIn
      <4> QED BY <3>1, <4>3, <4>4
    <3>4. \A p \in DOMAIN V[k], m \in DOMAIN F : Whole(F[m]) => m < V[k][p]
      <4> SUFFICES ASSUME NEW p \in DOMAIN V[k], NEW m \in DOMAIN F, Whole(F[m]) PROVE m < V[k][p]
        OBVIOUS
      <4>1. m \in DOMAIN E /\ Whole(E[m])
        BY <1>1, <1>9
      <4> QED BY <1>1, <2>0, <3>1, <4>1 DEF BufferIn
    <3>5. V[k] # <<>>
      BY <1>3, <2>2
    <3> QED BY <3>2, <3>3, <3>4, <3>5 DEF BufferIn
  <2> QED BY <2>1, <2>2
<1>6. BuffersIn(F, V)
  BY <1>2, <1>4, <1>5 DEF BuffersIn, PastIn
<1>11. InOrderIn(F, P) /\ KnownIn(F, P)
  BY OneMore DEF PastIn, F
<1>12. Follows(F, P, V)
  <2> SUFFICES ASSUME NEW r \in DOMAIN P, NEW s \in DOMAIN V, NEW p \in DOMAIN P[r], NEW q \in DOMAIN V[s]
               PROVE  /\ P[r][p] # V[s][q]
                      /\ OrderedIn(F, P[r][p], V[s][q]) => P[r][p] < V[s][q]
    BY DEF Follows
  <2>1. P[r][p] \in DOMAIN E
    BY DEF PastIn, KnownIn
  <2>2. CASE V[s][q] = n
    BY <1>1, <2>1, <2>2
  <2>3. CASE s \in DOMAIN U /\ q \in DOMAIN U[s] /\ V[s][q] = U[s][q]
    <3>1. U[s][q] \in DOMAIN E
      BY <1>8, <2>3 DEF BufferIn
    <3> QED BY <1>1, <2>1, <2>3, <3>1 DEF PastIn, Follows, OrderedIn
  <2> QED BY <1>2, <1>3, <2>2, <2>3
<1>13. CoveredIn(F, P, V)
  <2>1. Shows(V, n)
    <3>1. Len(U[i]) + 1 \in DOMAIN V[i] /\ V[i][Len(U[i]) + 1] = n /\ i \in DOMAIN V
      BY <1>2, <1>3
    <3> QED BY <3>1, Zenon DEF Shows
  <2>2. ASSUME NEW m, Shows(U, m) PROVE Shows(V, m)
    <3>1. PICK r, p : r \in DOMAIN U /\ p \in DOMAIN U[r] /\ U[r][p] = m
      BY <2>2 DEF Shows
    <3>2. p \in DOMAIN V[r] /\ V[r][p] = m /\ r \in DOMAIN V
      <4>1. CASE r = i
        <5>1. p \in 1 .. Len(U[i])
          BY <1>3, <3>1, <4>1
        <5>2. p \in DOMAIN V[i] /\ p # Len(U[i]) + 1
          BY <1>3, <5>1
        <5>3. V[i][p] = U[i][p]
          BY <1>3, <5>2
        <5> QED BY <1>2, <3>1, <4>1, <5>2, <5>3, Zenon
      <4>2. CASE r # i
        BY <1>2, <3>1, <4>2
      <4> QED BY <4>1, <4>2
    <3> QED BY <3>2, Zenon DEF Shows
  <2> QED BY <1>9, <2>1, <2>2 DEF CoveredIn
<1> QED
  BY <1>2, <1>6, <1>11, <1>12, <1>13 DEF PastIn

\* A delta that opens a buffer.
LEMMA Opened ==
  ASSUME NEW E \in Seq(Events), NEW e \in Events, NEW P \in Rows, NEW U \in Rows,
         PastIn(E, P, U), CoveredIn(E, P, U), ~Whole(e),
         \A i \in DOMAIN U : KeyIn(E, U[i]).scope # e.scope
  PROVE  LET F == Append(E, e)
             V == Append(U, <<Len(E) + 1>>)
         IN  PastIn(F, P, V) /\ CoveredIn(F, P, V) /\ V \in Rows
<1> DEFINE n == Len(E) + 1
           F == Append(E, e)
           V == Append(U, <<n>>)
           z == Len(U) + 1
<1> SUFFICES PastIn(F, P, V) /\ CoveredIn(F, P, V) /\ V \in Rows
  OBVIOUS
<1>1. /\ Len(E) \in Nat /\ n \in Nat /\ DOMAIN E = 1 .. Len(E) /\ DOMAIN F = 1 .. n /\ F[n] = e /\ n \in DOMAIN F
      /\ \A k \in DOMAIN E : F[k] = E[k] /\ k \in DOMAIN F /\ k < n /\ k \in Nat
  OBVIOUS
<1>2. /\ V \in Rows /\ V[z] = <<n>> /\ DOMAIN <<n>> = {1} /\ <<n>>[1] = n /\ <<n>> # <<>>
      /\ z \in DOMAIN V /\ z \notin DOMAIN U
      /\ \A k \in DOMAIN U : k \in DOMAIN V /\ V[k] = U[k]
      /\ \A k \in DOMAIN V : k \in DOMAIN U \/ k = z
  BY <1>1 DEF Rows
<1>3. \A k \in DOMAIN U : U[k] \in Seq(Nat) /\ U[k] # <<>> /\ 1 \in DOMAIN U[k]
  <2> TAKE k \in DOMAIN U
  <2>1. U[k] \in Seq(Nat) /\ U[k] # <<>>
    BY DEF PastIn, BuffersIn, BufferIn, Rows
  <2> QED BY <2>1
<1>4. \A m \in DOMAIN F : m \in DOMAIN E \/ m = n
  OBVIOUS
<1> HIDE DEF F, n, V, z
<1>5. \A k \in DOMAIN U : BufferIn(E, U[k]) /\ KeyIn(E, U[k]) = E[U[k][1]] /\ U[k][1] \in DOMAIN E
  BY <1>3 DEF PastIn, BuffersIn, KeyIn, BufferIn
<1>6. KeyIn(F, V[z]) = e /\ \A k \in DOMAIN U : KeyIn(F, V[k]) = KeyIn(E, U[k])
  BY <1>1, <1>2, <1>5 DEF KeyIn
<1>7. ASSUME NEW k \in DOMAIN V PROVE BufferIn(F, V[k])
  <2>1. CASE k = z
    <3>1. \A m \in DOMAIN F : Whole(F[m]) => m < n
      BY <1>1, <1>4
    <3>2. V[k] = <<n>> /\ KeyIn(F, V[k]) = e
      BY <1>2, <1>6, <2>1
    <3>3. \A p \in DOMAIN <<n>> : p = 1 /\ <<n>>[p] = n
      BY <1>2
    <3>4. BufferIn(F, <<n>>)
      BY <1>1, <1>2, <3>1, <3>2, <3>3 DEF BufferIn
    <3> QED BY <3>2, <3>4
  <2>2. CASE k \in DOMAIN U
    <3>1. V[k] = U[k] /\ BufferIn(E, U[k]) /\ KeyIn(F, V[k]) = KeyIn(E, U[k])
      BY <1>2, <1>5, <1>6, <2>2
    <3>2. \A m \in DOMAIN F : Whole(F[m]) => m \in DOMAIN E
      BY <1>1, <1>4
    <3> QED BY <1>1, <3>1, <3>2 DEF BufferIn
  <2> QED BY <1>2, <2>1, <2>2
<1>8. BuffersIn(F, V)
  <2>1. ASSUME NEW j \in DOMAIN V, NEW k \in DOMAIN V, j # k
        PROVE  KeyIn(F, V[j]).scope # KeyIn(F, V[k]).scope
    <3>1. CASE j \in DOMAIN U /\ k \in DOMAIN U
      BY <1>6, <2>1, <3>1 DEF PastIn, BuffersIn
    <3>2. CASE j = z
      BY <1>2, <1>6, <2>1, <3>2
    <3>3. CASE k = z
      BY <1>2, <1>6, <2>1, <3>3
    <3> QED BY <1>2, <3>1, <3>2, <3>3
  <2> QED BY <1>7, <2>1 DEF BuffersIn
<1>9. InOrderIn(F, P) /\ KnownIn(F, P)
  BY OneMore DEF PastIn, F
<1>10. Follows(F, P, V)
  <2> SUFFICES ASSUME NEW r \in DOMAIN P, NEW s \in DOMAIN V, NEW p \in DOMAIN P[r], NEW q \in DOMAIN V[s]
               PROVE  /\ P[r][p] # V[s][q]
                      /\ OrderedIn(F, P[r][p], V[s][q]) => P[r][p] < V[s][q]
    BY DEF Follows
  <2>1. P[r][p] \in DOMAIN E
    BY DEF PastIn, KnownIn
  <2>2. CASE s = z
    BY <1>1, <1>2, <2>1, <2>2
  <2>3. CASE s \in DOMAIN U
    <3>1. V[s] = U[s] /\ U[s][q] \in DOMAIN E
      BY <1>2, <1>5, <2>3 DEF BufferIn
    <3> QED BY <1>1, <2>1, <2>3, <3>1 DEF PastIn, Follows, OrderedIn
  <2> QED BY <1>2, <2>2, <2>3
<1>11. CoveredIn(F, P, V)
  <2>1. Shows(V, n)
    BY <1>2 DEF Shows
  <2>2. \A m : Shows(U, m) => Shows(V, m)
    BY <1>2 DEF Shows
  <2> QED BY <1>4, <2>1, <2>2 DEF CoveredIn
<1> QED
  BY <1>2, <1>8, <1>9, <1>10, <1>11 DEF PastIn

\* C is A and then B.
JointIs(C, A, B) ==
    /\ DOMAIN C = 1 .. Len(A) + Len(B)
    /\ \A k \in 1 .. Len(A) : C[k] = A[k]
    /\ \A k \in 1 .. Len(B) : C[Len(A) + k] = B[k]

\* Two lists joined, item by item.
LEMMA Joint ==
  ASSUME NEW S, NEW A \in Seq(S), NEW B \in Seq(S)
  PROVE  A \o B \in Seq(S) /\ JointIs(A \o B, A, B)
BY DEF JointIs

\* What is left when one element of a sequence is removed.
LEMMA RemovedAt ==
  ASSUME NEW S, NEW U \in Seq(S), NEW i \in 1 .. Len(U)
  PROVE  /\ RemoveAt(U, i) \in Seq(S) /\ DOMAIN RemoveAt(U, i) = 1 .. Len(U) - 1
         /\ \A k \in 1 .. Len(U) - 1 : RemoveAt(U, i)[k] = U[IF k < i THEN k ELSE k + 1]
<1> DEFINE A == SubSeq(U, 1, i - 1)
           B == SubSeq(U, i + 1, Len(U))
           V == RemoveAt(U, i)
<1>1. Len(U) \in Nat /\ i \in Nat /\ 1 <= i /\ i <= Len(U)
  OBVIOUS
<1>2. A \in Seq(S) /\ Len(A) = i - 1 /\ \A k \in 1 .. i - 1 : A[k] = U[k]
  BY <1>1
<1>3. B \in Seq(S) /\ Len(B) = Len(U) - i /\ \A k \in 1 .. Len(U) - i : B[k] = U[k + i]
  BY <1>1
<1>4. V = A \o B
  BY DEF RemoveAt
<1> HIDE DEF A, B, V
<1>5. /\ V \in Seq(S) /\ DOMAIN V = 1 .. Len(A) + Len(B)
      /\ \A k \in 1 .. Len(A) : V[k] = A[k]
      /\ \A k \in 1 .. Len(B) : V[Len(A) + k] = B[k]
  <2>1. A \in Seq(S) /\ B \in Seq(S)
    BY <1>2, <1>3
  <2>2. V \in Seq(S) /\ JointIs(V, A, B)
    BY <1>4, <2>1, Joint
  <2> QED BY <2>2 DEF JointIs
<1>9. DOMAIN V = 1 .. Len(U) - 1
  BY <1>1, <1>2, <1>3, <1>5
<1>6. ASSUME NEW k \in 1 .. Len(U) - 1 PROVE V[k] = U[IF k < i THEN k ELSE k + 1]
  <2>1. CASE k < i
    <3>1. k \in 1 .. i - 1
      BY <1>1, <2>1
    <3> QED BY <1>2, <1>5, <2>1, <3>1
  <2>2. CASE ~(k < i)
    <3> DEFINE m == k - (i - 1)
    <3>1. m \in 1 .. Len(U) - i /\ Len(A) + m = k /\ m + i = k + 1
      BY <1>1, <1>2, <2>2
    <3> HIDE DEF m
    <3>2. V[Len(A) + m] = B[m] /\ B[m] = U[m + i]
      BY <1>3, <1>5, <3>1
    <3> QED BY <2>2, <3>1, <3>2
  <2> QED BY <2>1, <2>2
<1> QED
  BY <1>5, <1>6, <1>9 DEF V

\* Persisting the one buffer of a scope.
LEMMA OneFlushed ==
  ASSUME NEW E \in Seq(Events), NEW P \in Rows, NEW U \in Rows,
         PastIn(E, P, U), CoveredIn(E, P, U), NEW i \in DOMAIN U
  PROVE  LET Q == P \o <<U[i]>>
             V == RemoveAt(U, i)
         IN  /\ PastIn(E, Q, V) /\ CoveredIn(E, Q, V) /\ Q \in Rows /\ V \in Rows
             /\ \A k \in DOMAIN V : KeyIn(E, V[k]).scope # KeyIn(E, U[i]).scope
<1> DEFINE R == <<U[i]>>
           V == RemoveAt(U, i)
           C == P \o R
<1> SUFFICES /\ PastIn(E, C, V) /\ CoveredIn(E, C, V) /\ C \in Rows /\ V \in Rows
             /\ \A k \in DOMAIN V : KeyIn(E, V[k]).scope # KeyIn(E, U[i]).scope
  OBVIOUS
<1> DEFINE at(k) == IF k < i THEN k ELSE k + 1
<1>20. Len(U) \in Nat /\ DOMAIN U = 1 .. Len(U) /\ i \in 1 .. Len(U) /\ U \in Seq(Seq(Nat))
  BY DEF Rows
<1>1. V \in Rows /\ DOMAIN V = 1 .. Len(U) - 1 /\ \A k \in 1 .. Len(U) - 1 : V[k] = U[at(k)]
  BY <1>20, RemovedAt DEF Rows
<1> HIDE DEF V
<1>2. \A k \in DOMAIN V : at(k) \in DOMAIN U /\ at(k) # i /\ V[k] = U[at(k)]
  BY <1>1, <1>20
<1>3. ASSUME NEW j \in DOMAIN U, j # i PROVE \E k \in DOMAIN V : V[k] = U[j]
  <2>1. CASE j < i
    <3>1. j \in 1 .. Len(U) - 1 /\ at(j) = j
      BY <1>20, <2>1
    <3> QED BY <1>1, <3>1
  <2>2. CASE j > i
    <3>1. j - 1 \in 1 .. Len(U) - 1 /\ at(j - 1) = j
      BY <1>20, <2>2
    <3> QED BY <1>1, <3>1
  <2> QED BY <1>3, <1>20, <2>1, <2>2
<1>4. \A j, k \in DOMAIN V : j # k => at(j) # at(k)
  BY <1>1, <1>20
<1> HIDE DEF at
<1>5. R \in Rows /\ DOMAIN R = {1} /\ R[1] = U[i] /\ U[i] \in Seq(Nat)
  BY DEF Rows
<1> HIDE DEF V, R
<1>6. BuffersIn(E, V) /\ \A k \in DOMAIN V : KeyIn(E, V[k]).scope # KeyIn(E, U[i]).scope
  <2>1. \A k \in DOMAIN V : BufferIn(E, V[k]) /\ KeyIn(E, V[k]).scope # KeyIn(E, U[i]).scope
    BY <1>2 DEF PastIn, BuffersIn
  <2>2. ASSUME NEW j \in DOMAIN V, NEW k \in DOMAIN V, j # k
        PROVE  KeyIn(E, V[j]).scope # KeyIn(E, V[k]).scope
    <3>1. at(j) # at(k) /\ at(j) \in DOMAIN U /\ at(k) \in DOMAIN U
      BY <1>2, <1>4, <2>2
    <3> QED BY <1>2, <3>1 DEF PastIn, BuffersIn
  <2> QED BY <2>1, <2>2 DEF BuffersIn
<1>7. KnownIn(E, U) /\ InOrderIn(E, U)
  BY BuffersInOrder DEF PastIn
<1>8. InOrderIn(E, R) /\ KnownIn(E, R)
  <2>1. KnownIn(E, R)
    BY <1>5, <1>7 DEF KnownIn
  <2>2. ASSUME NEW r \in DOMAIN R, NEW s \in DOMAIN R, NEW p \in DOMAIN R[r], NEW q \in DOMAIN R[s],
               r < s \/ (r = s /\ p < q)
        PROVE  R[r][p] # R[s][q] /\ (OrderedIn(E, R[r][p], R[s][q]) => R[r][p] < R[s][q])
    <3>1. r = 1 /\ s = 1 /\ R[r] = U[i] /\ R[s] = U[i] /\ p < q
      BY <1>5, <2>2
    <3> QED BY <1>7, <3>1 DEF InOrderIn
  <2> QED BY <2>1, <2>2 DEF InOrderIn
<1>9. Follows(E, P, R)
  <2> SUFFICES ASSUME NEW r \in DOMAIN P, NEW s \in DOMAIN R, NEW p \in DOMAIN P[r], NEW q \in DOMAIN R[s]
               PROVE  P[r][p] # R[s][q] /\ (OrderedIn(E, P[r][p], R[s][q]) => P[r][p] < R[s][q])
    BY DEF Follows
  <2>1. R[s] = U[i]
    BY <1>5
  <2> QED BY <2>1 DEF PastIn, Follows
<1>10. InOrderIn(E, C) /\ KnownIn(E, C) /\ C \in Rows
  BY <1>5, <1>8, <1>9, ConcatInOrder, ConcatKnown DEF PastIn
<1>11. \A r \in DOMAIN C : C[r] = U[i] \/ \E k \in DOMAIN P : C[r] = P[k]
  <2>1. Len(R) = 1 /\ R \in Seq(Seq(Nat)) /\ P \in Seq(Seq(Nat)) /\ Len(P) \in Nat /\ DOMAIN P = 1 .. Len(P)
    BY <1>5 DEF Rows, R
  <2>2. /\ DOMAIN C = 1 .. Len(P) + Len(R) /\ \A k \in 1 .. Len(P) : C[k] = P[k]
        /\ \A k \in 1 .. Len(R) : C[Len(P) + k] = R[k]
    <3>1. JointIs(C, P, R)
      BY <2>1, Joint
    <3> QED BY <3>1 DEF JointIs
  <2>3. C[Len(P) + 1] = U[i]
    <3>1. 1 \in 1 .. Len(R)
      BY <2>1
    <3> QED BY <1>5, <2>2, <3>1, Zenon
  <2>4. \A r \in DOMAIN C : r \in 1 .. Len(P) \/ r = Len(P) + 1
    BY <2>1, <2>2
  <2> HIDE DEF C
  <2> QED BY <2>1, <2>2, <2>3, <2>4
<1> HIDE DEF C
<1>12. Follows(E, C, V)
  <2> SUFFICES ASSUME NEW r \in DOMAIN C, NEW s \in DOMAIN V, NEW p \in DOMAIN C[r], NEW q \in DOMAIN V[s]
               PROVE  C[r][p] # V[s][q] /\ (OrderedIn(E, C[r][p], V[s][q]) => C[r][p] < V[s][q])
    BY DEF Follows
  <2>1. PICK j \in DOMAIN U : j # i /\ V[s] = U[j]
    BY <1>2
  <2>2. CASE \E k \in DOMAIN P : C[r] = P[k]
    BY <2>1, <2>2 DEF PastIn, Follows
  <2>3. CASE C[r] = U[i]
    <3>1. E[C[r][p]] = KeyIn(E, U[i]) /\ E[V[s][q]] = KeyIn(E, U[j])
      BY <2>1, <2>3 DEF PastIn, BuffersIn, BufferIn
    <3>2. ~Whole(KeyIn(E, U[i])) /\ ~Whole(KeyIn(E, U[j]))
      BY <2>1, <2>3 DEF PastIn, BuffersIn, BufferIn
    <3>3. KeyIn(E, U[i]).scope # KeyIn(E, U[j]).scope
      BY <2>1 DEF PastIn, BuffersIn
    <3> QED BY <3>1, <3>2, <3>3 DEF OrderedIn
  <2> QED BY <1>11, <2>2, <2>3
<1>13. CoveredIn(E, C, V)
  <2> SUFFICES ASSUME NEW m \in DOMAIN E PROVE Shows(C, m) \/ Shows(V, m)
    BY DEF CoveredIn
  <2>1. CASE Shows(P, m)
    BY <1>5, <2>1, ConcatShows DEF C
  <2>2. CASE Shows(U, m)
    <3>1. PICK j : j \in DOMAIN U /\ \E p \in DOMAIN U[j] : U[j][p] = m
      BY <2>2 DEF Shows
    <3>2. CASE j = i
      <4>1. Shows(R, m)
        BY <1>5, <3>1, <3>2 DEF Shows
      <4> QED BY <1>5, <4>1, ConcatShows DEF C
    <3>3. CASE j # i
      BY <1>3, <3>1, <3>3 DEF Shows
    <3> QED BY <3>2, <3>3
  <2> QED BY <2>1, <2>2 DEF CoveredIn
<1> QED
  BY <1>1, <1>6, <1>10, <1>12, <1>13 DEF PastIn

\* Persisting keeps the table equal to the past, unless an INSERT fails.
LEMMA Persisted ==
  ASSUME SinkInv, up, up', NEW R, Persist(R)
  PROVE  past' = past \o R /\ missed' \in BOOLEAN /\ TableSound'
BY DEF Persist, SinkInv, SinkTypeOK, TableSound

\* The past with the buffers behind it is the run as a reader should see it.
LEMMA EverythingFlushed ==
  ASSUME SinkInv, up
  PROVE  Reads(emitted, past \o unflushed) /\ past \o unflushed \in Rows
BY AllFlushed DEF SinkInv, SinkTypeOK, PastSound

\* put, for a delta: it joins its buffer, replaces it, or opens one.
LEMMA PutDeltaStep ==
  ASSUME SinkInv, NEW e \in Events, PutDelta(e)
  PROVE  SinkInv'
<1> DEFINE n == Len(emitted) + 1
<1>1. /\ up /\ up' /\ ~Whole(e) /\ emitted' = Append(emitted, e) /\ FanOut(n)
      /\ emitted \in Seq(Events) /\ past \in Rows /\ unflushed \in Rows /\ emitted' \in Seq(Events)
      /\ PastIn(emitted, past, unflushed) /\ CoveredIn(emitted, past, unflushed)
  BY DEF PutDelta, SinkInv, SinkTypeOK, PastSound
<1>2. ClientsSound' /\ client' \in [Clients -> [on : BOOLEAN, got : Rows]]
  BY <1>1, FanOutStep
<1>3. \A i \in DOMAIN unflushed : Key(unflushed[i]) = KeyIn(emitted, unflushed[i])
  <2> TAKE i \in DOMAIN unflushed
  <2>1. unflushed[i] \in Seq(Nat) /\ unflushed[i] # <<>>
    BY <1>1 DEF PastIn, BuffersIn, BufferIn, Rows
  <2> QED BY <2>1 DEF Key, KeyIn
<1>4. CASE \E i \in BufferOf(e.scope) :
              /\ Mergeable(i, e)
              /\ unflushed' = [unflushed EXCEPT ![i] = Append(@, n)]
              /\ UNCHANGED <<past, table, timer, faults, missed>>
  <2>1. PICK i \in DOMAIN unflushed : /\ KeyIn(emitted, unflushed[i]) = e
                                      /\ unflushed' = [unflushed EXCEPT ![i] = Append(@, n)]
                                      /\ UNCHANGED <<past, table, missed>>
    BY <1>3, <1>4 DEF BufferOf, Mergeable
  <2>2. PastIn(emitted', past, unflushed') /\ CoveredIn(emitted', past, unflushed') /\ unflushed' \in Rows
    BY <1>1, <2>1, Joined
  <2>3. PastSound'
    BY <2>1, <2>2 DEF PastSound
  <2> QED
    BY <1>1, <1>2, <2>1, <2>2, <2>3 DEF SinkInv, SinkTypeOK, TableSound
<1>5. CASE \E i \in BufferOf(e.scope) :
              /\ Persist(<<unflushed[i]>>)
              /\ unflushed' = Append(RemoveAt(unflushed, i), <<n>>)
  <2>1. PICK i \in DOMAIN unflushed : /\ KeyIn(emitted, unflushed[i]).scope = e.scope
                                      /\ Persist(<<unflushed[i]>>)
                                      /\ unflushed' = Append(RemoveAt(unflushed, i), <<n>>)
    BY <1>3, <1>5 DEF BufferOf
  <2> DEFINE Q == past \o <<unflushed[i]>>
             V == RemoveAt(unflushed, i)
  <2>2. /\ PastIn(emitted, Q, V) /\ CoveredIn(emitted, Q, V) /\ Q \in Rows /\ V \in Rows
        /\ \A k \in DOMAIN V : KeyIn(emitted, V[k]).scope # e.scope
    <3>1. /\ PastIn(emitted, Q, V) /\ CoveredIn(emitted, Q, V) /\ Q \in Rows /\ V \in Rows
          /\ \A k \in DOMAIN V : KeyIn(emitted, V[k]).scope # KeyIn(emitted, unflushed[i]).scope
      BY <1>1, OneFlushed, Zenon
    <3> QED BY <2>1, <3>1, Zenon
  <2>3. past' = Q /\ missed' \in BOOLEAN /\ TableSound'
    BY <1>1, <2>1, Persisted
  <2> HIDE DEF Q, V
  <2>4. PastIn(emitted', Q, Append(V, <<n>>)) /\ CoveredIn(emitted', Q, Append(V, <<n>>)) /\ Append(V, <<n>>) \in Rows
    BY <1>1, <2>2, Opened
  <2>5. unflushed' = Append(V, <<n>>)
    BY <2>1 DEF V
  <2>6. PastSound'
    BY <2>3, <2>4, <2>5 DEF PastSound
  <2> QED
    BY <1>1, <1>2, <2>2, <2>3, <2>4, <2>5, <2>6 DEF SinkInv, SinkTypeOK
<1>6. CASE /\ BufferOf(e.scope) = {}
           /\ unflushed' = Append(unflushed, <<n>>)
           /\ UNCHANGED <<past, table, faults, missed>>
  <2>1. \A i \in DOMAIN unflushed : KeyIn(emitted, unflushed[i]).scope # e.scope
    BY <1>3, <1>6 DEF BufferOf
  <2>2. PastIn(emitted', past, unflushed') /\ CoveredIn(emitted', past, unflushed') /\ unflushed' \in Rows
    BY <1>1, <1>6, <2>1, Opened
  <2>3. PastSound'
    BY <1>6, <2>2 DEF PastSound
  <2> QED
    BY <1>1, <1>2, <1>6, <2>2, <2>3 DEF SinkInv, SinkTypeOK, TableSound
<1> QED
  BY <1>4, <1>5, <1>6 DEF PutDelta

Moved(a, b, x) == a \o Append(b, x) = Append(a \o b, x)

\* Appending to the second of two joined lists appends to the joined one.
LEMMA AppendMoved ==
  ASSUME NEW S, NEW a \in Seq(S), NEW b \in Seq(S), NEW x \in S
  PROVE  Moved(a, b, x)
  BY DEF Moved

\* put, for a whole event.
LEMMA PutWholeStep ==
  ASSUME SinkInv, NEW e \in Events, PutWhole(e)
  PROVE  SinkInv'
<1> DEFINE n == Len(emitted) + 1
           R == past \o unflushed
<1>1. /\ up /\ up' /\ emitted' = Append(emitted, e) /\ FanOut(n)
      /\ emitted \in Seq(Events) /\ past \in Rows /\ unflushed \in Rows /\ emitted' \in Seq(Events)
      /\ Persist(Append(unflushed, <<n>>))
  BY DEF PutWhole, Flushed, SinkInv, SinkTypeOK
<1>2. ClientsSound' /\ client' \in [Clients -> [on : BOOLEAN, got : Rows]]
  BY <1>1, FanOutStep
<1>3. Reads(emitted, R) /\ R \in Rows
  BY <1>1, EverythingFlushed
<1>4. Reads(emitted', Append(R, <<n>>)) /\ Append(R, <<n>>) \in Rows
  BY <1>1, <1>3, WholeIsLast
<1>5. past' = past \o Append(unflushed, <<n>>) /\ missed' \in BOOLEAN /\ TableSound'
  BY <1>1, Persisted
<1>6. past \o Append(unflushed, <<n>>) = Append(R, <<n>>)
  <2> DEFINE m == <<n>>
  <2>1. m \in Seq(Nat)
    BY <1>1
  <2>2. past \in Seq(Seq(Nat)) /\ unflushed \in Seq(Seq(Nat))
    BY <1>1 DEF Rows
  <2> HIDE DEF n, m
  <2>3. Moved(past, unflushed, m)
    BY <2>1, <2>2, AppendMoved
  <2> QED BY <2>3, Zenon DEF Moved, m
<1>7. unflushed' = <<>>
  BY <1>1 DEF PutWhole, Flushed, Rows
<1>8. PastIn(emitted', past', <<>>) /\ CoveredIn(emitted', past', <<>>)
  BY <1>1, <1>4, <1>5, <1>6, NoBuffers
<1>9. unflushed' \in Rows
  BY <1>7 DEF Rows
<1>10. PastSound'
  BY <1>7, <1>8 DEF PastSound
<1> QED
  BY <1>1, <1>2, <1>4, <1>5, <1>6, <1>9, <1>10 DEF SinkInv, SinkTypeOK

\* A flush empties the buffers into the past, which then tells the whole run.
LEMMA FlushStep ==
  ASSUME SinkInv, up, up', Persist(unflushed), unflushed' = <<>>, UNCHANGED emitted
  PROVE  /\ Reads(emitted, past') /\ past' \in Rows /\ PastSound' /\ TableSound'
         /\ missed' \in BOOLEAN /\ unflushed' \in Rows
<1>1. past' = past \o unflushed /\ missed' \in BOOLEAN /\ TableSound'
  BY Persisted
<1>2. Reads(emitted, past') /\ past' \in Rows /\ emitted \in Seq(Events)
  BY <1>1, EverythingFlushed DEF SinkInv, SinkTypeOK
<1>3. PastIn(emitted, past', <<>>) /\ CoveredIn(emitted, past', <<>>)
  BY <1>2, NoBuffers
<1>4. PastSound' /\ unflushed' \in Rows
  BY <1>3 DEF PastSound, Rows
<1> QED
  BY <1>1, <1>2, <1>4

\* Who subscribes gets the past and the flushed buffers, so misses nothing and sees nothing twice.
LEMMA SubscribeStep ==
  ASSUME SinkInv, NEW c \in Clients, Subscribe(c)
  PROVE  SinkInv'
<1>1. /\ up /\ up' /\ Persist(unflushed) /\ unflushed' = <<>> /\ UNCHANGED emitted
      /\ client' = [client EXCEPT ![c] = [on |-> TRUE, got |-> past']]
      /\ client \in [Clients -> [on : BOOLEAN, got : Rows]]
  BY DEF Subscribe, SinkInv, SinkTypeOK
<1>2. /\ Reads(emitted, past') /\ past' \in Rows /\ PastSound' /\ TableSound'
      /\ missed' \in BOOLEAN /\ unflushed' \in Rows
  BY <1>1, FlushStep
<1>3. client' \in [Clients -> [on : BOOLEAN, got : Rows]]
  BY <1>1, <1>2
<1>4. ASSUME NEW d \in Clients, client'[d].on PROVE Reads(emitted, client'[d].got)
  <2>1. CASE d = c
    BY <1>1, <1>2, <2>1
  <2>2. CASE d # c
    <3>1. client'[d] = client[d]
      BY <1>1, <2>2
    <3> QED BY <1>4, <3>1 DEF SinkInv, ClientsSound
  <2> QED BY <2>1, <2>2
<1>5. ClientsSound'
  BY <1>1, <1>4 DEF ClientsSound
<1> QED
  BY <1>1, <1>2, <1>3, <1>5 DEF SinkInv, SinkTypeOK

\* If no INSERT failed the table holds what was persisted, and the events still in
\* buffers are later than any whole event.
LEMMA TableReplays ==
  ASSUME SinkInv
  PROVE  LogReplays
<1> SUFFICES ASSUME up, ~missed PROVE LogReplays
  BY DEF LogReplays, SinkInv, TableSound
<1>1. PastIn(emitted, past, unflushed) /\ CoveredIn(emitted, past, unflushed) /\ table = past
  BY DEF SinkInv, PastSound, TableSound
<1>2. InOrder(table)
  BY <1>1 DEF PastIn, InOrderIn, InOrder, OrderedIn, Ordered
<1>3. ASSUME NEW n \in DOMAIN emitted, Whole(emitted[n]), NEW m \in 1 .. n PROVE Shows(table, m)
  <2>1. m \in DOMAIN emitted /\ n \in Nat /\ m <= n
    BY DEF SinkInv, SinkTypeOK
  <2>2. ~Shows(unflushed, m)
    <3> SUFFICES ASSUME Shows(unflushed, m) PROVE FALSE
      OBVIOUS
    <3>1. PICK r : r \in DOMAIN unflushed /\ \E p \in DOMAIN unflushed[r] : unflushed[r][p] = m
      BY DEF Shows
    <3>2. n < m
      BY <1>1, <1>3, <3>1 DEF PastIn, BuffersIn, BufferIn
    <3> QED BY <2>1, <3>2
  <2> QED BY <1>1, <2>1, <2>2 DEF CoveredIn
<1> QED
  BY <1>2, <1>3 DEF LogReplays

\* A crash loses the buffers, and leaves the log in order.
LEMMA CrashStep ==
  ASSUME SinkInv, Crash
  PROVE  SinkInv'
<1>1. /\ ~up' /\ up' \in BOOLEAN /\ unflushed' = <<>> /\ past' = <<>> /\ UNCHANGED <<emitted, table, missed>>
      /\ client' = [c \in Clients |-> [on |-> FALSE, got |-> <<>>]]
  BY DEF Crash
<1>2. LogReplays'
  BY <1>1, TableReplays DEF LogReplays, InOrder, Ordered, Shows
<1>3. TableSound' /\ PastSound'
  BY <1>1, <1>2 DEF TableSound, PastSound
<1>4. ClientsSound' /\ client' \in [Clients -> [on : BOOLEAN, got : Rows]]
  BY <1>1 DEF ClientsSound, Rows
<1>5. past' \in Rows /\ unflushed' \in Rows
  BY <1>1 DEF Rows
<1> QED
  BY <1>1, <1>3, <1>4, <1>5 DEF SinkInv, SinkTypeOK

\* Every step keeps the invariant of the stream.
LEMMA SinkInductive == SinkInv /\ [SinkNext]_sinkVars => SinkInv'
<1> SUFFICES ASSUME SinkInv, [SinkNext]_sinkVars PROVE SinkInv'
  OBVIOUS
<1>1. CASE \E e \in Events : PutDelta(e) \/ PutWhole(e)
  BY <1>1, PutDeltaStep, PutWholeStep
<1>2. CASE Timer
  <2>1. up /\ up' /\ Persist(unflushed) /\ unflushed' = <<>> /\ UNCHANGED <<emitted, client>>
    BY <1>2 DEF Timer
  <2>2. /\ past' \in Rows /\ PastSound' /\ TableSound' /\ missed' \in BOOLEAN /\ unflushed' \in Rows
    BY <2>1, FlushStep
  <2> QED BY <2>1, <2>2 DEF SinkInv, SinkTypeOK, ClientsSound
<1>3. CASE Crash
  BY <1>3, CrashStep
<1>4. CASE \E c \in Clients : Subscribe(c)
  BY <1>4, SubscribeStep
<1>5. ASSUME NEW c \in Clients, Unsubscribe(c) PROVE SinkInv'
  <2>1. /\ client' = [client EXCEPT ![c] = [on |-> FALSE, got |-> <<>>]]
        /\ UNCHANGED <<up, emitted, unflushed, past, table, missed>>
        /\ client \in [Clients -> [on : BOOLEAN, got : Rows]] /\ <<>> \in Rows
    BY <1>5 DEF Unsubscribe, SinkInv, SinkTypeOK, Rows
  <2>2. client' \in [Clients -> [on : BOOLEAN, got : Rows]]
    BY <2>1
  <2>3. ClientsSound'
    BY <2>1 DEF SinkInv, ClientsSound
  <2>4. TableSound' /\ PastSound'
    BY <2>1 DEF SinkInv, TableSound, PastSound, LogReplays, InOrder, Ordered, Shows
  <2> QED BY <2>1, <2>2, <2>3, <2>4 DEF SinkInv, SinkTypeOK
<1>6. CASE UNCHANGED sinkVars
  BY <1>6 DEF sinkVars, SinkInv, SinkTypeOK, PastSound, ClientsSound, TableSound, LogReplays, InOrder, Ordered, Shows
<1> QED
  BY <1>1, <1>2, <1>3, <1>4, <1>5, <1>6 DEF SinkNext

\* Every reader gets the run: a subscriber, whenever it joined, every event once and
\* in order, and a reader of the log, after a crash too, all that came before a whole
\* event (run_sink.py put, flush, subscribe, load_events_from_db).
THEOREM ReadersAlwaysSeeTheRun == SinkSpec => []ReadersSeeTheRun
<1>1. SinkInit => SinkInv
  <2> SUFFICES ASSUME SinkInit PROVE SinkInv
    OBVIOUS
  <2>1. /\ up = TRUE /\ emitted = <<>> /\ unflushed = <<>> /\ past = <<>> /\ table = <<>> /\ missed = FALSE
        /\ client = [c \in Clients |-> [on |-> FALSE, got |-> <<>>]]
    BY DEF SinkInit
  <2>2. <<>> \in Rows /\ <<>> \in Seq(Events)
    BY DEF Rows
  <2>3. SinkTypeOK /\ ClientsSound /\ TableSound
    BY <2>1, <2>2 DEF SinkTypeOK, ClientsSound, TableSound
  <2>4. PastSound
    BY <2>1 DEF PastSound, PastIn, CoveredIn, InOrderIn, KnownIn, BuffersIn, Follows
  <2> QED BY <2>3, <2>4 DEF SinkInv
<1>2. SinkInv => ReadersSeeTheRun
  <2> SUFFICES ASSUME SinkInv PROVE SubscriberSeesAll
    BY TableReplays DEF ReadersSeeTheRun
  <2> QED
    BY DEF SubscriberSeesAll, SinkInv, ClientsSound, Reads, InOrder, InOrderIn, Ordered, OrderedIn
<1> QED
  BY <1>1, <1>2, SinkInductive, PTL DEF SinkSpec

-----------------------------------------------------------------------------
(* Conversation.  Lists made item by item.                                  *)

\* A set of numbers that holds 0 and the successor of each of its members is Nat.
LEMMA NatInductive ==
  ASSUME NEW X \in SUBSET Nat, 0 \in X, \A n \in X : n + 1 \in X
  PROVE  X = Nat
<1> SUFFICES ASSUME NEW m \in Nat, m \notin X PROVE FALSE
  OBVIOUS
<1> DEFINE S == {k \in 0 .. m : k \in X}
           f == [k \in S |-> k + 1]
<1>1. IsFiniteSet(S)
  <2>1. IsFiniteSet(0 .. m)
    BY FS_Interval
  <2> QED BY <2>1, FS_Subset
<1>2. f \in Injection(S, S)
  BY DEF Injection, IsInjective
<1>3. f \in Surjection(S, S)
  BY <1>1, <1>2, FS_Injection
<1>4. 0 \in S
  OBVIOUS
<1>5. \E k \in S : f[k] = 0
  BY <1>3, <1>4 DEF Surjection
<1> QED
  BY <1>5

-----------------------------------------------------------------------------
(* Lists that are put together piece by piece.                              *)

\* f[i] is what the first i pieces of q make.
FlatSteps(f, q, N, S) ==
    /\ f \in [0 .. N -> Seq(S)]
    /\ f[0] = <<>> /\ f[N] = FlattenSeq(q)
    /\ \A i \in 1 .. N : f[i] = f[i - 1] \o q[i]

FlatEq(h, q, n) == h = [i \in 1 .. n |-> IF i = 1 THEN q[i] ELSE h[i - 1] \o q[i]]

\* The recursive function behind FlattenSeq exists.
LEMMA FlatExists ==
  ASSUME NEW q, NEW N \in Nat
  PROVE  \E h : FlatEq(h, q, N)
<1> DEFINE X == {n \in Nat : \E h : FlatEq(h, q, n)}
<1>1. 0 \in X
  <2> DEFINE h == [i \in 1 .. 0 |-> <<>>]
  <2>1. FlatEq(h, q, 0)
    BY DEF FlatEq
  <2> QED BY <2>1
<1>2. ASSUME NEW n \in X PROVE n + 1 \in X
  <2>0. n \in Nat
    BY <1>2
  <2>1. PICK g : FlatEq(g, q, n)
    BY <1>2
  <2> DEFINE h == [i \in 1 .. n + 1 |-> IF i <= n THEN g[i] ELSE IF i = 1 THEN q[i] ELSE g[i - 1] \o q[i]]
  <2>2. \A i \in 1 .. n + 1 : h[i] = IF i = 1 THEN q[i] ELSE h[i - 1] \o q[i]
    <3> SUFFICES ASSUME NEW i \in 1 .. n + 1 PROVE h[i] = IF i = 1 THEN q[i] ELSE h[i - 1] \o q[i]
      OBVIOUS
    <3>1. \A j \in 1 .. n : g[j] = IF j = 1 THEN q[j] ELSE g[j - 1] \o q[j]
      BY <2>1 DEF FlatEq
    <3>2. CASE i <= n
      <4>1. i # 1 => i - 1 \in 1 .. n + 1 /\ h[i - 1] = g[i - 1]
        BY <3>2
      <4>2. h[i] = g[i]
        BY <3>2
      <4>3. i \in 1 .. n
        BY <3>2
      <4>4. g[i] = IF i = 1 THEN q[i] ELSE g[i - 1] \o q[i]
        BY <3>1, <4>3
      <4>5. CASE i = 1
        <5>1. g[i] = q[i]
          BY <4>4, <4>5
        <5> HIDE DEF h
        <5> QED BY <4>2, <4>5, <5>1
      <4>6. CASE i # 1
        <5>1. g[i] = g[i - 1] \o q[i] /\ h[i - 1] = g[i - 1]
          BY <4>1, <4>4, <4>6
        <5> HIDE DEF h
        <5> QED BY <4>2, <4>6, <5>1
      <4> QED BY <4>5, <4>6
    <3>3. CASE i = n + 1 /\ i # 1
      <4>1. i - 1 \in 1 .. n + 1 /\ h[i - 1] = g[i - 1]
        BY <3>3
      <4>2. ~(i <= n)
        BY <2>0, <3>3
      <4>3. h[i] = g[i - 1] \o q[i]
        BY <3>3, <4>2
      <4> HIDE DEF h
      <4> QED BY <3>3, <4>1, <4>3
    <3>4. CASE i = n + 1 /\ i = 1
      BY <3>4
    <3> QED BY <3>2, <3>3, <3>4
  <2>3. h = [i \in 1 .. n + 1 |-> h[i]]
    OBVIOUS
  <2> HIDE DEF h
  <2>4. FlatEq(h, q, n + 1)
    BY <2>2, <2>3, Zenon DEF FlatEq
  <2>5. n + 1 \in Nat
    OBVIOUS
  <2>6. \E k : FlatEq(k, q, n + 1)
    BY <2>4
  <2> QED BY <2>5, <2>6
<1>3. X = Nat
  BY <1>1, <1>2, NatInductive
<1> QED BY <1>3

FlatOf(f, h, q, N, S) ==
    /\ f \in [0 .. N -> Seq(S)]
    /\ f[0] = <<>> /\ f[N] = h[N]
    /\ \A i \in 1 .. N : f[i] = f[i - 1] \o q[i]

\* What the recursion has made of the first pieces.
LEMMA FlatMakes ==
  ASSUME NEW S, NEW N \in Nat \ {0}, NEW q, NEW h,
         \A i \in 1 .. N : q[i] \in Seq(S),
         \A i \in 1 .. N : h[i] = IF i = 1 THEN q[i] ELSE h[i - 1] \o q[i]
  PROVE  \E f : FlatOf(f, h, q, N, S)
<1> DEFINE X == {n \in Nat : n + 1 <= N => h[n + 1] \in Seq(S)}
           f == [i \in 0 .. N |-> IF i = 0 THEN <<>> ELSE h[i]]
<1>1. 0 \in X
  <2>1. 1 \in 1 .. N
    OBVIOUS
  <2>2. h[1] = q[1]
    BY <2>1
  <2>3. h[1] \in Seq(S)
    BY <2>1, <2>2
  <2> QED BY <2>3
<1>2. ASSUME NEW n \in X PROVE n + 1 \in X
  <2>1. SUFFICES ASSUME n + 2 <= N PROVE h[n + 2] \in Seq(S)
    OBVIOUS
  <2>2. n + 2 \in 1 .. N /\ n + 2 # 1 /\ (n + 2) - 1 = n + 1
    BY <2>1
  <2>3. h[n + 2] = h[n + 1] \o q[n + 2]
    BY <2>2
  <2>4. h[n + 1] \in Seq(S) /\ q[n + 2] \in Seq(S)
    BY <1>2, <2>1, <2>2
  <2> QED BY <2>3, <2>4
<1>3. X = Nat
  <2> HIDE DEF X
  <2>1. X \in SUBSET Nat
    BY DEF X
  <2> QED BY <1>1, <1>2, <2>1, NatInductive
<1>4. \A i \in 1 .. N : h[i] \in Seq(S)
  <2> SUFFICES ASSUME NEW i \in 1 .. N PROVE h[i] \in Seq(S)
    OBVIOUS
  <2>1. i - 1 \in Nat
    OBVIOUS
  <2>2. i - 1 \in X
    BY <1>3, <2>1, Zenon
  <2>3. (i - 1) + 1 = i
    OBVIOUS
  <2> QED BY <2>2, <2>3
<1>5. f \in [0 .. N -> Seq(S)]
  BY <1>4
<1>6. f[0] = <<>> /\ f[N] = h[N]
  OBVIOUS
<1>7. ASSUME NEW i \in 1 .. N PROVE f[i] = f[i - 1] \o q[i]
  <2>1. CASE i = 1
    <3>1. f[1] = q[1] /\ f[0] = <<>>
      BY <2>1
    <3>2. <<>> \o q[1] = q[1]
      BY <2>1
    <3> QED BY <2>1, <3>1, <3>2
  <2>2. CASE i # 1
    <3>1. h[i] = h[i - 1] \o q[i]
      BY <2>2
    <3>2. f[i] = h[i] /\ f[i - 1] = h[i - 1]
      BY <2>2
    <3> QED BY <3>1, <3>2
  <2> QED BY <2>1, <2>2
<1> HIDE DEF f
<1> QED BY <1>5, <1>6, <1>7 DEF FlatOf

\* Flattening goes through one list after each piece.
LEMMA FlatFold ==
  ASSUME NEW S, NEW N \in Nat, NEW q, DOMAIN q = 1 .. N, q \in Seq(Seq(S))
  PROVE  \E f : FlatSteps(f, q, N, S)
<1>0. Len(q) = N
  OBVIOUS
<1>1. CASE N = 0
  <2> DEFINE f == [i \in 0 .. 0 |-> <<>>]
  <2>1. q = <<>>
    BY <1>0, <1>1
  <2>2. FlattenSeq(q) = <<>>
    BY <2>1 DEF FlattenSeq
  <2>3. f \in [0 .. N -> Seq(S)] /\ f[0] = <<>> /\ f[N] = <<>>
    BY <1>1
  <2>4. \A i \in 1 .. N : f[i] = f[i - 1] \o q[i]
    BY <1>1
  <2> QED BY <2>2, <2>3, <2>4 DEF FlatSteps
<1>2. CASE N # 0
  <2> DEFINE h == CHOOSE k : FlatEq(k, q, N)
  <2>2. FlatEq(h, q, N)
    BY FlatExists, Zenon
  <2>3. FlattenSeq(q) = h[N]
    BY <1>0, <1>2, Zenon DEF FlattenSeq, FlatEq
  <2>4. \A i \in 1 .. N : h[i] = IF i = 1 THEN q[i] ELSE h[i - 1] \o q[i]
    BY <2>2 DEF FlatEq
  <2> HIDE DEF h
  <2>5. \A i \in 1 .. N : q[i] \in Seq(S)
    OBVIOUS
  <2>6. N \in Nat \ {0}
    BY <1>2
  <2>7. PICK f : FlatOf(f, h, q, N, S)
    BY <2>4, <2>5, <2>6, FlatMakes
  <2>8. FlatSteps(f, q, N, S)
    BY <2>3, <2>7, Zenon DEF FlatSteps, FlatOf
  <2> QED BY <2>8
<1> QED BY <1>1, <1>2

\* What has been put together stays in front.
LEMMA FlatExtends ==
  ASSUME NEW S, NEW N \in Nat, NEW q, NEW f, FlatSteps(f, q, N, S),
         \A i \in 1 .. N : q[i] \in Seq(S), NEW i \in 0 .. N
  PROVE  Len(f[i]) <= Len(f[N]) /\ \A x \in 1 .. Len(f[i]) : f[N][x] = f[i][x]
<1> DEFINE P(j) == Len(f[j]) <= Len(f[N]) /\ \A x \in 1 .. Len(f[j]) : f[N][x] = f[j][x]
           X == {n \in Nat : n <= N => P(N - n)}
<1>1. \A j \in 0 .. N : f[j] \in Seq(S)
  BY DEF FlatSteps
<1>2. 0 \in X
  <2>1. P(N)
    <3>1. f[N] \in Seq(S)
      BY <1>1
    <3> QED BY <3>1
  <2> QED BY <2>1
<1>3. ASSUME NEW n \in X PROVE n + 1 \in X
  <2>1. SUFFICES ASSUME n + 1 <= N PROVE P(N - (n + 1))
    OBVIOUS
  <2> DEFINE j == N - n
  <2>2. j \in 1 .. N /\ N - (n + 1) = j - 1 /\ j - 1 \in 0 .. N
    BY <2>1
  <2>3. P(j)
    BY <1>3, <2>1
  <2>4. f[j] = f[j - 1] \o q[j]
    BY <2>2 DEF FlatSteps
  <2>5. f[j - 1] \in Seq(S) /\ q[j] \in Seq(S) /\ f[N] \in Seq(S)
    BY <1>1, <2>2
  <2> HIDE DEF j
  <2>6. Len(f[j - 1]) <= Len(f[j]) /\ \A x \in 1 .. Len(f[j - 1]) : x \in 1 .. Len(f[j]) /\ f[j][x] = f[j - 1][x]
    <3> DEFINE a == f[j - 1]
               b == q[j]
    <3>1. a \in Seq(S) /\ b \in Seq(S) /\ f[j] = a \o b
      BY <2>4, <2>5
    <3> HIDE DEF a, b
    <3>2. Len(a) <= Len(a \o b) /\ \A x \in 1 .. Len(a) : x \in 1 .. Len(a \o b) /\ (a \o b)[x] = a[x]
      BY <3>1
    <3> QED BY <3>1, <3>2 DEF a
  <2>7. f[j] \in Seq(S)
    BY <1>1, <2>2
  <2>8. Len(f[j]) \in Nat /\ Len(f[j - 1]) \in Nat /\ Len(f[N]) \in Nat
    BY <2>5, <2>7
  <2>9. P(j - 1)
    BY <2>3, <2>6, <2>8
  <2> QED BY <2>2, <2>9
<1>4. X = Nat
  <2> HIDE DEF X
  <2>1. X \in SUBSET Nat
    BY DEF X
  <2> QED BY <1>2, <1>3, <2>1, NatInductive
<1>5. N - i \in Nat /\ N - i <= N /\ N - (N - i) = i
  OBVIOUS
<1>6. N - i \in X
  BY <1>4, <1>5
<1>7. P(N - (N - i))
  BY <1>5, <1>6
<1> QED BY <1>5, <1>7

-----------------------------------------------------------------------------
(* The lists of a conversation.                                             *)

Kinds == {"user", "say", "think", "call", "out"}
MadeItems(n) == [kind : Kinds, id : 0 .. n]

\* t is s with placeholders in front of some of its answers: g says where each
\* item has gone.
Spread(g, s, t) ==
    /\ g \in [0 .. Len(s) -> Nat]
    /\ g[0] = 0 /\ g[Len(s)] = Len(t)
    /\ \A i \in 1 .. Len(s) :
         /\ g[i] <= Len(t) /\ t[g[i]] = s[i]
         /\ \/ g[i] = g[i - 1] + 1
            \/ g[i] = g[i - 1] + 2 /\ s[i].kind = "say" /\ t[g[i] - 1].kind = "think"

\* Putting a placeholder in front of each bare answer moves the items apart and
\* replaces none of them (agent._inject_synthetic_reasoning).
LEMMA InjectSpreads ==
  ASSUME NEW n \in Nat, NEW s \in Seq(MadeItems(n))
  PROVE  /\ InjectSyntheticReasoning(s) \in Seq(MadeItems(n))
         /\ \E g : Spread(g, s, InjectSyntheticReasoning(s))
<1> DEFINE S == MadeItems(n)
           N == Len(s)
           q == [i \in DOMAIN s |->
                   IF s[i].kind = "say" /\ (i = 1 \/ s[i - 1].kind # "think")
                   THEN <<It("think", s[i].id), s[i]>> ELSE <<s[i]>>]
           t == InjectSyntheticReasoning(s)
<1>1. N \in Nat /\ DOMAIN s = 1 .. N /\ \A i \in 1 .. N : s[i] \in S
  OBVIOUS
<1>2. \A i \in 1 .. N : It("think", s[i].id) \in S /\ It("think", s[i].id).kind = "think"
  BY <1>1 DEF MadeItems, Kinds, It
<1> HIDE DEF S, N
<1>3. \A i \in 1 .. N : q[i] \in Seq(S)
  BY <1>1, <1>2
<1>4. DOMAIN q = 1 .. N
  BY <1>1
<1>5. q \in Seq(Seq(S))
  BY <1>1, <1>3, <1>4
<1>6. t = FlattenSeq(q)
  BY Zenon DEF InjectSyntheticReasoning
<1>7. \A i \in 1 .. N : q[i] = IF s[i].kind = "say" /\ (i = 1 \/ s[i - 1].kind # "think")
                             THEN <<It("think", s[i].id), s[i]>> ELSE <<s[i]>>
  BY <1>1
<1> HIDE DEF q, t
<1>8. PICK f : FlatSteps(f, q, N, S)
  BY <1>1, <1>4, <1>5, FlatFold
<1>9. f[N] = t /\ f[0] = <<>> /\ \A i \in 0 .. N : f[i] \in Seq(S)
  BY <1>6, <1>8 DEF FlatSteps
<1>10. t \in Seq(S)
  BY <1>1, <1>9
<1> DEFINE g == [i \in 0 .. N |-> Len(f[i])]
<1>11. g \in [0 .. N -> Nat]
  BY <1>9
<1>12. g[0] = 0 /\ g[N] = Len(t)
  BY <1>1, <1>9
<1>13. ASSUME NEW i \in 1 .. N
       PROVE  /\ g[i] <= Len(t) /\ t[g[i]] = s[i]
              /\ \/ g[i] = g[i - 1] + 1
                 \/ g[i] = g[i - 1] + 2 /\ s[i].kind = "say" /\ t[g[i] - 1].kind = "think"
  <2>1. f[i] = f[i - 1] \o q[i]
    BY <1>8 DEF FlatSteps
  <2>2. f[i - 1] \in Seq(S) /\ f[i] \in Seq(S) /\ s[i] \in S /\ It("think", s[i].id) \in S
    BY <1>1, <1>2, <1>9
  <2>3. g[i] = Len(f[i]) /\ g[i - 1] = Len(f[i - 1])
    BY <1>1
  <2>4. i \in 0 .. N
    BY <1>1
  <2>5. Len(f[i]) <= Len(f[N]) /\ \A x \in 1 .. Len(f[i]) : f[N][x] = f[i][x]
    <3>1. N \in Nat
      BY <1>1
    <3> HIDE DEF g
    <3> QED BY <1>3, <1>8, <2>4, <3>1, FlatExtends
  <2>6. Len(f[i]) <= Len(t) /\ \A x \in 1 .. Len(f[i]) : t[x] = f[i][x]
    BY <1>9, <2>5
  <2>7. CASE s[i].kind = "say" /\ (i = 1 \/ s[i - 1].kind # "think")
    <3>1. q[i] = <<It("think", s[i].id), s[i]>>
      BY <1>7, <2>7
    <3>2. Len(f[i]) = Len(f[i - 1]) + 2 /\ f[i][Len(f[i])] = s[i] /\ f[i][Len(f[i]) - 1] = It("think", s[i].id)
      BY <2>1, <2>2, <3>1
    <3>3. Len(f[i]) \in 1 .. Len(f[i]) /\ Len(f[i]) - 1 \in 1 .. Len(f[i])
      BY <2>2, <3>2
    <3>4. t[Len(f[i])] = s[i] /\ t[Len(f[i]) - 1].kind = "think"
      BY <1>2, <2>6, <3>2, <3>3
    <3> HIDE DEF g
    <3> QED BY <2>3, <2>6, <2>7, <3>2, <3>4
  <2>8. CASE ~(s[i].kind = "say" /\ (i = 1 \/ s[i - 1].kind # "think"))
    <3>1. q[i] = <<s[i]>>
      BY <1>7, <2>8
    <3>2. Len(f[i]) = Len(f[i - 1]) + 1 /\ f[i][Len(f[i])] = s[i]
      BY <2>1, <2>2, <3>1
    <3>3. Len(f[i]) \in 1 .. Len(f[i])
      BY <2>2, <3>2
    <3>4. t[Len(f[i])] = s[i]
      BY <2>6, <3>2, <3>3
    <3> HIDE DEF g
    <3> QED BY <2>3, <2>6, <3>2, <3>4
  <2> QED BY <2>7, <2>8
<1> HIDE DEF g
<1>14. Spread(g, s, t)
  BY <1>11, <1>12, <1>13 DEF Spread, N
<1> QED BY <1>10, <1>14 DEF t, S

\* A result at p belongs to the call at q: only calls are between them, then
\* only results.
Chain(s, q, p) ==
    /\ s[q] = It("call", s[p].id)
    /\ \A k \in q + 1 .. p :
         s[k].kind \in {"call", "out"} /\ (s[k - 1].kind = "out" => s[k].kind = "out")

\* After the first n items, every result comes with its call.
Paired(n, s) ==
    \A p \in n + 1 .. Len(s) : s[p].kind = "out" => \E q \in n + 1 .. p - 1 : Chain(s, q, p)

\* Every call has been replied to.
Replied(s) ==
    \A p \in 1 .. Len(s) : s[p].kind = "call" =>
        \E r \in p + 1 .. Len(s) : s[r] = It("out", s[p].id)

\* The places items go to are numbers.
LEMMA SpreadPlaces ==
  ASSUME NEW S, NEW s \in Seq(S), NEW t, NEW g, Spread(g, s, t)
  PROVE  Len(s) \in Nat /\ \A k \in 0 .. Len(s) : g[k] \in Nat
<1>1. Len(s) \in Nat
  OBVIOUS
<1>2. g \in [0 .. Len(s) -> Nat]
  BY Zenon DEF Spread
<1> QED BY <1>1, <1>2

\* Items move back, and keep their order.
LEMMA SpreadGrows ==
  ASSUME NEW S, NEW s \in Seq(S), NEW t \in Seq(S), NEW g, Spread(g, s, t),
         NEW i \in 0 .. Len(s), NEW j \in 0 .. Len(s), i <= j
  PROVE  g[i] \in Nat /\ g[j] \in Nat /\ g[i] + (j - i) <= g[j]
<1> DEFINE N == Len(s)
           X == {d \in Nat : i + d <= N => g[i] + d <= g[i + d]}
<1>0. N \in Nat /\ \A k \in 0 .. N : g[k] \in Nat
  BY SpreadPlaces
<1>s. \A k \in 1 .. N : g[k - 1] + 1 <= g[k]
  <2> SUFFICES ASSUME NEW k \in 1 .. N PROVE g[k - 1] + 1 <= g[k]
    OBVIOUS
  <2>1. g[k - 1] \in Nat
    BY <1>0
  <2>2. g[k] = g[k - 1] + 1 \/ g[k] = g[k - 1] + 2
    BY DEF Spread
  <2> QED BY <2>1, <2>2
<1> HIDE DEF N
<1>1. 0 \in X
  BY <1>0 DEF N
<1>2. ASSUME NEW d \in X PROVE d + 1 \in X
  <2>1. SUFFICES ASSUME i + (d + 1) <= N PROVE g[i] + (d + 1) <= g[i + (d + 1)]
    BY <1>2
  <2>2. d \in Nat /\ g[i] + d <= g[i + d]
    BY <1>0, <1>2, <2>1
  <2>3. i + (d + 1) \in 1 .. N /\ (i + (d + 1)) - 1 = i + d
    BY <1>0, <2>1, <2>2
  <2>4. g[i + d] + 1 <= g[i + (d + 1)]
    BY <1>s, <2>3
  <2>5. g[i] \in Nat /\ g[i + d] \in Nat /\ g[i + (d + 1)] \in Nat
    BY <1>0, <2>1, <2>2 DEF N
  <2> DEFINE a == g[i]
             b == g[i + d]
             c == g[i + (d + 1)]
  <2>6. /\ d \in Nat /\ a \in Nat /\ b \in Nat /\ c \in Nat
        /\ a + d <= b /\ b + 1 <= c
    BY <2>2, <2>4, <2>5
  <2> HIDE DEF a, b, c
  <2>7. a + (d + 1) <= c
    BY <2>6
  <2> QED BY <2>7 DEF a, c
<1>3. X = Nat
  <2> HIDE DEF X
  <2>1. X \in SUBSET Nat
    BY DEF X
  <2> QED BY <1>1, <1>2, <2>1, NatInductive
<1>4. j - i \in Nat /\ i + (j - i) = j /\ j <= N
  BY DEF N
<1>5. j - i \in X
  BY <1>3, <1>4
<1> QED BY <1>0, <1>4, <1>5 DEF N

\* What is not a placeholder was there before.
LEMMA SpreadKnown ==
  ASSUME NEW S, NEW s \in Seq(S), NEW t \in Seq(S), NEW g, Spread(g, s, t),
         NEW x \in 1 .. Len(t), t[x].kind # "think"
  PROVE  \E i \in 1 .. Len(s) : x = g[i]
<1> DEFINE N == Len(s)
           Known(n) == \A y \in 1 .. g[n] : t[y].kind # "think" => \E i \in 1 .. n : y = g[i]
           X == {n \in Nat : n <= N => Known(n)}
<1>0. N \in Nat /\ \A k \in 0 .. N : g[k] \in Nat
  BY SpreadPlaces
<1>1. 0 \in X
  BY <1>0 DEF Spread
<1>2. ASSUME NEW n \in X PROVE n + 1 \in X
  <2>1. SUFFICES ASSUME n + 1 <= N, NEW y \in 1 .. g[n + 1], t[y].kind # "think"
                 PROVE  \E i \in 1 .. n + 1 : y = g[i]
    BY <1>2
  <2>2. n \in Nat /\ n + 1 \in 1 .. N /\ (n + 1) - 1 = n
    BY <1>0, <1>2, <2>1
  <2>3. Known(n)
    BY <1>0, <1>2, <2>1, <2>2
  <2>4. \/ g[n + 1] = g[n] + 1
        \/ g[n + 1] = g[n] + 2 /\ t[g[n + 1] - 1].kind = "think"
    BY <2>2 DEF Spread
  <2>5. g[n] \in Nat /\ g[n + 1] \in Nat
    BY <1>0, <2>1, <2>2
  <2>6. CASE y = g[n + 1]
    BY <2>2, <2>6
  <2>7. CASE y # g[n + 1]
    <3>1. y \in 1 .. g[n]
      <4>1. CASE g[n + 1] = g[n] + 1
        BY <2>1, <2>5, <2>7, <4>1
      <4>2. CASE g[n + 1] = g[n] + 2 /\ t[g[n + 1] - 1].kind = "think"
        <5> DEFINE a == g[n]
                   b == g[n + 1]
        <5>1. y # b - 1
          BY <2>1, <4>2
        <5>2. a \in Nat /\ b \in Nat /\ b = a + 2 /\ y \in 1 .. b /\ y # b
          BY <2>1, <2>5, <2>7, <4>2
        <5> HIDE DEF a, b
        <5>3. y \in 1 .. a
          BY <5>1, <5>2
        <5> QED BY <5>3 DEF a
      <4> QED BY <2>4, <4>1, <4>2
    <3>2. PICK i \in 1 .. n : y = g[i]
      BY <2>1, <2>3, <3>1
    <3>3. i \in 1 .. n + 1
      BY <2>2
    <3> QED BY <3>2, <3>3
  <2> QED BY <2>6, <2>7
<1>3. X = Nat
  <2> HIDE DEF X
  <2>1. X \in SUBSET Nat
    BY DEF X
  <2> QED BY <1>1, <1>2, <2>1, NatInductive
<1>4. Known(N)
  BY <1>0, <1>3
<1>5. g[N] = Len(t)
  BY DEF Spread
<1> QED BY <1>4, <1>5

\* Nothing comes between a call and its result.
LEMMA SpreadChain ==
  ASSUME NEW S, NEW s \in Seq(S), NEW t \in Seq(S), NEW g, Spread(g, s, t),
         NEW p \in 1 .. Len(s), NEW q \in 1 .. p, Chain(s, q, p)
  PROVE  Chain(t, g[q], g[p])
<1> DEFINE N == Len(s)
           X == {d \in Nat : q + d <= p => g[q + d] = g[q] + d}
<1>0. N \in Nat /\ \A k \in 0 .. N : g[k] \in Nat
  BY SpreadPlaces
<1>1. 0 \in X
  BY <1>0
<1>2. ASSUME NEW d \in X PROVE d + 1 \in X
  <2>1. SUFFICES ASSUME q + (d + 1) <= p PROVE g[q + (d + 1)] = g[q] + (d + 1)
    BY <1>2
  <2>2. d \in Nat /\ g[q + d] = g[q] + d
    BY <1>0, <1>2, <2>1
  <2>3. q + (d + 1) \in q + 1 .. p /\ q + (d + 1) \in 1 .. N /\ (q + (d + 1)) - 1 = q + d
    BY <1>0, <2>1, <2>2
  <2>4. s[q + (d + 1)].kind # "say"
    BY <2>3 DEF Chain
  <2>5. g[q + (d + 1)] = g[q + d] + 1
    BY <2>3, <2>4 DEF Spread
  <2> DEFINE a == g[q]
             b == g[q + d]
             c == g[q + (d + 1)]
  <2>6. d \in Nat /\ a \in Nat /\ b = a + d /\ c = b + 1
    BY <1>0, <2>2, <2>5
  <2> HIDE DEF a, b, c
  <2>7. c = a + (d + 1)
    BY <2>6
  <2> QED BY <2>7 DEF a, c
<1>3. X = Nat
  <2> HIDE DEF X
  <2>1. X \in SUBSET Nat
    BY DEF X
  <2> QED BY <1>1, <1>2, <2>1, NatInductive
<1>4. \A k \in q .. p : g[k] = g[q] + (k - q) /\ t[g[k]] = s[k]
  <2> SUFFICES ASSUME NEW k \in q .. p PROVE g[k] = g[q] + (k - q) /\ t[g[k]] = s[k]
    OBVIOUS
  <2>1. k - q \in Nat /\ q + (k - q) = k /\ k \in 1 .. N /\ k <= p
    BY <1>0
  <2>2. k - q \in X
    BY <1>3, <2>1
  <2>3. t[g[k]] = s[k]
    BY <2>1 DEF Spread
  <2> QED BY <2>1, <2>2, <2>3
<1>5. g[q] \in Nat /\ g[p] = g[q] + (p - q) /\ t[g[p]] = s[p] /\ t[g[q]] = s[q]
  <2>1. p \in q .. p /\ q \in q .. p /\ q \in 0 .. N
    BY <1>0
  <2> QED BY <1>0, <1>4, <2>1
<1>6. ASSUME NEW x \in g[q] + 1 .. g[p]
      PROVE  t[x].kind \in {"call", "out"} /\ (t[x - 1].kind = "out" => t[x].kind = "out")
  <2>0. g[q] \in Int /\ g[p] \in Int /\ x \in Int /\ p \in Int /\ q \in Int
    BY <1>5
  <2>1. PICK k \in q + 1 .. p : x = g[q] + (k - q)
    <3>1. g[q] + 1 <= x /\ x <= g[q] + (p - q)
      BY <1>5, <2>0
    <3>2. q + (x - g[q]) \in q + 1 .. p
      BY <2>0, <3>1
    <3>3. x = g[q] + ((q + (x - g[q])) - q)
      BY <2>0
    <3> QED BY <3>2, <3>3
  <2>2. k \in q .. p /\ k - 1 \in q .. p /\ g[k] = x /\ g[k - 1] = x - 1
    <3>1. k \in q .. p /\ k - 1 \in q .. p
      BY <2>0, <2>1
    <3>2. g[k] = g[q] + (k - q) /\ g[k - 1] = g[q] + ((k - 1) - q)
      BY <1>4, <3>1
    <3> DEFINE a == g[q]
               b == g[k]
               c == g[k - 1]
    <3>3. /\ a \in Int /\ x \in Int /\ q \in Int /\ k \in Int
          /\ b = a + (k - q) /\ c = a + ((k - 1) - q) /\ x = a + (k - q)
      BY <2>0, <2>1, <3>2
    <3> HIDE DEF a, b, c
    <3>4. b = x /\ c = x - 1
      BY <3>3
    <3> QED BY <3>1, <3>4 DEF b, c
  <2>3. t[x] = s[k] /\ t[x - 1] = s[k - 1]
    BY <1>4, <2>2
  <2> QED BY <2>1, <2>3 DEF Chain
<1> QED BY <1>5, <1>6 DEF Chain

\* The items among the first n of a list.
LEMMA UptoItems ==
  ASSUME NEW S, NEW s \in Seq(S), NEW n \in 0 .. Len(s), NEW m
  PROVE  m \in Items(Upto(s, n)) <=> m.kind # "think" /\ \E i \in 1 .. n : m = s[i]
<1>1. Upto(s, n) \in Seq(S) /\ Len(Upto(s, n)) = n /\ \A i \in 1 .. n : Upto(s, n)[i] = s[i]
  BY DEF Upto
<1> HIDE DEF Upto
<1>2. DOMAIN Upto(s, n) = 1 .. n
  BY <1>1
<1> QED BY <1>1, <1>2, Zenon DEF Items, ToSet

\* Fewer of the items are in front of a place once placeholders have come in.
LEMMA SpreadItems ==
  ASSUME NEW S, NEW s \in Seq(S), NEW t \in Seq(S), NEW g, Spread(g, s, t),
         NEW n \in 0 .. Len(s)
  PROVE  n <= Len(t) /\ Items(Upto(t, n)) \subseteq Items(Upto(s, n))
<1>1. Len(s) \in Nat /\ g[0] = 0 /\ g[Len(s)] = Len(t)
  BY DEF Spread
<1>2. n <= Len(t)
  <2>1. 0 \in 0 .. Len(s) /\ Len(s) \in 0 .. Len(s) /\ 0 <= Len(s)
    BY <1>1
  <2>2. g[0] + (Len(s) - 0) <= g[Len(s)]
    BY <2>1, SpreadGrows
  <2> QED BY <1>1, <2>2
<1>3. SUFFICES ASSUME NEW m \in Items(Upto(t, n)) PROVE m \in Items(Upto(s, n))
  BY <1>2
<1>4. n \in 0 .. Len(t)
  BY <1>2
<1>5. PICK x \in 1 .. n : m = t[x] /\ m.kind # "think"
  BY <1>3, <1>4, UptoItems
<1>6. x \in 1 .. Len(t)
  BY <1>4
<1>7. PICK i \in 1 .. Len(s) : x = g[i]
  BY <1>5, <1>6, SpreadKnown
<1>8. i <= g[i]
  <2>1. 0 \in 0 .. Len(s) /\ i \in 0 .. Len(s) /\ 0 <= i
    BY <1>1
  <2>2. g[0] + (i - 0) <= g[i]
    BY <2>1, SpreadGrows
  <2> QED BY <1>1, <2>2
<1>9. i \in 1 .. n /\ m = s[i]
  <2>1. t[g[i]] = s[i]
    BY DEF Spread
  <2> QED BY <1>5, <1>7, <1>8, <2>1
<1> QED BY <1>5, <1>9, UptoItems

\* Where the lists agree up to n, the first n items have stayed where they were.
LEMMA SpreadSteady ==
  ASSUME NEW S, NEW s \in Seq(S), NEW t \in Seq(S), NEW g, Spread(g, s, t),
         NEW n \in 0 .. Len(s), Upto(t, n) = Upto(s, n), NEW i \in 0 .. n
  PROVE  g[i] = i
<1> DEFINE X == {d \in Nat : d <= n => g[d] = d}
<1>0. Len(s) \in Nat /\ \A k \in 0 .. Len(s) : g[k] \in Nat
  BY SpreadPlaces
<1>a. n <= Len(t)
  BY SpreadItems
<1>b. \A k \in 1 .. n : t[k] = s[k]
  <2> SUFFICES ASSUME NEW k \in 1 .. n PROVE t[k] = s[k]
    OBVIOUS
  <2>1. Upto(t, n)[k] = t[k]
    BY <1>a DEF Upto
  <2>2. Upto(s, n)[k] = s[k]
    BY DEF Upto
  <2> QED BY <2>1, <2>2
<1>1. 0 \in X
  BY DEF Spread
<1>2. ASSUME NEW d \in X PROVE d + 1 \in X
  <2>1. SUFFICES ASSUME d + 1 <= n PROVE g[d + 1] = d + 1
    BY <1>2
  <2>2. d \in Nat /\ d + 1 \in 1 .. Len(s) /\ (d + 1) - 1 = d /\ g[d] = d /\ d + 1 \in 1 .. n
    BY <1>0, <1>2, <2>1
  <2>3. \/ g[d + 1] = g[d] + 1
        \/ g[d + 1] = g[d] + 2 /\ s[d + 1].kind = "say" /\ t[g[d + 1] - 1].kind = "think"
    BY <2>2 DEF Spread
  <2>4. ASSUME g[d + 1] = g[d] + 2, s[d + 1].kind = "say", t[g[d + 1] - 1].kind = "think" PROVE FALSE
    <3>1. g[d + 1] - 1 = d + 1
      BY <2>2, <2>4
    <3>2. t[d + 1].kind = "think" /\ t[d + 1] = s[d + 1]
      BY <1>b, <2>2, <2>4, <3>1
    <3> QED BY <2>4, <3>2
  <2> QED BY <2>2, <2>3, <2>4
<1>3. X = Nat
  <2> HIDE DEF X
  <2>1. X \in SUBSET Nat
    BY DEF X
  <2> QED BY <1>1, <1>2, <2>1, NatInductive
<1>4. i \in X /\ i <= n
  BY <1>3
<1> QED BY <1>4

\* Results stay with their calls, also behind a place that has stayed.
LEMMA SpreadPaired ==
  ASSUME NEW S, NEW s \in Seq(S), NEW t \in Seq(S), NEW g, Spread(g, s, t),
         NEW n \in 0 .. Len(s), n = 0 \/ Upto(t, n) = Upto(s, n), Paired(n, s)
  PROVE  Paired(n, t)
<1>0. Len(s) \in Nat /\ Len(t) \in Nat /\ \A k \in 0 .. Len(s) : g[k] \in Nat
  BY SpreadPlaces
<1>a. g[n] = n
  <2>1. CASE n = 0
    BY <2>1 DEF Spread
  <2>2. CASE Upto(t, n) = Upto(s, n)
    <3>1. n \in 0 .. n
      OBVIOUS
    <3> QED BY <2>2, <3>1, SpreadSteady
  <2> QED BY <2>1, <2>2
<1> SUFFICES ASSUME NEW x \in n + 1 .. Len(t), t[x].kind = "out"
             PROVE  \E y \in n + 1 .. x - 1 : Chain(t, y, x)
  BY DEF Paired
<1>1. x \in 1 .. Len(t) /\ t[x].kind # "think"
  OBVIOUS
<1>2. PICK p \in 1 .. Len(s) : x = g[p]
  BY <1>1, SpreadKnown
<1>3. t[g[p]] = s[p] /\ s[p].kind = "out"
  BY <1>2 DEF Spread
<1>4. p > n
  <2>1. SUFFICES ASSUME p <= n PROVE FALSE
    OBVIOUS
  <2>2. p \in 0 .. Len(s)
    OBVIOUS
  <2>3. g[p] + (n - p) <= g[n]
    BY <2>1, <2>2, SpreadGrows
  <2> QED BY <1>0, <1>2, <1>a, <2>1, <2>2, <2>3
<1>5. PICK q \in n + 1 .. p - 1 : Chain(s, q, p)
  BY <1>3, <1>4 DEF Paired
<1>6. q \in 1 .. p /\ q \in 0 .. Len(s) /\ p \in 0 .. Len(s) /\ q <= p /\ n <= q
  OBVIOUS
<1>7. Chain(t, g[q], x)
  BY <1>2, <1>5, <1>6, SpreadChain
<1>8. g[q] \in n + 1 .. x - 1
  <2>1. g[q] + (p - q) <= g[p]
    BY <1>6, SpreadGrows
  <2>2. g[n] + (q - n) <= g[q]
    BY <1>6, SpreadGrows
  <2> QED BY <1>0, <1>2, <1>5, <1>6, <1>a, <2>1, <2>2
<1> QED BY <1>7, <1>8

\* Replies stay behind their calls.
LEMMA SpreadReplied ==
  ASSUME NEW S, NEW s \in Seq(S), NEW t \in Seq(S), NEW u \in Seq(S), NEW g, Spread(g, s, t),
         Replied(u \o s)
  PROVE  Replied(u \o t)
<1>0. Len(s) \in Nat /\ Len(t) \in Nat /\ Len(u) \in Nat /\ \A k \in 0 .. Len(s) : g[k] \in Nat
  BY SpreadPlaces
<1>a. /\ Len(u \o s) = Len(u) + Len(s) /\ Len(u \o t) = Len(u) + Len(t)
      /\ \A i \in 1 .. Len(u) : (u \o s)[i] = u[i] /\ (u \o t)[i] = u[i]
      /\ \A i \in 1 .. Len(s) : (u \o s)[Len(u) + i] = s[i]
      /\ \A i \in 1 .. Len(t) : (u \o t)[Len(u) + i] = t[i]
  OBVIOUS
<1>b. \A i \in 1 .. Len(s) : g[i] \in 1 .. Len(t) /\ t[g[i]] = s[i]
  <2> SUFFICES ASSUME NEW i \in 1 .. Len(s) PROVE g[i] \in 1 .. Len(t) /\ t[g[i]] = s[i]
    OBVIOUS
  <2>1. g[0] + (i - 0) <= g[i] /\ g[0] = 0
    <3>1. 0 \in 0 .. Len(s) /\ i \in 0 .. Len(s) /\ 0 <= i
      BY <1>0
    <3> QED BY <3>1, SpreadGrows DEF Spread
  <2>2. g[i] <= Len(t) /\ t[g[i]] = s[i]
    BY DEF Spread
  <2>3. g[i] \in Nat
    BY <1>0
  <2> QED BY <2>1, <2>2, <2>3
\* where the items of u \o s have gone
<1> DEFINE h == [k \in 1 .. Len(u) + Len(s) |-> IF k <= Len(u) THEN k ELSE Len(u) + g[k - Len(u)]]
<1>1. ASSUME NEW k \in 1 .. Len(u) + Len(s)
      PROVE  h[k] \in 1 .. Len(u \o t) /\ (u \o t)[h[k]] = (u \o s)[k]
  <2>1. CASE k <= Len(u)
    <3>1. h[k] = k /\ k \in 1 .. Len(u)
      BY <1>0, <2>1
    <3>2. k \in 1 .. Len(u) + Len(t)
      BY <1>0, <3>1
    <3> HIDE DEF h
    <3> QED BY <1>a, <3>1, <3>2
  <2>2. CASE ~(k <= Len(u))
    <3> DEFINE i == k - Len(u)
    <3>1. h[k] = Len(u) + g[i] /\ i \in 1 .. Len(s) /\ k = Len(u) + i
      BY <1>0, <2>2
    <3> HIDE DEF h, i
    <3>2. g[i] \in 1 .. Len(t) /\ t[g[i]] = s[i]
      BY <1>b, <3>1
    <3>3. Len(u) + g[i] \in 1 .. Len(u) + Len(t)
      BY <1>0, <3>2
    <3>4. (u \o t)[Len(u) + g[i]] = t[g[i]] /\ (u \o s)[Len(u) + i] = s[i]
      BY <1>a, <3>1, <3>2
    <3> QED BY <1>a, <3>1, <3>2, <3>3, <3>4
  <2> QED BY <2>1, <2>2
<1>2. ASSUME NEW k \in 1 .. Len(u) + Len(s), NEW l \in 1 .. Len(u) + Len(s), k < l
      PROVE  h[k] < h[l]
  <2>1. CASE l <= Len(u)
    BY <2>1, <1>2
  <2>2. CASE k <= Len(u) /\ ~(l <= Len(u))
    <3>1. l - Len(u) \in 1 .. Len(s)
      BY <1>0, <2>2
    <3>2. g[l - Len(u)] \in 1 .. Len(t)
      BY <1>b, <3>1
    <3>3. h[k] = k /\ h[l] = Len(u) + g[l - Len(u)]
      BY <2>2
    <3> HIDE DEF h
    <3> QED BY <1>0, <2>2, <3>2, <3>3
  <2>3. CASE ~(k <= Len(u))
    <3> DEFINE i == k - Len(u)
               j == l - Len(u)
    <3>1. i \in 1 .. Len(s) /\ j \in 1 .. Len(s) /\ i < j
      BY <1>0, <1>2, <2>3
    <3>2. h[k] = Len(u) + g[i] /\ h[l] = Len(u) + g[j]
      BY <1>0, <1>2, <2>3
    <3> HIDE DEF i, j, h
    <3>3. i \in 0 .. Len(s) /\ j \in 0 .. Len(s) /\ i <= j
      BY <3>1
    <3>4. g[i] + (j - i) <= g[j]
      BY <3>3, SpreadGrows
    <3> DEFINE a == g[i]
               b == g[j]
               p == Len(u)
    <3>5. /\ a \in Nat /\ b \in Nat /\ p \in Nat /\ i \in Nat /\ j \in Nat /\ i < j
          /\ a + (j - i) <= b
      BY <1>0, <3>1, <3>3, <3>4
    <3> HIDE DEF a, b, p
    <3>6. p + a < p + b
      BY <3>5
    <3> QED BY <3>2, <3>6 DEF a, b, p
  <2> QED BY <2>1, <2>2, <2>3
<1> HIDE DEF h
<1> SUFFICES ASSUME NEW x \in 1 .. Len(u \o t), (u \o t)[x].kind = "call"
             PROVE  \E y \in x + 1 .. Len(u \o t) : (u \o t)[y] = It("out", (u \o t)[x].id)
  BY DEF Replied
<1>3. PICK k \in 1 .. Len(u) + Len(s) : x = h[k]
  <2>1. CASE x <= Len(u)
    <3>1. x \in 1 .. Len(u) + Len(s) /\ h[x] = x
      BY <1>0, <1>a, <2>1 DEF h
    <3> QED BY <3>1
  <2>2. CASE ~(x <= Len(u))
    <3> DEFINE w == x - Len(u)
    <3>1. w \in 1 .. Len(t) /\ x = Len(u) + w
      BY <1>0, <1>a, <2>2
    <3> HIDE DEF w
    <3>2. t[w].kind # "think"
      BY <1>a, <3>1
    <3>3. PICK i \in 1 .. Len(s) : w = g[i]
      BY <3>1, <3>2, SpreadKnown
    <3>4. Len(u) + i \in 1 .. Len(u) + Len(s) /\ ~(Len(u) + i <= Len(u)) /\ (Len(u) + i) - Len(u) = i
      BY <1>0
    <3>5. h[Len(u) + i] = Len(u) + g[i]
      BY <3>4 DEF h
    <3> QED BY <3>1, <3>3, <3>4, <3>5
  <2> QED BY <2>1, <2>2
<1>4. (u \o s)[k] = (u \o t)[x]
  BY <1>1, <1>3
<1>5. PICK l \in k + 1 .. Len(u) + Len(s) : (u \o s)[l] = It("out", (u \o s)[k].id)
  BY <1>a, <1>4 DEF Replied
<1>6. l \in 1 .. Len(u) + Len(s) /\ k < l
  BY <1>0
<1>7. h[l] \in 1 .. Len(u \o t) /\ (u \o t)[h[l]] = (u \o s)[l] /\ x < h[l]
  BY <1>1, <1>2, <1>3, <1>6
<1>8. h[l] \in x + 1 .. Len(u \o t)
  BY <1>7
<1> QED BY <1>4, <1>5, <1>7, <1>8

\* As far as no call dangles the repair changes nothing.
LEMMA RepairFolds ==
  ASSUME NEW n \in Nat, NEW s \in Seq(MadeItems(n)), NEW M \in 0 .. Len(s),
         \A i \in 1 .. M : s[i].kind = "call" => It("out", s[i].id) \in ToSet(s)
  PROVE  \E f, q : /\ FlatSteps(f, q, Len(s), MadeItems(n))
                   /\ f[Len(s)] = RepairDanglingToolCalls(s)
                   /\ f[M] = Upto(s, M)
                   /\ \A i \in 1 .. Len(s) :
                        q[i] = IF s[i].kind = "call" /\ It("out", s[i].id) \notin ToSet(s)
                               THEN <<s[i], It("out", s[i].id)>> ELSE <<s[i]>>
<1> DEFINE S == MadeItems(n)
           N == Len(s)
           q == [i \in DOMAIN s |->
                   IF s[i].kind = "call" /\ It("out", s[i].id) \notin ToSet(s)
                   THEN <<s[i], It("out", s[i].id)>> ELSE <<s[i]>>]
<1>1. N \in Nat /\ DOMAIN s = 1 .. N /\ (\A i \in 1 .. N : s[i] \in S) /\ M <= N /\ M \in Nat
  OBVIOUS
<1>2. \A i \in 1 .. N : It("out", s[i].id) \in S
  BY <1>1 DEF MadeItems, Kinds, It
<1> HIDE DEF S, N
<1>3. \A i \in 1 .. N : q[i] \in Seq(S)
  BY <1>1, <1>2
<1>4. DOMAIN q = 1 .. N
  BY <1>1
<1>5. q \in Seq(Seq(S))
  <2>1. q \in [1 .. N -> Seq(S)]
    BY <1>3, <1>4
  <2> HIDE DEF q
  <2> QED BY <1>1, <2>1
<1>6. RepairDanglingToolCalls(s) = FlattenSeq(q)
  BY Zenon DEF RepairDanglingToolCalls
<1>7. \A i \in 1 .. N : q[i] = IF s[i].kind = "call" /\ It("out", s[i].id) \notin ToSet(s)
                             THEN <<s[i], It("out", s[i].id)>> ELSE <<s[i]>>
  BY <1>1
<1> HIDE DEF q
<1>8. PICK f : FlatSteps(f, q, N, S)
  BY <1>1, <1>4, <1>5, FlatFold
<1>9. f[N] = RepairDanglingToolCalls(s) /\ f[0] = <<>>
  BY <1>6, <1>8 DEF FlatSteps
<1> DEFINE X == {i \in Nat : i <= M => f[i] = Upto(s, i)}
<1>10. 0 \in X
  <2>1. s \in Seq(S)
    BY DEF S
  <2>2. Upto(s, 0) = <<>>
    BY <2>1 DEF Upto
  <2> QED BY <1>9, <2>2
<1>11. ASSUME NEW i \in X PROVE i + 1 \in X
  <2>1. SUFFICES ASSUME i + 1 <= M PROVE f[i + 1] = Upto(s, i + 1)
    BY <1>11
  <2>2. i \in Nat /\ f[i] = Upto(s, i) /\ i + 1 \in 1 .. M /\ i + 1 \in 1 .. N /\ (i + 1) - 1 = i
    BY <1>1, <1>11, <2>1
  <2>3. q[i + 1] = <<s[i + 1]>>
    BY <1>7, <2>2
  <2>4. f[i + 1] = Upto(s, i) \o <<s[i + 1]>>
    BY <1>8, <2>2, <2>3 DEF FlatSteps
  <2>5. Upto(s, i + 1) = Upto(s, i) \o <<s[i + 1]>>
    <3>1. s \in Seq(S) /\ s[i + 1] \in S
      BY <1>1, <2>2 DEF S
    <3>2. i + 1 \in 1 .. Len(s)
      BY <2>2 DEF N
    <3> QED BY <2>2, <3>1, <3>2 DEF Upto
  <2> QED BY <2>4, <2>5
<1>12. X = Nat
  <2> HIDE DEF X
  <2>1. X \in SUBSET Nat
    BY DEF X
  <2> QED BY <1>10, <1>11, <2>1, NatInductive
<1>13. f[M] = Upto(s, M)
  <2>1. M \in X
    BY <1>1, <1>12
  <2> QED BY <1>1, <2>1
<1> QED BY <1>7, <1>8, <1>9, <1>13 DEF S, N

\* Where every call has been replied to, the repair changes nothing.
LEMMA RepairSame ==
  ASSUME NEW n \in Nat, NEW s \in Seq(MadeItems(n)), Replied(s)
  PROVE  RepairDanglingToolCalls(s) = s
<1>1. ASSUME NEW i \in 1 .. Len(s), s[i].kind = "call" PROVE It("out", s[i].id) \in ToSet(s)
  <2>1. PICK r \in i + 1 .. Len(s) : s[r] = It("out", s[i].id)
    BY <1>1 DEF Replied
  <2>2. r \in DOMAIN s
    OBVIOUS
  <2> QED BY <2>1, <2>2 DEF ToSet
<1>2. Len(s) \in 0 .. Len(s)
  OBVIOUS
<1>3. PICK f, q : f[Len(s)] = RepairDanglingToolCalls(s) /\ f[Len(s)] = Upto(s, Len(s))
  BY <1>1, <1>2, RepairFolds
<1>4. Upto(s, Len(s)) = s
  BY DEF Upto
<1> QED BY <1>3, <1>4

\* The lists around a result that was lost, and around the one made up for it.
JoinsFour(a, x, y, z, w) == ((a \o <<x>>) \o <<y, z>>) \o <<w>> = a \o <<x, y, z, w>>

\* Three pieces behind a list are four items behind it.
LEMMA FourMore ==
  ASSUME NEW S, NEW a \in Seq(S), NEW x \in S, NEW y \in S, NEW z \in S, NEW w \in S
  PROVE  JoinsFour(a, x, y, z, w)
<1>1. <<x, y, z, w>> \in Seq(S) /\ <<y, z>> \in Seq(S) /\ <<x>> \in Seq(S) /\ <<w>> \in Seq(S)
  OBVIOUS
<1> DEFINE b == a \o <<x>>
           d == b \o <<y, z>>
           e == d \o <<w>>
           h == a \o <<x, y, z, w>>
           n == Len(a)
<1>2. n \in Nat /\ b \in Seq(S) /\ Len(b) = n + 1 /\ b[n + 1] = x /\ \A i \in 1 .. n : b[i] = a[i]
  BY <1>1
<1>3. h \in Seq(S) /\ Len(h) = n + 4 /\ h[n + 1] = x /\ h[n + 2] = y /\ h[n + 3] = z /\ h[n + 4] = w
      /\ \A i \in 1 .. n : h[i] = a[i]
  BY <1>1
<1> HIDE DEF b, n
<1>4. d \in Seq(S) /\ Len(d) = n + 3 /\ d[n + 2] = y /\ d[n + 3] = z /\ \A i \in 1 .. n + 1 : d[i] = b[i]
  BY <1>1, <1>2
<1> HIDE DEF d
<1>5. e \in Seq(S) /\ Len(e) = n + 4 /\ e[n + 4] = w /\ \A i \in 1 .. n + 3 : e[i] = d[i]
  BY <1>1, <1>2, <1>4
<1> HIDE DEF e, h
<1>6. ASSUME NEW i \in 1 .. n + 4 PROVE e[i] = h[i]
  <2>1. i \in 1 .. n \/ i = n + 1 \/ i = n + 2 \/ i = n + 3 \/ i = n + 4
    BY <1>2
  <2>2. CASE i \in 1 .. n
    <3>1. i \in 1 .. n + 3 /\ i \in 1 .. n + 1
      BY <1>2, <2>2
    <3> QED BY <1>2, <1>3, <1>4, <1>5, <2>2, <3>1
  <2>3. CASE i \in {n + 1, n + 2, n + 3, n + 4}
    <3>1. n + 1 \in 1 .. n + 1 /\ n + 1 \in 1 .. n + 3 /\ n + 2 \in 1 .. n + 3 /\ n + 3 \in 1 .. n + 3
      BY <1>2
    <3> QED BY <1>2, <1>3, <1>4, <1>5, <2>3, <3>1
  <2> QED BY <2>1, <2>2, <2>3
<1>7. e = h
  BY <1>2, <1>3, <1>5, <1>6
<1> QED BY <1>7 DEF e, h, d, b, JoinsFour

LostTail(c) == <<It("call", c), It("call", c + 1), It("out", c)>>
MendedTail(c) == <<It("call", c), It("call", c + 1), It("out", c + 1), It("out", c)>>

\* The result that was lost is made up, right behind its call.
LEMMA RepairLost ==
  ASSUME NEW n \in Nat, NEW c \in Nat, NEW base \in Seq(MadeItems(n)), c + 1 <= n,
         Replied(base), \A i \in 1 .. Len(base) : base[i].id < c
  PROVE  RepairDanglingToolCalls(base \o LostTail(c)) = base \o MendedTail(c)
<1> DEFINE s == base \o LostTail(c)
           B == Len(base)
           S == MadeItems(n)
<1>1. It("call", c) \in S /\ It("call", c + 1) \in S /\ It("out", c) \in S /\ It("out", c + 1) \in S
  BY DEF MadeItems, Kinds, It
<1> HIDE DEF S
<1>2. /\ s \in Seq(S) /\ B \in Nat /\ base \in Seq(S)
      /\ Len(s) = B + 3 /\ s[B + 1] = It("call", c) /\ s[B + 2] = It("call", c + 1) /\ s[B + 3] = It("out", c)
      /\ \A i \in 1 .. B : s[i] = base[i]
  BY <1>1 DEF LostTail, S
<1> HIDE DEF s, B
<1>a. /\ s[B + 1].kind = "call" /\ s[B + 1].id = c /\ s[B + 2].kind = "call" /\ s[B + 2].id = c + 1
      /\ s[B + 3].kind = "out" /\ s[B + 3].id = c
  BY <1>2 DEF It
<1>b. DOMAIN s = 1 .. B + 3
  BY <1>2
<1>3. ASSUME NEW i \in 1 .. B + 1, s[i].kind = "call" PROVE It("out", s[i].id) \in ToSet(s)
  <2>1. CASE i = B + 1
    <3>1. B + 3 \in DOMAIN s /\ s[B + 3] = It("out", s[i].id)
      BY <1>2, <1>a, <1>b, <2>1
    <3> QED BY <3>1 DEF ToSet
  <2>2. CASE i # B + 1
    <3>1. i \in 1 .. B /\ i \in 1 .. Len(base)
      BY <1>2, <2>2 DEF B
    <3>2. PICK r \in i + 1 .. Len(base) : base[r] = It("out", base[i].id)
      BY <1>2, <1>3, <3>1 DEF Replied
    <3>3. r \in 1 .. B /\ r \in DOMAIN s
      BY <1>2, <1>b, <3>1 DEF B
    <3>4. s[r] = It("out", s[i].id)
      BY <1>2, <3>1, <3>2, <3>3
    <3> QED BY <3>3, <3>4 DEF ToSet
  <2> QED BY <2>1, <2>2
<1>4. It("out", c + 1) \notin ToSet(s)
  <2> SUFFICES ASSUME NEW i \in 1 .. B + 3, s[i] = It("out", c + 1) PROVE FALSE
    BY <1>b DEF ToSet
  <2>1. s[i].kind = "out" /\ s[i].id = c + 1
    BY DEF It
  <2>2. i \in 1 .. B \/ i = B + 1 \/ i = B + 2 \/ i = B + 3
    BY <1>2
  <2>3. ASSUME i \in 1 .. B PROVE FALSE
    <3>1. i \in 1 .. Len(base) /\ base[i].id = c + 1
      BY <1>2, <2>1, <2>3 DEF B
    <3>2. base[i].id < c
      BY <3>1
    <3> QED BY <3>1, <3>2
  <2> QED BY <1>a, <2>1, <2>2, <2>3
<1>5. B + 1 \in 0 .. Len(s) /\ s \in Seq(MadeItems(n))
  BY <1>2 DEF S
<1>6. PICK f, q : /\ FlatSteps(f, q, Len(s), MadeItems(n))
                  /\ f[Len(s)] = RepairDanglingToolCalls(s)
                  /\ f[B + 1] = Upto(s, B + 1)
                  /\ \A i \in 1 .. Len(s) :
                       q[i] = IF s[i].kind = "call" /\ It("out", s[i].id) \notin ToSet(s)
                              THEN <<s[i], It("out", s[i].id)>> ELSE <<s[i]>>
  BY <1>3, <1>5, RepairFolds
<1>7. q[B + 2] = <<It("call", c + 1), It("out", c + 1)>> /\ q[B + 3] = <<It("out", c)>>
  <2>1. B + 2 \in 1 .. Len(s) /\ B + 3 \in 1 .. Len(s)
    BY <1>2
  <2>2. q[B + 2] = <<s[B + 2], It("out", s[B + 2].id)>>
    BY <1>4, <1>6, <1>a, <2>1
  <2>3. q[B + 3] = <<s[B + 3]>>
    BY <1>6, <1>a, <2>1
  <2> QED BY <1>2, <1>a, <2>2, <2>3
<1>8. f[B + 3] = (f[B + 1] \o q[B + 2]) \o q[B + 3]
  <2>1. B + 2 \in 1 .. Len(s) /\ B + 3 \in 1 .. Len(s) /\ (B + 2) - 1 = B + 1 /\ (B + 3) - 1 = B + 2
    <3>1. B \in Nat /\ Len(s) = B + 3
      BY <1>2
    <3> QED BY <3>1
  <2>2. \A i \in 1 .. Len(s) : f[i] = f[i - 1] \o q[i]
    BY <1>6, Zenon DEF FlatSteps
  <2> QED BY <2>1, <2>2, Zenon
<1>9. Upto(s, B + 1) = base \o <<It("call", c)>>
  <2>1. B = Len(base) /\ base \in Seq(S) /\ It("call", c) \in S
    BY <1>1, <1>2 DEF B
  <2> HIDE DEF B
  <2>2. Len(Upto(s, B + 1)) = B + 1 /\ Upto(s, B + 1) \in Seq(S) /\ \A i \in 1 .. B + 1 : Upto(s, B + 1)[i] = s[i]
    BY <1>2 DEF Upto
  <2>3. Len(base \o <<It("call", c)>>) = B + 1 /\ base \o <<It("call", c)>> \in Seq(S)
        /\ \A i \in 1 .. B + 1 : (base \o <<It("call", c)>>)[i] = s[i]
    BY <1>2, <2>1
  <2> DEFINE x == Upto(s, B + 1)
             y == base \o <<It("call", c)>>
  <2>4. x \in Seq(S) /\ y \in Seq(S) /\ Len(x) = B + 1 /\ Len(y) = B + 1 /\ \A i \in 1 .. B + 1 : x[i] = y[i]
    BY <2>2, <2>3
  <2> HIDE DEF x, y
  <2>5. x = y
    BY <2>4
  <2> QED BY <2>5 DEF x, y
<1>10. RepairDanglingToolCalls(s)
        = ((base \o <<It("call", c)>>) \o <<It("call", c + 1), It("out", c + 1)>>) \o <<It("out", c)>>
  BY <1>2, <1>6, <1>7, <1>8, <1>9
<1>11. ((base \o <<It("call", c)>>) \o <<It("call", c + 1), It("out", c + 1)>>) \o <<It("out", c)>>
        = base \o MendedTail(c)
  <2> DEFINE x == It("call", c)
             y == It("call", c + 1)
             z == It("out", c + 1)
             w == It("out", c)
  <2>1. x \in S /\ y \in S /\ z \in S /\ w \in S /\ base \in Seq(S)
    BY <1>1, <1>2
  <2> HIDE DEF x, y, z, w
  <2>2. JoinsFour(base, x, y, z, w)
    BY <2>1, FourMore
  <2> QED BY <2>2, Zenon DEF MendedTail, JoinsFour, x, y, z, w
<1> QED BY <1>10, <1>11 DEF s

-----------------------------------------------------------------------------
(* Cutting and joining.                                                     *)

\* A chain can be looked at from another place.
LEMMA ChainMoves ==
  ASSUME NEW s, NEW t, NEW d \in Int, NEW p \in Int, NEW q \in Int, q <= p,
         \A k \in q .. p : t[k + d] = s[k], Chain(s, q, p)
  PROVE  Chain(t, q + d, p + d)
<1>1. t[q + d] = s[q] /\ t[p + d] = s[p]
  OBVIOUS
<1>2. ASSUME NEW x \in (q + d) + 1 .. p + d
      PROVE  t[x].kind \in {"call", "out"} /\ (t[x - 1].kind = "out" => t[x].kind = "out")
  <2> DEFINE k == x - d
  <2>1. k \in q + 1 .. p /\ k \in q .. p /\ k - 1 \in q .. p /\ k + d = x /\ (k - 1) + d = x - 1
    OBVIOUS
  <2> HIDE DEF k
  <2>2. t[x] = s[k] /\ t[x - 1] = s[k - 1]
    BY <2>1
  <2> QED BY <2>1, <2>2 DEF Chain
<1> QED BY <1>1, <1>2 DEF Chain

\* What there is of a list after its first n items.
LEMMA FromIs ==
  ASSUME NEW S, NEW s \in Seq(S), NEW n \in 0 .. Len(s)
  PROVE  /\ From(s, n) \in Seq(S) /\ Len(From(s, n)) = Len(s) - n
         /\ \A i \in 1 .. Len(s) - n : From(s, n)[i] = s[n + i]
  BY DEF From

\* Pairs of the rest of a list are pairs of the list behind that place.
LEMMA PairedRest ==
  ASSUME NEW S, NEW s \in Seq(S), NEW n \in 0 .. Len(s), NEW m \in 0 .. Len(s) - n
  PROVE  Paired(m, From(s, n)) <=> Paired(n + m, s)
<1> DEFINE r == From(s, n)
<1>1. Len(r) = Len(s) - n /\ (\A i \in 1 .. Len(s) - n : r[i] = s[n + i]) /\ Len(s) \in Nat /\ n \in Nat /\ m \in Nat
  <2>1. Len(r) = Len(s) - n /\ (\A i \in 1 .. Len(s) - n : r[i] = s[n + i])
    BY FromIs
  <2>2. Len(s) \in Nat /\ n \in Nat /\ m \in Nat
    OBVIOUS
  <2> HIDE DEF r
  <2> QED BY <2>1, <2>2
<1> HIDE DEF r
<1>2. ASSUME Paired(m, r), NEW p \in (n + m) + 1 .. Len(s), s[p].kind = "out"
      PROVE  \E q \in (n + m) + 1 .. p - 1 : Chain(s, q, p)
  <2>1. p - n \in m + 1 .. Len(r) /\ r[p - n] = s[p]
    <3>1. p - n \in 1 .. Len(s) - n /\ n + (p - n) = p /\ p - n \in m + 1 .. Len(r)
      BY <1>1
    <3> QED BY <1>1, <3>1
  <2>2. PICK q \in m + 1 .. (p - n) - 1 : Chain(r, q, p - n)
    BY <1>2, <2>1 DEF Paired
  <2>3. \A k \in q .. p - n : s[k + n] = r[k]
    <3> SUFFICES ASSUME NEW k \in q .. p - n PROVE s[k + n] = r[k]
      OBVIOUS
    <3>1. k \in 1 .. Len(s) - n /\ k + n = n + k
      BY <1>1
    <3> QED BY <1>1, <3>1
  <2>4. q \in Int /\ p - n \in Int /\ q <= p - n /\ (p - n) + n = p /\ n \in Int /\ q + n \in (n + m) + 1 .. p - 1
    BY <1>1
  <2>5. Chain(s, q + n, (p - n) + n)
    BY <2>2, <2>3, <2>4, ChainMoves
  <2> QED BY <2>4, <2>5
<1>3. ASSUME Paired(n + m, s), NEW p \in m + 1 .. Len(r), r[p].kind = "out"
      PROVE  \E q \in m + 1 .. p - 1 : Chain(r, q, p)
  <2>1. p + n \in (n + m) + 1 .. Len(s) /\ r[p] = s[p + n]
    <3>1. p \in 1 .. Len(s) - n /\ n + p = p + n
      BY <1>1
    <3> QED BY <1>1, <3>1
  <2>2. PICK q \in (n + m) + 1 .. (p + n) - 1 : Chain(s, q, p + n)
    BY <1>3, <2>1 DEF Paired
  <2>3. \A k \in q .. p + n : r[k + (- n)] = s[k]
    <3> SUFFICES ASSUME NEW k \in q .. p + n PROVE r[k + (- n)] = s[k]
      OBVIOUS
    <3>1. k + (- n) \in 1 .. Len(s) - n /\ n + (k + (- n)) = k
      BY <1>1, <2>1
    <3> QED BY <1>1, <3>1
  <2>4. q \in Int /\ p + n \in Int /\ q <= p + n /\ (p + n) + (- n) = p /\ - n \in Int
        /\ q + (- n) \in m + 1 .. p - 1
    <3>1. n \in Nat /\ m \in Nat /\ p \in Nat
      BY <1>1
    <3>2. q \in Nat /\ (n + m) + 1 <= q /\ q <= (p + n) - 1
      BY <3>1
    <3> QED BY <3>1, <3>2
  <2>5. Chain(r, q + (- n), (p + n) + (- n))
    BY <2>2, <2>3, <2>4, ChainMoves
  <2> QED BY <2>4, <2>5
<1> QED BY <1>2, <1>3 DEF Paired, r

\* The parts of a joined list.
LEMMA JoinIs ==
  ASSUME NEW S, NEW a \in Seq(S), NEW b \in Seq(S)
  PROVE  /\ a \o b \in Seq(S) /\ Len(a \o b) = Len(a) + Len(b)
         /\ Len(a) \in Nat /\ Len(b) \in Nat
         /\ \A i \in 1 .. Len(a) : (a \o b)[i] = a[i]
         /\ \A i \in 1 .. Len(b) : (a \o b)[Len(a) + i] = b[i]
  OBVIOUS

\* What is behind the first of two joined lists is the second.
LEMMA RestOfJoin ==
  ASSUME NEW S, NEW a \in Seq(S), NEW b \in Seq(S)
  PROVE  From(a \o b, Len(a)) = b
<1>1. a \o b \in Seq(S) /\ Len(a \o b) = Len(a) + Len(b) /\ Len(a) \in Nat /\ Len(b) \in Nat
      /\ \A i \in 1 .. Len(b) : (a \o b)[Len(a) + i] = b[i]
  BY JoinIs
<1>2. Len(a) \in 0 .. Len(a \o b) /\ Len(a \o b) - Len(a) = Len(b)
  BY <1>1
<1>3. From(a \o b, Len(a)) \in Seq(S) /\ Len(From(a \o b, Len(a))) = Len(b)
      /\ \A i \in 1 .. Len(b) : From(a \o b, Len(a))[i] = (a \o b)[Len(a) + i]
  BY <1>1, <1>2, FromIs
<1> HIDE DEF From
<1>4. \A i \in 1 .. Len(b) : From(a \o b, Len(a))[i] = b[i]
  BY <1>1, <1>3
<1> QED BY <1>3, <1>4

\* Pairs of the second of two joined lists.
LEMMA PairedBehind ==
  ASSUME NEW S, NEW a \in Seq(S), NEW b \in Seq(S), NEW n \in 0 .. Len(b)
  PROVE  Paired(Len(a) + n, a \o b) <=> Paired(n, b)
<1>1. a \o b \in Seq(S) /\ Len(a \o b) = Len(a) + Len(b) /\ Len(a) \in Nat /\ Len(b) \in Nat
  BY JoinIs
<1>2. Len(a) \in 0 .. Len(a \o b) /\ n \in 0 .. Len(a \o b) - Len(a)
  BY <1>1
<1>3. Paired(n, From(a \o b, Len(a))) <=> Paired(Len(a) + n, a \o b)
  BY <1>1, <1>2, PairedRest
<1> QED BY <1>3, RestOfJoin

\* Joining lists that keep their pairs breaks none.
LEMMA PairedJoin ==
  ASSUME NEW S, NEW a \in Seq(S), NEW b \in Seq(S), NEW n \in 0 .. Len(a), Paired(n, a), Paired(0, b)
  PROVE  Paired(n, a \o b)
<1>1. /\ Len(a \o b) = Len(a) + Len(b) /\ Len(a) \in Nat /\ Len(b) \in Nat
      /\ \A i \in 1 .. Len(a) : (a \o b)[i] = a[i]
  BY JoinIs
<1> SUFFICES ASSUME NEW p \in n + 1 .. Len(a \o b), (a \o b)[p].kind = "out"
             PROVE  \E q \in n + 1 .. p - 1 : Chain(a \o b, q, p)
  BY DEF Paired
<1>2. CASE p <= Len(a)
  <2>1. p \in n + 1 .. Len(a) /\ a[p].kind = "out"
    BY <1>1, <1>2
  <2>2. PICK q \in n + 1 .. p - 1 : Chain(a, q, p)
    BY <2>1 DEF Paired
  <2>3. \A k \in q .. p : (a \o b)[k + 0] = a[k]
    <3> SUFFICES ASSUME NEW k \in q .. p PROVE (a \o b)[k + 0] = a[k]
      OBVIOUS
    <3>1. k \in 1 .. Len(a) /\ k + 0 = k
      BY <1>1, <2>1
    <3> QED BY <1>1, <3>1
  <2>4. 0 \in Int /\ p \in Int /\ q \in Int /\ q <= p /\ q + 0 = q /\ p + 0 = p
    OBVIOUS
  <2>5. Chain(a \o b, q + 0, p + 0)
    BY <2>2, <2>3, <2>4, ChainMoves
  <2> QED BY <2>4, <2>5
<1>3. CASE ~(p <= Len(a))
  <2>1. Paired(Len(a), a \o b)
    <3>1. 0 \in 0 .. Len(b) /\ Len(a) + 0 = Len(a)
      BY <1>1
    <3>2. Paired(Len(a) + 0, a \o b)
      BY <3>1, PairedBehind
    <3> QED BY <3>1, <3>2
  <2>2. p \in Len(a) + 1 .. Len(a \o b)
    BY <1>1, <1>3
  <2>3. PICK q \in Len(a) + 1 .. p - 1 : Chain(a \o b, q, p)
    BY <2>1, <2>2 DEF Paired
  <2>4. q \in n + 1 .. p - 1
    BY <1>1
  <2> QED BY <2>3, <2>4
<1> QED BY <1>2, <1>3

\* A result is behind its call, so the front of a list keeps its pairs.
LEMMA PairedFront ==
  ASSUME NEW S, NEW a \in Seq(S), NEW b \in Seq(S), NEW n \in 0 .. Len(a), Paired(n, a \o b)
  PROVE  Paired(n, a)
<1>1. /\ Len(a \o b) = Len(a) + Len(b) /\ Len(a) \in Nat /\ Len(b) \in Nat
      /\ \A i \in 1 .. Len(a) : (a \o b)[i] = a[i]
  BY JoinIs
<1> SUFFICES ASSUME NEW p \in n + 1 .. Len(a), a[p].kind = "out"
             PROVE  \E q \in n + 1 .. p - 1 : Chain(a, q, p)
  BY DEF Paired
<1>2. p \in n + 1 .. Len(a \o b) /\ p \in 1 .. Len(a)
  BY <1>1
<1>3. PICK q \in n + 1 .. p - 1 : Chain(a \o b, q, p)
  BY <1>1, <1>2 DEF Paired
<1>4. \A k \in q .. p : a[k + 0] = (a \o b)[k]
  <2> SUFFICES ASSUME NEW k \in q .. p PROVE a[k + 0] = (a \o b)[k]
    OBVIOUS
  <2>1. k \in 1 .. Len(a) /\ k + 0 = k
    BY <1>1
  <2> QED BY <1>1, <2>1
<1>5. 0 \in Int /\ p \in Int /\ q \in Int /\ q <= p /\ q + 0 = q /\ p + 0 = p
  OBVIOUS
<1>6. Chain(a, q + 0, p + 0)
  BY <1>3, <1>4, <1>5, ChainMoves
<1> QED BY <1>5, <1>6

\* Where all calls of two lists are replied to, so they are in the joined one.
LEMMA RepliedJoin ==
  ASSUME NEW S, NEW a \in Seq(S), NEW b \in Seq(S), Replied(a), Replied(b)
  PROVE  Replied(a \o b)
<1>1. /\ Len(a \o b) = Len(a) + Len(b) /\ Len(a) \in Nat /\ Len(b) \in Nat
      /\ \A i \in 1 .. Len(a) : (a \o b)[i] = a[i]
      /\ \A i \in 1 .. Len(b) : (a \o b)[Len(a) + i] = b[i]
  BY JoinIs
<1> SUFFICES ASSUME NEW p \in 1 .. Len(a \o b), (a \o b)[p].kind = "call"
             PROVE  \E r \in p + 1 .. Len(a \o b) : (a \o b)[r] = It("out", (a \o b)[p].id)
  BY DEF Replied
<1>2. CASE p <= Len(a)
  <2>1. p \in 1 .. Len(a) /\ (a \o b)[p] = a[p]
    BY <1>1, <1>2
  <2>2. PICK r \in p + 1 .. Len(a) : a[r] = It("out", a[p].id)
    BY <2>1 DEF Replied
  <2>3. r \in p + 1 .. Len(a \o b) /\ (a \o b)[r] = a[r]
    BY <1>1, <2>1
  <2> QED BY <2>1, <2>2, <2>3
<1>3. CASE ~(p <= Len(a))
  <2> DEFINE k == p - Len(a)
  <2>1. k \in 1 .. Len(b) /\ Len(a) + k = p
    BY <1>1, <1>3
  <2> HIDE DEF k
  <2>2. b[k] = (a \o b)[p]
    BY <1>1, <2>1
  <2>3. PICK r \in k + 1 .. Len(b) : b[r] = It("out", b[k].id)
    BY <2>1, <2>2 DEF Replied
  <2>4. r \in 1 .. Len(b) /\ Len(a) + r \in p + 1 .. Len(a \o b)
    BY <1>1, <2>1
  <2>5. (a \o b)[Len(a) + r] = b[r]
    BY <1>1, <2>4
  <2> QED BY <2>2, <2>3, <2>4, <2>5
<1> QED BY <1>2, <1>3

\* A reply is behind its call, so the rest of a list has all of its replies.
LEMMA RepliedBehind ==
  ASSUME NEW S, NEW a \in Seq(S), NEW b \in Seq(S), Replied(a \o b)
  PROVE  Replied(b)
<1>1. /\ Len(a \o b) = Len(a) + Len(b) /\ Len(a) \in Nat /\ Len(b) \in Nat
      /\ \A i \in 1 .. Len(b) : (a \o b)[Len(a) + i] = b[i]
  BY JoinIs
<1> SUFFICES ASSUME NEW p \in 1 .. Len(b), b[p].kind = "call"
             PROVE  \E r \in p + 1 .. Len(b) : b[r] = It("out", b[p].id)
  BY DEF Replied
<1>2. Len(a) + p \in 1 .. Len(a \o b) /\ (a \o b)[Len(a) + p] = b[p]
  BY <1>1
<1>3. PICK r \in (Len(a) + p) + 1 .. Len(a \o b) : (a \o b)[r] = It("out", b[p].id)
  BY <1>2 DEF Replied
<1> DEFINE k == r - Len(a)
<1>4. k \in p + 1 .. Len(b) /\ k \in 1 .. Len(b) /\ r = Len(a) + k
  BY <1>1
<1> HIDE DEF k
<1>5. b[k] = (a \o b)[r]
  BY <1>1, <1>4
<1> QED BY <1>3, <1>4, <1>5

\* Joining is associative.
LEMMA JoinAssoc ==
  ASSUME NEW S, NEW a \in Seq(S), NEW b \in Seq(S), NEW c \in Seq(S)
  PROVE  (a \o b) \o c = a \o (b \o c)
  OBVIOUS

ThreeJoined(a, b, c) == (a \o b) \o c = a \o (b \o c)
\* JoinAssoc, as a predicate (the equation itself, among the facts, slows the
\* solvers down).
LEMMA JoinThree ==
  ASSUME NEW S, NEW a \in Seq(S), NEW b \in Seq(S), NEW c \in Seq(S)
  PROVE  ThreeJoined(a, b, c)
  BY JoinAssoc DEF ThreeJoined

\* Two lists of the same items in the same places are one.
LEMMA SameList ==
  ASSUME NEW S, NEW a \in Seq(S), NEW b \in Seq(S), Len(a) = Len(b),
         \A i \in 1 .. Len(a) : a[i] = b[i]
  PROVE  a = b
  OBVIOUS

\* A list is its first n items and the rest.
LEMMA CutApart ==
  ASSUME NEW S, NEW s \in Seq(S), NEW n \in 0 .. Len(s)
  PROVE  Upto(s, n) \in Seq(S) /\ Len(Upto(s, n)) = n /\ Upto(s, n) \o From(s, n) = s
<1>1. Upto(s, n) \in Seq(S) /\ Len(Upto(s, n)) = n /\ \A i \in 1 .. n : Upto(s, n)[i] = s[i]
  BY DEF Upto
<1>2. From(s, n) \in Seq(S) /\ Len(From(s, n)) = Len(s) - n /\ \A i \in 1 .. Len(s) - n : From(s, n)[i] = s[n + i]
  BY FromIs
<1> DEFINE a == Upto(s, n)
           b == From(s, n)
<1>3. a \in Seq(S) /\ b \in Seq(S) /\ Len(a) = n /\ Len(b) = Len(s) - n /\ Len(s) \in Nat /\ n \in Nat
  BY <1>1, <1>2
<1>4. (\A i \in 1 .. n : a[i] = s[i]) /\ \A i \in 1 .. Len(s) - n : b[i] = s[n + i]
  BY <1>1, <1>2
<1> HIDE DEF a, b
<1>5. a \o b \in Seq(S) /\ Len(a \o b) = Len(s) /\ (\A i \in 1 .. n : (a \o b)[i] = a[i])
      /\ \A i \in 1 .. Len(s) - n : (a \o b)[n + i] = b[i]
  BY <1>3
<1>6. ASSUME NEW i \in 1 .. Len(s) PROVE (a \o b)[i] = s[i]
  <2>1. CASE i <= n
    BY <1>3, <1>4, <1>5, <2>1
  <2>2. CASE ~(i <= n)
    <3>1. i - n \in 1 .. Len(s) - n /\ n + (i - n) = i
      BY <1>3, <2>2
    <3> QED BY <1>4, <1>5, <3>1
  <2> QED BY <2>1, <2>2
<1>7. a \o b = s
  BY <1>5, <1>6, SameList
<1> QED BY <1>1, <1>7 DEF a, b

\* The items of a joined list.
LEMMA ItemsJoin ==
  ASSUME NEW S, NEW a \in Seq(S), NEW b \in Seq(S)
  PROVE  Items(a \o b) = Items(a) \cup Items(b)
<1>1. /\ Len(a \o b) = Len(a) + Len(b) /\ Len(a) \in Nat /\ Len(b) \in Nat /\ a \o b \in Seq(S)
      /\ \A i \in 1 .. Len(a) : (a \o b)[i] = a[i]
      /\ \A i \in 1 .. Len(b) : (a \o b)[Len(a) + i] = b[i]
  BY JoinIs
<1>2. DOMAIN (a \o b) = 1 .. Len(a) + Len(b) /\ DOMAIN a = 1 .. Len(a) /\ DOMAIN b = 1 .. Len(b)
  BY <1>1
<1>3. ToSet(a \o b) = ToSet(a) \cup ToSet(b)
  <2>1. ASSUME NEW i \in 1 .. Len(a) + Len(b) PROVE (a \o b)[i] \in ToSet(a) \cup ToSet(b)
    <3>1. CASE i <= Len(a)
      <4>1. i \in DOMAIN a /\ (a \o b)[i] = a[i]
        BY <1>1, <1>2, <3>1
      <4> QED BY <4>1 DEF ToSet
    <3>2. CASE ~(i <= Len(a))
      <4>1. i - Len(a) \in DOMAIN b /\ Len(a) + (i - Len(a)) = i
        BY <1>1, <1>2, <3>2
      <4>2. (a \o b)[i] = b[i - Len(a)]
        BY <1>1, <1>2, <4>1
      <4> QED BY <4>1, <4>2 DEF ToSet
    <3> QED BY <3>1, <3>2
  <2>2. ASSUME NEW i \in DOMAIN a PROVE a[i] \in ToSet(a \o b)
    <3>1. i \in DOMAIN (a \o b) /\ (a \o b)[i] = a[i]
      BY <1>1, <1>2
    <3> QED BY <3>1 DEF ToSet
  <2>3. ASSUME NEW i \in DOMAIN b PROVE b[i] \in ToSet(a \o b)
    <3>1. Len(a) + i \in DOMAIN (a \o b) /\ (a \o b)[Len(a) + i] = b[i]
      BY <1>1, <1>2
    <3> QED BY <3>1 DEF ToSet
  <2> QED BY <1>2, <2>1, <2>2, <2>3 DEF ToSet
<1> QED BY <1>3 DEF Items

\* The items in front of a place in a joined list.
LEMMA UptoJoin ==
  ASSUME NEW S, NEW a \in Seq(S), NEW b \in Seq(S)
  PROVE  /\ \A n \in 0 .. Len(a) : Upto(a \o b, n) = Upto(a, n)
         /\ \A n \in 0 .. Len(b) : Upto(a \o b, Len(a) + n) = a \o Upto(b, n)
<1>1. /\ Len(a \o b) = Len(a) + Len(b) /\ Len(a) \in Nat /\ Len(b) \in Nat /\ a \o b \in Seq(S)
      /\ \A i \in 1 .. Len(a) : (a \o b)[i] = a[i]
      /\ \A i \in 1 .. Len(b) : (a \o b)[Len(a) + i] = b[i]
  BY JoinIs
<1>2. ASSUME NEW n \in 0 .. Len(a) PROVE Upto(a \o b, n) = Upto(a, n)
  <2>1. n \in 0 .. Len(a \o b)
    BY <1>1
  <2>2. Upto(a \o b, n) \in Seq(S) /\ Len(Upto(a \o b, n)) = n /\ \A i \in 1 .. n : Upto(a \o b, n)[i] = (a \o b)[i]
    BY <1>1, <2>1 DEF Upto
  <2>3. Upto(a, n) \in Seq(S) /\ Len(Upto(a, n)) = n /\ \A i \in 1 .. n : Upto(a, n)[i] = a[i]
    BY DEF Upto
  <2> HIDE DEF Upto
  <2>4. \A i \in 1 .. n : (a \o b)[i] = a[i]
    BY <1>1
  <2> QED BY <2>2, <2>3, <2>4
<1>3. ASSUME NEW n \in 0 .. Len(b) PROVE Upto(a \o b, Len(a) + n) = a \o Upto(b, n)
  <2>1. Len(a) + n \in 0 .. Len(a \o b)
    BY <1>1
  <2> DEFINE u == Upto(a \o b, Len(a) + n)
             w == Upto(b, n)
  <2>2. u \in Seq(S) /\ Len(u) = Len(a) + n /\ \A i \in 1 .. Len(a) + n : u[i] = (a \o b)[i]
    BY <1>1, <2>1 DEF Upto
  <2>3. w \in Seq(S) /\ Len(w) = n /\ \A i \in 1 .. n : w[i] = b[i]
    BY DEF Upto
  <2> HIDE DEF u, w
  <2>4. /\ a \o w \in Seq(S) /\ Len(a \o w) = Len(a) + n
        /\ \A i \in 1 .. Len(a) : (a \o w)[i] = a[i]
        /\ \A i \in 1 .. n : (a \o w)[Len(a) + i] = w[i]
    <3>1. w \in Seq(S) /\ Len(w) = n
      BY <2>3
    <3>2. /\ a \o w \in Seq(S) /\ Len(a \o w) = Len(a) + Len(w)
          /\ \A i \in 1 .. Len(a) : (a \o w)[i] = a[i]
          /\ \A i \in 1 .. Len(w) : (a \o w)[Len(a) + i] = w[i]
      BY <3>1
    <3> QED BY <3>1, <3>2
  <2>5. ASSUME NEW i \in 1 .. Len(a) + n PROVE u[i] = (a \o w)[i]
    <3>1. CASE i <= Len(a)
      BY <1>1, <2>2, <2>4, <3>1
    <3>2. CASE ~(i <= Len(a))
      <4>1. i - Len(a) \in 1 .. n /\ Len(a) + (i - Len(a)) = i /\ i - Len(a) \in 1 .. Len(b)
        BY <1>1, <3>2
      <4>2. u[i] = (a \o b)[i] /\ (a \o b)[i] = b[i - Len(a)]
        BY <1>1, <2>2, <4>1
      <4>3. (a \o w)[i] = w[i - Len(a)] /\ w[i - Len(a)] = b[i - Len(a)]
        BY <2>3, <2>4, <4>1
      <4> QED BY <4>2, <4>3
    <3> QED BY <3>1, <3>2
  <2>6. u = a \o w
    BY <2>2, <2>4, <2>5, SameList
  <2> QED BY <2>6 DEF u, w
<1> QED BY <1>2, <1>3

-----------------------------------------------------------------------------
(* Where a list may be cut.                                                 *)

\* The places from m on.
NotBefore(ns, m) == {x \in ns : x >= m}

\* How the set of places from m on shrinks as m grows.
LEMMA NotBeforeIs ==
  ASSUME NEW N \in Nat, NEW ns, \A x \in ns : x \in Nat /\ x < N
  PROVE  /\ NotBefore(ns, 0) = ns /\ NotBefore(ns, N) = {}
         /\ \A m \in Nat : /\ NotBefore(ns, m) \subseteq ns
                           /\ m \in ns => m \in NotBefore(ns, m) /\ NotBefore(ns, m + 1) = NotBefore(ns, m) \ {m}
                           /\ m \notin ns => NotBefore(ns, m + 1) = NotBefore(ns, m)
<1>1. NotBefore(ns, 0) = ns
  BY DEF NotBefore
<1>2. NotBefore(ns, N) = {}
  BY DEF NotBefore
<1>3. ASSUME NEW m \in Nat
      PROVE  /\ NotBefore(ns, m) \subseteq ns
             /\ m \in ns => m \in NotBefore(ns, m) /\ NotBefore(ns, m + 1) = NotBefore(ns, m) \ {m}
             /\ m \notin ns => NotBefore(ns, m + 1) = NotBefore(ns, m)
  BY DEF NotBefore
<1> QED BY <1>1, <1>2, <1>3

\* Among k places or more there is a k-th last one.
LEMMA KthLastIn ==
  ASSUME NEW N \in Nat, NEW ns, \A x \in ns : x \in Nat /\ x < N, NEW k \in Nat \ {0}
  PROVE  KthLast(ns, k) \in ns \cup {0}
<1>0. \A x \in ns : x \in Nat /\ x < N
  OBVIOUS
<1>n. /\ NotBefore(ns, 0) = ns /\ NotBefore(ns, N) = {}
      /\ \A m \in Nat : /\ NotBefore(ns, m) \subseteq ns
                        /\ m \in ns => m \in NotBefore(ns, m) /\ NotBefore(ns, m + 1) = NotBefore(ns, m) \ {m}
                        /\ m \notin ns => NotBefore(ns, m + 1) = NotBefore(ns, m)
  BY <1>0, NotBeforeIs
<1>1. CASE Cardinality(ns) < k
  BY <1>1 DEF KthLast
<1>2. CASE ~(Cardinality(ns) < k)
  <2>0. IsFiniteSet(ns)
    <3>1. IsFiniteSet(0 .. N - 1)
      BY FS_Interval
    <3>2. ns \subseteq 0 .. N - 1
      BY <1>0
    <3> QED BY <3>1, <3>2, FS_Subset
  <2>f. ASSUME NEW m \in Nat PROVE IsFiniteSet(NotBefore(ns, m)) /\ Cardinality(NotBefore(ns, m)) \in Nat
    <3>1. NotBefore(ns, m) \subseteq ns
      BY <1>n, Zenon
    <3>2. IsFiniteSet(NotBefore(ns, m))
      BY <2>0, <3>1, FS_Subset
    <3> QED BY <3>2, FS_CardinalityType
  <2>1. \E x \in ns : Cardinality(NotBefore(ns, x)) = k
    <3>1. SUFFICES ASSUME \A x \in ns : Cardinality(NotBefore(ns, x)) # k PROVE FALSE
      OBVIOUS
    <3> DEFINE X == {m \in Nat : Cardinality(NotBefore(ns, m)) >= k}
    <3>2. 0 \in X
      <4>1. NotBefore(ns, 0) = ns
        BY <1>n
      <4>2. Cardinality(ns) \in Nat
        BY <2>0, FS_CardinalityType
      <4> QED BY <1>2, <4>1, <4>2
    <3>3. ASSUME NEW m \in X PROVE m + 1 \in X
      <4>1. m \in Nat /\ Cardinality(NotBefore(ns, m)) >= k
        BY <3>3
      <4>2. CASE m \in ns
        <5>1. NotBefore(ns, m + 1) = NotBefore(ns, m) \ {m} /\ m \in NotBefore(ns, m)
          BY <1>n, <4>1, <4>2, Zenon
        <5>2. Cardinality(NotBefore(ns, m + 1)) = Cardinality(NotBefore(ns, m)) - 1
          BY <2>f, <4>1, <5>1, FS_RemoveElement
        <5>3. Cardinality(NotBefore(ns, m)) # k
          BY <3>1, <4>2
        <5> QED BY <2>f, <4>1, <5>2, <5>3
      <4>3. CASE m \notin ns
        <5>1. NotBefore(ns, m + 1) = NotBefore(ns, m)
          BY <1>n, <4>1, <4>3, Zenon
        <5> QED BY <4>1, <5>1
      <4> QED BY <4>2, <4>3
    <3>4. X = Nat
      <4> HIDE DEF X
      <4>1. X \in SUBSET Nat
        BY DEF X
      <4> QED BY <3>2, <3>3, <4>1, NatInductive
    <3>5. NotBefore(ns, N) = {}
      BY <1>n
    <3>6. Cardinality(NotBefore(ns, N)) = 0
      BY <3>5, FS_EmptySet
    <3>7. N \in X
      BY <3>4
    <3> QED BY <3>6, <3>7
  <2>2. KthLast(ns, k) = CHOOSE n \in ns : Cardinality({m \in ns : m >= n}) = k
    BY <1>2 DEF KthLast
  <2> QED BY <2>1, <2>2, Zenon DEF NotBefore
<1> QED BY <1>1, <1>2

\* The places where a run or a fold may begin.
Places(s) == UserIndices(s) \cup TurnStarts(s) \cup {0}

\* Every cut the code makes is at the start of a turn, or at the beginning of
\* the list (context_compaction.turn_starts, _keepk_cut, cut_keep_recent_turns).
LEMMA PlacesAre ==
  ASSUME NEW S, NEW s \in Seq(S)
  PROVE  /\ Places(s) \subseteq 0 .. Len(s)
         /\ Boundaries(s) \subseteq Places(s) /\ KeepkCut(s) \in Places(s)
         /\ \A f : FoldCuts(s, f) \subseteq Places(s)
         /\ \A k \in Nat \ {0} : CutKeepRecentTurns(s, k) \in Places(s)
<1>0. Len(s) \in Nat
  OBVIOUS
<1>1. \A x \in UserIndices(s) \cup TurnStarts(s) : x \in Nat /\ x < Len(s)
  BY DEF UserIndices, TurnStarts
<1> HIDE DEF UserIndices, TurnStarts
<1>2. Places(s) \subseteq 0 .. Len(s)
  BY <1>0, <1>1 DEF Places
<1>3. \A k \in Nat \ {0} : CutKeepRecentTurns(s, k) \in Places(s)
  BY <1>0, <1>1, KthLastIn DEF CutKeepRecentTurns, Places
<1>4. \A k \in Nat \ {0} : KthLast(UserIndices(s), k) \in Places(s)
  BY <1>0, <1>1, KthLastIn DEF Places
<1>5. RecentTurns \in Nat \ {0} /\ RecentToolTurns \in Nat \ {0}
  BY ConvConstants
<1>6. KeepkCut(s) \in Places(s)
  BY <1>3, <1>4, <1>5, Zenon DEF KeepkCut
<1>7. Boundaries(s) \subseteq Places(s)
  BY Zenon DEF Boundaries, Places
<1>8. \A f : FoldCuts(s, f) \subseteq Places(s)
  BY <1>6, <1>7, Zenon DEF FoldCuts
<1> QED BY <1>2, <1>3, <1>6, <1>7, <1>8

\* No place is between a call and its result.
LEMMA PlacesPaired ==
  ASSUME NEW S, NEW s \in Seq(S), NEW n \in Places(s), Paired(0, s)
  PROVE  Paired(n, s)
<1>0. n \in 0 .. Len(s)
  BY PlacesAre
<1> SUFFICES ASSUME NEW p \in n + 1 .. Len(s), s[p].kind = "out"
             PROVE  \E q \in n + 1 .. p - 1 : Chain(s, q, p)
  BY DEF Paired
<1>1. PICK q \in 1 .. p - 1 : Chain(s, q, p)
  <2>1. p \in 0 + 1 .. Len(s)
    BY <1>0
  <2>2. PICK q \in 0 + 1 .. p - 1 : Chain(s, q, p)
    BY <2>1 DEF Paired
  <2> QED BY <2>2
<1>2. q > n
  <2>1. SUFFICES ASSUME q <= n PROVE FALSE
    BY <1>0
  <2>2. n + 1 \in q + 1 .. p /\ n # 0 /\ n \in Nat /\ (n + 1) - 1 = n
    BY <1>0, <2>1
  <2>3. s[n + 1].kind \in {"call", "out"} /\ (s[n].kind = "out" => s[n + 1].kind = "out")
    BY <1>1, <2>2 DEF Chain
  <2>4. s[n].kind \in {"call", "out"}
    <3>1. CASE n = q
      <4>1. s[q] = It("call", s[p].id)
        BY <1>1 DEF Chain
      <4> QED BY <3>1, <4>1 DEF It
    <3>2. CASE n # q
      <4>1. n \in q + 1 .. p
        BY <1>0, <2>1, <3>2
      <4> QED BY <1>1, <4>1 DEF Chain
    <3> QED BY <3>1, <3>2
  <2>5. n \notin UserIndices(s)
    BY <2>3 DEF UserIndices
  <2>6. n \notin TurnStarts(s)
    BY <2>2, <2>3, <2>4 DEF TurnStarts, IsTurnItem
  <2> QED BY <2>2, <2>5, <2>6 DEF Places
<1> QED BY <1>0, <1>1, <1>2

\* A user's message in front changes nothing.
LEMMA HeadPaired ==
  ASSUME NEW S, NEW s \in Seq(S), NEW u \in S, u.kind = "user", Paired(0, s)
  PROVE  <<u>> \o s \in Seq(S) /\ Paired(0, <<u>> \o s)
<1>1. <<u>> \in Seq(S) /\ Len(<<u>>) = 1 /\ 0 \in 0 .. Len(<<u>>) /\ <<u>>[1] = u
  OBVIOUS
<1>2. Paired(0, <<u>>)
  BY <1>1 DEF Paired
<1> DEFINE a == <<u>>
<1> HIDE DEF a
<1>3. a \in Seq(S) /\ 0 \in 0 .. Len(a) /\ Paired(0, a)
  BY <1>1, <1>2 DEF a
<1>4. a \o s \in Seq(S) /\ Paired(0, a \o s)
  BY <1>3, PairedJoin
<1> QED BY <1>4 DEF a

\* What is left out to make a list fit leaves no result without its call.
LEMMA TruncateSound ==
  ASSUME NEW S, NEW s \in Seq(S)
  PROVE  TruncateTurns(s) \in Seq(S) /\ (Paired(0, s) => Paired(0, TruncateTurns(s)))
<1> DEFINE cut == CutKeepRecentTurns(s, HardKeep)
           head == IF s # <<>> /\ s[1].kind = "user" THEN <<s[1]>> ELSE <<>>
<1>1. cut \in Places(s) /\ cut \in 0 .. Len(s)
  <2>1. HardKeep \in Nat \ {0}
    BY ConvConstants
  <2> QED BY <2>1, PlacesAre
<1>2. TruncateTurns(s) = IF cut = 0 THEN s ELSE head \o From(s, cut)
  BY Zenon DEF TruncateTurns
<1>3. From(s, cut) \in Seq(S) /\ (Paired(0, s) => Paired(0, From(s, cut)))
  <2>1. From(s, cut) \in Seq(S)
    BY <1>1, FromIs
  <2>2. ASSUME Paired(0, s) PROVE Paired(0, From(s, cut))
    <3>1. Paired(cut, s)
      BY <1>1, <2>2, PlacesPaired
    <3>2. 0 \in 0 .. Len(s) - cut /\ cut + 0 = cut
      BY <1>1
    <3>3. Paired(0, From(s, cut)) <=> Paired(cut + 0, s)
      BY <1>1, <3>2, PairedRest
    <3> QED BY <3>1, <3>2, <3>3
  <2> QED BY <2>1, <2>2
<1> HIDE DEF cut
<1> DEFINE r == From(s, cut)
<1>4. r \in Seq(S) /\ (Paired(0, s) => Paired(0, r))
  BY <1>3
<1> HIDE DEF r
<1>5. CASE s # <<>> /\ s[1].kind = "user"
  <2>1. head = <<s[1]>> /\ s[1] \in S
    BY <1>5
  <2>2. <<s[1]>> \o r \in Seq(S)
    BY <1>4, <2>1
  <2>3. Paired(0, s) => Paired(0, <<s[1]>> \o r)
    BY <1>4, <1>5, <2>1, HeadPaired
  <2> HIDE DEF head
  <2> QED BY <1>2, <2>1, <2>2, <2>3 DEF r
<1>6. CASE ~(s # <<>> /\ s[1].kind = "user")
  <2>1. head \o r = r
    BY <1>4, <1>6
  <2> HIDE DEF head
  <2> QED BY <1>2, <1>4, <2>1 DEF r
<1> QED BY <1>5, <1>6

\* The user's message that the filter puts back in front keeps the pairs
\* (compaction_filter.compaction_filter).
LEMMA WithHeadSound ==
  ASSUME NEW S, NEW s \in Seq(S), NEW full \in Seq(S)
  PROVE  WithHead(full, s) \in Seq(S) /\ (Paired(0, s) => Paired(0, WithHead(full, s)))
<1>1. CASE full # <<>> /\ full[1].kind = "user" /\ (s = <<>> \/ s[1] # full[1])
  <2>1. full[1] \in S /\ WithHead(full, s) = <<full[1]>> \o s
    BY <1>1 DEF WithHead
  <2>2. <<full[1]>> \o s \in Seq(S)
    BY <2>1
  <2>3. Paired(0, s) => Paired(0, <<full[1]>> \o s)
    BY <1>1, <2>1, HeadPaired
  <2> QED BY <2>1, <2>2, <2>3
<1>2. CASE ~(full # <<>> /\ full[1].kind = "user" /\ (s = <<>> \/ s[1] # full[1]))
  BY <1>2 DEF WithHead
<1> QED BY <1>1, <1>2

\* What is quoted for a synthesis call is a list of items as well.
LEMMA FlattenType ==
  ASSUME NEW n \in Nat, NEW s \in Seq(MadeItems(n))
  PROVE  FlattenToolItems(s) \in Seq(MadeItems(n))
<1> DEFINE S == MadeItems(n)
           N == Len(s)
           q == [i \in DOMAIN s |-> IF s[i].kind \in {"user", "say"} THEN <<s[i]>> ELSE <<>>]
           e == IF \E m \in ToSet(s) : m.kind = "call" THEN <<It("user", 0)>> ELSE <<>>
<1>1. N \in Nat /\ DOMAIN s = 1 .. N /\ \A i \in 1 .. N : s[i] \in S
  OBVIOUS
<1>2. It("user", 0) \in S
  BY DEF MadeItems, Kinds, It
<1> HIDE DEF S, N
<1>3. \A i \in 1 .. N : q[i] \in Seq(S)
  BY <1>1
<1>4. DOMAIN q = 1 .. N
  BY <1>1
<1>5. q \in Seq(Seq(S))
  BY <1>1, <1>3, <1>4
<1>6. e \in Seq(S)
  BY <1>2
<1>7. FlattenToolItems(s) = FlattenSeq(q) \o e
  BY Zenon DEF FlattenToolItems
<1> HIDE DEF q, e
<1>8. PICK f : FlatSteps(f, q, N, S)
  BY <1>1, <1>4, <1>5, FlatFold
<1>9. f[N] = FlattenSeq(q) /\ f[N] \in Seq(S)
  BY <1>1, <1>8 DEF FlatSteps
<1>10. FlattenSeq(q) \o e \in Seq(S)
  BY <1>6, <1>9
<1> QED BY <1>7, <1>10 DEF S

-----------------------------------------------------------------------------
(* What the filter makes of a list.                                         *)

\* Any item, and a run over the first n items that were made.
AllItems == [kind : Kinds, id : Nat]
RunRecs(n) ==
    [pc : {"ready", "asked", "over", "limit", "raised"}, mode : {"on", "off", "failed", "hard"},
     prefix : Seq(MadeItems(n)), input : Seq(MadeItems(n)), sent : Seq(MadeItems(n)),
     prefixLen : Nat, fold : Nat, sum : SUBSET AllItems, l2 : BOOLEAN, fails : Nat, turns : Nat,
     cap : Nat, calls : Nat, rescues : Nat, pin : BOOLEAN, said : BOOLEAN, named : BOOLEAN,
     cut : SUBSET AllItems]

\* What the filter leaves alone, and what it may fold.
FilterKeeps(r, x) ==
    /\ x.pc = r.pc /\ x.mode = r.mode /\ x.prefix = r.prefix /\ x.input = r.input
    /\ x.prefixLen = r.prefixLen /\ x.turns = r.turns /\ x.cap = r.cap /\ x.calls = r.calls
    /\ x.rescues = r.rescues /\ x.pin = r.pin /\ x.said = r.said /\ x.named = r.named /\ x.cut = r.cut
FilterFolds(r, x, full) ==
    /\ r.mode # "on" \/ x.fold = r.fold => x.fold = r.fold /\ x.sum = r.sum /\ x.l2 = r.l2
    /\ r.fold <= Len(full) =>
         /\ x.fold <= Len(full) /\ r.sum \subseteq x.sum
         /\ Items(Upto(full, x.fold)) \subseteq Items(Upto(full, r.fold)) \cup x.sum
         /\ Paired(0, full) /\ Paired(r.fold, full) => Paired(0, x.sent) /\ Paired(x.fold, full)

\* Items of a list, and of its front, are items.
LEMMA MadeAreItems ==
  ASSUME NEW n \in Nat, NEW s \in Seq(MadeItems(n)), NEW k \in 0 .. Len(s)
  PROVE  Items(s) \subseteq AllItems /\ Items(Upto(s, k)) \subseteq AllItems
<1>1. MadeItems(n) \subseteq AllItems
  BY DEF MadeItems, AllItems
<1>2. ToSet(s) \subseteq MadeItems(n)
  BY DEF ToSet
<1>3. Upto(s, k) \in Seq(MadeItems(n))
  BY CutApart
<1>4. ToSet(Upto(s, k)) \subseteq MadeItems(n)
  BY <1>3 DEF ToSet
<1> QED BY <1>1, <1>2, <1>4 DEF Items

\* A list, or what truncate_turns leaves of it.
KeptOf(full, s) == {s, WithHead(full, TruncateTurns(s))}

\* Sending a list as it is, or cut once more, keeps its pairs.
LEMMA KeptSound ==
  ASSUME NEW S, NEW s \in Seq(S), NEW full \in Seq(S), NEW k \in KeptOf(full, s)
  PROVE  k \in Seq(S) /\ (Paired(0, s) => Paired(0, k))
<1>1. TruncateTurns(s) \in Seq(S) /\ (Paired(0, s) => Paired(0, TruncateTurns(s)))
  BY TruncateSound
<1>2. WithHead(full, TruncateTurns(s)) \in Seq(S)
      /\ (Paired(0, TruncateTurns(s)) => Paired(0, WithHead(full, TruncateTurns(s))))
  BY <1>1, WithHeadSound
<1> QED BY <1>1, <1>2 DEF KeptOf

\* The items in front of a place in the second of two joined lists.
LEMMA FoldOfJoin ==
  ASSUME NEW S, NEW a \in Seq(S), NEW b \in Seq(S), NEW cut \in 0 .. Len(b)
  PROVE  Items(Upto(a \o b, Len(a) + cut)) = Items(a) \cup Items(Upto(b, cut))
<1>1. Upto(a \o b, Len(a) + cut) = a \o Upto(b, cut)
  BY UptoJoin
<1>2. Upto(b, cut) \in Seq(S)
  BY CutApart
<1>3. Items(a \o Upto(b, cut)) = Items(a) \cup Items(Upto(b, cut))
  BY <1>2, ItemsJoin
<1> QED BY <1>1, <1>3

\* A list without its first f items, and what a fold of that one adds up to.
LEMMA FoldOfRest ==
  ASSUME NEW S, NEW full \in Seq(S), NEW f \in 0 .. Len(full), NEW cut \in 0 .. Len(full) - f
  PROVE  Items(Upto(full, f + cut)) = Items(Upto(full, f)) \cup Items(Upto(From(full, f), cut))
<1> DEFINE a == Upto(full, f)
           b == From(full, f)
<1>1. a \in Seq(S) /\ Len(a) = f /\ a \o b = full
  BY CutApart
<1>2. b \in Seq(S) /\ Len(b) = Len(full) - f
  BY FromIs
<1> HIDE DEF a, b
<1>c. a \in Seq(S) /\ b \in Seq(S) /\ cut \in 0 .. Len(b)
  BY <1>1, <1>2
<1>3. Items(Upto(a \o b, Len(a) + cut)) = Items(a) \cup Items(Upto(b, cut))
  BY <1>c, FoldOfJoin
<1> QED BY <1>1, <1>3 DEF a, b

\* The filter's three outcomes.
FilterRest(r, full) == IF 0 < r.fold /\ r.fold <= Len(full) THEN From(full, r.fold) ELSE full
FilterCut(r, full) == CutKeepRecentTurns(FilterRest(r, full), RecentToolTurns)

FilterForms(r, full, x) ==
    \/ x = [r EXCEPT !.sent = full] /\ r.mode # "on"
    \/ \E s \in KeptOf(full, FilterRest(r, full)) :
         x = [r EXCEPT !.sent = s] \/ x = [r EXCEPT !.sent = s, !.fails = @ + 1]
    \/ /\ r.mode = "on" /\ FilterCut(r, full) > 0
       /\ \E s \in KeptOf(full, From(FilterRest(r, full), FilterCut(r, full))) :
            x = [r EXCEPT !.sent = s, !.sum = @ \cup Items(Upto(FilterRest(r, full), FilterCut(r, full))),
                          !.fold = @ + FilterCut(r, full), !.l2 = TRUE, !.fails = 0]

\* The three things the filter does: nothing, leave out what was folded before,
\* or fold further (compaction_filter.compaction_filter).
LEMMA FilteredForms ==
  ASSUME NEW r, NEW full, NEW x \in Filtered(r, full)
  PROVE  FilterForms(r, full, x)
<1> DEFINE items == FilterRest(r, full)
           cut == FilterCut(r, full)
           plain == {[r EXCEPT !.sent = s] : s \in KeptOf(full, items)}
           folded == {[r EXCEPT !.sent = s, !.sum = @ \cup Items(Upto(items, cut)),
                                !.fold = @ + cut, !.l2 = TRUE, !.fails = 0] : s \in KeptOf(full, From(items, cut))}
           failed == {[r EXCEPT !.sent = s, !.fails = @ + 1] : s \in KeptOf(full, items)}
           other == {[r EXCEPT !.sent = IF r.mode = "hard" THEN s ELSE full] : s \in KeptOf(full, items)}
<1>1. Filtered(r, full) = IF r.mode # "on" THEN other
                          ELSE plain \cup (IF cut > 0 /\ r.fails < 2 THEN folded \cup failed ELSE {})
  BY Zenon DEF Filtered, FilterRest, FilterCut, KeptOf
<1>2. ASSUME x \in other
      PROVE  x = [r EXCEPT !.sent = full] \/ \E s \in KeptOf(full, items) : x = [r EXCEPT !.sent = s]
  BY <1>2, Zenon
<1>3. ASSUME x \in plain PROVE \E s \in KeptOf(full, items) : x = [r EXCEPT !.sent = s]
  BY <1>3, Zenon
<1>4. ASSUME x \in failed PROVE \E s \in KeptOf(full, items) : x = [r EXCEPT !.sent = s, !.fails = @ + 1]
  BY <1>4, Zenon
<1>5. ASSUME x \in folded
      PROVE  \E s \in KeptOf(full, From(items, cut)) :
               x = [r EXCEPT !.sent = s, !.sum = @ \cup Items(Upto(items, cut)),
                             !.fold = @ + cut, !.l2 = TRUE, !.fails = 0]
  BY <1>5, Zenon
<1>6. ASSUME r.mode # "on"
      PROVE  \/ x = [r EXCEPT !.sent = full]
             \/ \E s \in KeptOf(full, items) : x = [r EXCEPT !.sent = s]
  <2>1. Filtered(r, full) = other
    BY <1>1, <1>6, Zenon
  <2> QED BY <1>2, <2>1, Zenon
<1>7. ASSUME r.mode = "on"
      PROVE  x \in plain \/ (cut > 0 /\ x \in folded) \/ x \in failed
  <2> HIDE DEF plain, folded, failed, cut
  <2> QED BY <1>1, <1>7
<1> HIDE DEF items, cut, plain, folded, failed, other
<1>8. CASE r.mode # "on"
  BY <1>6, <1>8, Zenon DEF items, FilterForms
<1>9. CASE r.mode = "on"
  BY <1>3, <1>4, <1>5, <1>7, <1>9, Zenon DEF items, cut, FilterForms
<1> QED BY <1>8, <1>9

\* The filter keeps the run and sends no result without its call, and whatever
\* it folds goes to the summary (compaction_filter.compaction_filter).
LEMMA FilteredSound ==
  ASSUME NEW n \in Nat, NEW r \in RunRecs(n), NEW full \in Seq(MadeItems(n)), NEW x \in Filtered(r, full)
  PROVE  x \in RunRecs(n) /\ FilterKeeps(r, x) /\ FilterFolds(r, x, full)
<1> DEFINE S == MadeItems(n)
           items == FilterRest(r, full)
           cut == FilterCut(r, full)
<1>1. r.fold \in Nat /\ Len(full) \in Nat /\ r.fails \in Nat /\ full \in Seq(S) /\ r.sum \subseteq AllItems
  BY DEF RunRecs
<1>2. items \in Seq(S)
  BY <1>1, FromIs DEF FilterRest
<1>3. r.fold <= Len(full) =>
        /\ items = From(full, r.fold) /\ Len(items) = Len(full) - r.fold
        /\ Paired(0, full) /\ Paired(r.fold, full) => Paired(0, items)
  <2>1. SUFFICES ASSUME r.fold <= Len(full)
                 PROVE  /\ items = From(full, r.fold) /\ Len(items) = Len(full) - r.fold
                        /\ Paired(0, full) /\ Paired(r.fold, full) => Paired(0, items)
    BY Zenon
  <2>2. r.fold \in 0 .. Len(full) /\ 0 \in 0 .. Len(full) - r.fold /\ r.fold + 0 = r.fold
    BY <1>1, <2>1
  <2>3. From(full, 0) = full
    BY <1>1 DEF From
  <2>4. items = From(full, r.fold)
    BY <1>1, <2>1, <2>3 DEF FilterRest
  <2>5. Len(From(full, r.fold)) = Len(full) - r.fold
    BY <1>1, <2>2, FromIs
  <2>6. Paired(0, From(full, r.fold)) <=> Paired(r.fold + 0, full)
    BY <1>1, <2>2, PairedRest
  <2> QED BY <2>2, <2>4, <2>5, <2>6
<1>4. cut \in Places(items) /\ cut \in 0 .. Len(items)
  <2>1. RecentToolTurns \in Nat \ {0}
    BY ConvConstants
  <2> QED BY <1>2, <2>1, PlacesAre DEF FilterCut
<1>5. \/ x = [r EXCEPT !.sent = full] /\ r.mode # "on"
      \/ \E s \in KeptOf(full, items) :
           x = [r EXCEPT !.sent = s] \/ x = [r EXCEPT !.sent = s, !.fails = @ + 1]
      \/ /\ r.mode = "on" /\ cut > 0
         /\ \E s \in KeptOf(full, From(items, cut)) :
              x = [r EXCEPT !.sent = s, !.sum = @ \cup Items(Upto(items, cut)),
                            !.fold = @ + cut, !.l2 = TRUE, !.fails = 0]
  <2>1. FilterForms(r, full, x)
    BY FilteredForms
  <2> QED BY <2>1, Zenon DEF FilterForms
<1> HIDE DEF items, cut
<1>6. ASSUME NEW s \in Seq(S), NEW f \in Nat,
             x = [r EXCEPT !.sent = s] \/ x = [r EXCEPT !.sent = s, !.fails = f],
             r.fold <= Len(full) /\ Paired(0, full) /\ Paired(r.fold, full) => Paired(0, s)
      PROVE  x \in RunRecs(n) /\ FilterKeeps(r, x) /\ FilterFolds(r, x, full)
  <2> HIDE DEF S
  <2>0. x \in RunRecs(n) /\ FilterKeeps(r, x) /\ x.sent = s /\ x.fold = r.fold /\ x.sum = r.sum /\ x.l2 = r.l2
    <3>1. CASE x = [r EXCEPT !.sent = s]
      <4>1. x \in RunRecs(n)
        BY <3>1 DEF RunRecs, S
      <4> QED BY <3>1, <4>1 DEF RunRecs, FilterKeeps
    <3>2. CASE x = [r EXCEPT !.sent = s, !.fails = f]
      <4>1. x \in RunRecs(n)
        BY <3>2 DEF RunRecs, S
      <4>2. x.sent = s /\ x.fold = r.fold /\ x.sum = r.sum /\ x.l2 = r.l2
        BY <3>2 DEF RunRecs
      <4>3. x.pc = r.pc /\ x.mode = r.mode /\ x.prefix = r.prefix /\ x.input = r.input /\ x.prefixLen = r.prefixLen
        BY <3>2 DEF RunRecs
      <4>4. x.turns = r.turns /\ x.cap = r.cap /\ x.calls = r.calls /\ x.rescues = r.rescues
        BY <3>2 DEF RunRecs
      <4>5. x.pin = r.pin /\ x.said = r.said /\ x.named = r.named /\ x.cut = r.cut
        BY <3>2 DEF RunRecs
      <4> QED BY <4>1, <4>2, <4>3, <4>4, <4>5, Zenon DEF FilterKeeps
    <3>3. x = [r EXCEPT !.sent = s] \/ x = [r EXCEPT !.sent = s, !.fails = f]
      BY <1>6, Zenon
    <3> QED BY <3>1, <3>2, <3>3, Zenon
  <2>1. r.fold <= Len(full) /\ Paired(0, full) /\ Paired(r.fold, full) => Paired(0, s)
    BY <1>6
  <2>2. x.sent = s /\ x.fold = r.fold /\ x.sum = r.sum /\ x.l2 = r.l2
    BY <2>0
  <2>3. FilterFolds(r, x, full)
    BY <2>1, <2>2, Zenon DEF FilterFolds
  <2> QED BY <2>0, <2>3
<1>7. CASE x = [r EXCEPT !.sent = full] /\ r.mode # "on"
  <2>1. 0 \in Nat
    OBVIOUS
  <2> QED BY <1>1, <1>6, <1>7, <2>1
<1>8. CASE \E s \in KeptOf(full, items) :
             x = [r EXCEPT !.sent = s] \/ x = [r EXCEPT !.sent = s, !.fails = @ + 1]
  <2>1. PICK s \in KeptOf(full, items) :
             x = [r EXCEPT !.sent = s] \/ x = [r EXCEPT !.sent = s, !.fails = @ + 1]
    BY <1>8
  <2>2. s \in Seq(S) /\ (Paired(0, items) => Paired(0, s))
    BY <1>1, <1>2, KeptSound
  <2>3. x = [r EXCEPT !.sent = s] \/ x = [r EXCEPT !.sent = s, !.fails = r.fails + 1]
    BY <2>1, Zenon
  <2>4. r.fails + 1 \in Nat
    BY <1>1
  <2> QED BY <1>3, <1>6, <2>2, <2>3, <2>4
<1>9. CASE /\ r.mode = "on" /\ cut > 0
           /\ \E s \in KeptOf(full, From(items, cut)) :
                x = [r EXCEPT !.sent = s, !.sum = @ \cup Items(Upto(items, cut)),
                              !.fold = @ + cut, !.l2 = TRUE, !.fails = 0]
  <2>1. PICK s \in KeptOf(full, From(items, cut)) :
                x = [r EXCEPT !.sent = s, !.sum = @ \cup Items(Upto(items, cut)),
                              !.fold = @ + cut, !.l2 = TRUE, !.fails = 0]
    BY <1>9
  <2>2. From(items, cut) \in Seq(S)
    BY <1>2, <1>4, FromIs
  <2>3. s \in Seq(S) /\ (Paired(0, From(items, cut)) => Paired(0, s))
    BY <1>1, <2>2, KeptSound
  <2>4. Items(Upto(items, cut)) \subseteq AllItems
    BY <1>2, <1>4, MadeAreItems
  <2> DEFINE gone == Items(Upto(items, cut))
  <2> HIDE DEF gone
  <2>5. x = [r EXCEPT !.sent = s, !.sum = r.sum \cup gone, !.fold = r.fold + cut, !.l2 = TRUE, !.fails = 0]
    BY <2>1, Zenon DEF gone
  <2>6. r.sum \cup gone \in SUBSET AllItems /\ r.fold + cut \in Nat /\ cut \in Nat
    BY <1>1, <1>4, <2>4 DEF gone
  <2>7. x \in RunRecs(n) /\ FilterKeeps(r, x) /\ x.sent = s /\ x.fold = r.fold + cut /\ x.sum = r.sum \cup gone
    <3> HIDE DEF S
    <3> QED BY <2>3, <2>5, <2>6 DEF RunRecs, FilterKeeps, S
  <2>8. r.mode = "on" /\ x.fold # r.fold
    BY <1>1, <1>9, <2>6, <2>7
  <2>9. ASSUME r.fold <= Len(full)
        PROVE  /\ x.fold <= Len(full) /\ Items(Upto(full, x.fold)) \subseteq Items(Upto(full, r.fold)) \cup x.sum
               /\ Paired(0, full) /\ Paired(r.fold, full) => Paired(0, x.sent) /\ Paired(x.fold, full)
    <3>1. r.fold \in 0 .. Len(full) /\ cut \in 0 .. Len(full) - r.fold /\ items = From(full, r.fold)
      BY <1>1, <1>3, <1>4, <2>9
    <3>2. x.fold <= Len(full)
      BY <1>1, <2>6, <2>7, <3>1
    <3>3. Items(Upto(full, r.fold + cut)) = Items(Upto(full, r.fold)) \cup Items(Upto(From(full, r.fold), cut))
      <4> DEFINE k == r.fold
                 c == cut
      <4>1. full \in Seq(S) /\ k \in 0 .. Len(full) /\ c \in 0 .. Len(full) - k
        BY <1>1, <3>1
      <4> HIDE DEF S, k, c
      <4>2. Items(Upto(full, k + c)) = Items(Upto(full, k)) \cup Items(Upto(From(full, k), c))
        BY <4>1, FoldOfRest
      <4> QED BY <4>2 DEF k, c
    <3>4. Items(Upto(full, x.fold)) \subseteq Items(Upto(full, r.fold)) \cup x.sum
      BY <2>7, <3>1, <3>3 DEF gone
    <3>5. ASSUME Paired(0, full), Paired(r.fold, full) PROVE Paired(0, x.sent) /\ Paired(x.fold, full)
      <4>1. Paired(0, items)
        BY <1>3, <2>9, <3>5
      <4>2. Paired(cut, items)
        BY <1>2, <1>4, <4>1, PlacesPaired
      <4>3. Paired(cut, From(full, r.fold)) <=> Paired(r.fold + cut, full)
        BY <1>1, <3>1, PairedRest
      <4>4. 0 \in 0 .. Len(items) - cut /\ cut + 0 = cut
        BY <1>2, <1>4
      <4>5. Paired(0, From(items, cut)) <=> Paired(cut + 0, items)
        BY <1>2, <1>4, <4>4, PairedRest
      <4> QED BY <2>3, <2>7, <3>1, <4>2, <4>3, <4>4, <4>5
    <3> QED BY <3>2, <3>4, <3>5
  <2>10. r.sum \subseteq x.sum
    BY <2>7
  <2> QED BY <2>7, <2>8, <2>9, <2>10 DEF FilterFolds
<1> QED BY <1>5, <1>7, <1>8, <1>9

-----------------------------------------------------------------------------
(* The invariant.                                                           *)

\* A list in which the first cur items may be left out.
Marked(w, cur, cov, b, sh) ==
    /\ ~b => cur <= Len(w) /\ Items(Upto(w, cur)) \subseteq cov
    /\ ~b /\ ~sh => Paired(0, w) /\ Paired(cur, w)

\* Items added at the end leave the mark sound.
LEMMA MarkedMore ==
  ASSUME NEW S, NEW w \in Seq(S), NEW e \in Seq(S), NEW cur \in Nat, NEW cov, NEW b, NEW sh,
         Marked(w, cur, cov, b, sh), Paired(0, e)
  PROVE  Marked(w \o e, cur, cov, b, sh)
<1>1. Len(w \o e) = Len(w) + Len(e) /\ Len(w) \in Nat /\ Len(e) \in Nat
  BY JoinIs
<1>2. ASSUME ~b PROVE cur <= Len(w \o e) /\ Items(Upto(w \o e, cur)) \subseteq cov
  <2>1. cur <= Len(w) /\ Items(Upto(w, cur)) \subseteq cov
    BY <1>2 DEF Marked
  <2>2. cur \in 0 .. Len(w)
    BY <1>1, <2>1
  <2>3. Upto(w \o e, cur) = Upto(w, cur)
    BY <2>2, UptoJoin
  <2> QED BY <1>1, <2>1, <2>3
<1>3. ASSUME ~b, ~sh PROVE Paired(0, w \o e) /\ Paired(cur, w \o e)
  <2>1. Paired(0, w) /\ Paired(cur, w)
    BY <1>3 DEF Marked
  <2>2. cur \in 0 .. Len(w) /\ 0 \in 0 .. Len(w)
    BY <1>1, <1>3 DEF Marked
  <2> QED BY <2>1, <2>2, PairedJoin
<1> QED BY <1>2, <1>3 DEF Marked

\* Leaving out what is behind the mark leaves it sound.
LEMMA MarkedFront ==
  ASSUME NEW S, NEW w \in Seq(S), NEW e \in Seq(S), NEW cur \in Nat, NEW cov, NEW b, NEW sh,
         Marked(w \o e, cur, cov, b, sh), ~b => cur <= Len(w)
  PROVE  Marked(w, cur, cov, b, sh)
<1>1. Len(w) \in Nat
  OBVIOUS
<1>2. ASSUME ~b PROVE cur <= Len(w) /\ Items(Upto(w, cur)) \subseteq cov
  <2>1. Items(Upto(w \o e, cur)) \subseteq cov
    BY <1>2 DEF Marked
  <2>2. cur \in 0 .. Len(w)
    BY <1>1, <1>2
  <2>3. Upto(w \o e, cur) = Upto(w, cur)
    BY <2>2, UptoJoin
  <2> QED BY <2>1, <2>2, <2>3
<1>3. ASSUME ~b, ~sh PROVE Paired(0, w) /\ Paired(cur, w)
  <2>1. Paired(0, w \o e) /\ Paired(cur, w \o e)
    BY <1>3 DEF Marked
  <2>2. cur \in 0 .. Len(w) /\ 0 \in 0 .. Len(w)
    BY <1>1, <1>3
  <2> QED BY <2>1, <2>2, PairedFront
<1> QED BY <1>2, <1>3 DEF Marked

\* Placeholders put in behind u, none of them in front of the mark.
LEMMA MarkedSpread ==
  ASSUME NEW S, NEW u \in Seq(S), NEW s \in Seq(S), NEW t \in Seq(S), NEW g, Spread(g, s, t),
         NEW cur \in Nat, NEW cov, NEW b, NEW sh, NEW sh2, Marked(u \o s, cur, cov, b, sh),
         ~sh2 => ~sh /\ ~Shifts(cur - Len(u), s, t),
         ~b /\ ~sh => Paired(0, u) /\ Paired(0, s)
  PROVE  Marked(u \o t, cur, cov, b, sh2)
<1>1. /\ Len(u \o s) = Len(u) + Len(s) /\ Len(u \o t) = Len(u) + Len(t)
      /\ Len(u) \in Nat /\ Len(s) \in Nat /\ Len(t) \in Nat /\ 0 \in 0 .. Len(s) /\ 0 \in 0 .. Len(u)
  BY JoinIs
<1>2. ASSUME ~b PROVE cur <= Len(u \o t) /\ Items(Upto(u \o t, cur)) \subseteq cov
  <2>1. cur <= Len(u \o s) /\ Items(Upto(u \o s, cur)) \subseteq cov
    BY <1>2 DEF Marked
  <2>2. CASE cur <= Len(u)
    <3>1. cur \in 0 .. Len(u)
      BY <1>1, <2>2
    <3>2. Upto(u \o s, cur) = Upto(u, cur)
      BY <3>1, UptoJoin
    <3>3. Upto(u \o t, cur) = Upto(u, cur)
      BY <3>1, UptoJoin
    <3> QED BY <1>1, <2>1, <2>2, <3>2, <3>3
  <2>3. CASE ~(cur <= Len(u))
    <3> DEFINE n == cur - Len(u)
    <3>1. n \in 0 .. Len(s) /\ Len(u) + n = cur
      BY <1>1, <2>1, <2>3
    <3> HIDE DEF n
    <3>2. n <= Len(t) /\ Items(Upto(t, n)) \subseteq Items(Upto(s, n))
      BY <3>1, SpreadItems
    <3>3. n \in 0 .. Len(t)
      BY <1>1, <3>1, <3>2
    <3>4. Items(Upto(u \o s, Len(u) + n)) = Items(u) \cup Items(Upto(s, n))
      BY <3>1, FoldOfJoin
    <3>5. Items(Upto(u \o t, Len(u) + n)) = Items(u) \cup Items(Upto(t, n))
      BY <3>3, FoldOfJoin
    <3>6. Items(Upto(u \o t, cur)) \subseteq cov
      BY <2>1, <3>1, <3>2, <3>4, <3>5
    <3> QED BY <1>1, <3>1, <3>3, <3>6
  <2> QED BY <2>2, <2>3
<1>3. ASSUME ~b, ~sh2 PROVE Paired(0, u \o t) /\ Paired(cur, u \o t)
  <2>1. Paired(0, u) /\ Paired(0, s) /\ Paired(cur, u \o s) /\ cur <= Len(u \o s)
    BY <1>3 DEF Marked
  <2>2. Paired(0, t)
    BY <1>1, <2>1, SpreadPaired
  <2>3. Paired(0, u \o t)
    BY <1>1, <2>1, <2>2, PairedJoin
  <2>4. CASE cur <= Len(u)
    <3>1. cur \in 0 .. Len(u)
      BY <1>1, <2>4
    <3>2. Paired(cur, u)
      BY <2>1, <3>1, PairedFront
    <3>3. Paired(cur, u \o t)
      BY <2>2, <3>1, <3>2, PairedJoin
    <3> QED BY <2>3, <3>3
  <2>5. CASE ~(cur <= Len(u))
    <3> DEFINE n == cur - Len(u)
    <3>1. n \in 0 .. Len(s) /\ Len(u) + n = cur
      BY <1>1, <2>1, <2>5
    <3>2. Upto(t, n) = Upto(s, n)
      BY <1>3 DEF Shifts
    <3> HIDE DEF n
    <3>3. n <= Len(t)
      BY <3>1, SpreadItems
    <3>4. n \in 0 .. Len(t)
      BY <1>1, <3>1, <3>3
    <3>5. Paired(Len(u) + n, u \o s) <=> Paired(n, s)
      BY <3>1, PairedBehind
    <3>6. Paired(n, t)
      <4>1. Paired(n, s)
        BY <2>1, <3>1, <3>5
      <4> QED BY <3>1, <3>2, <4>1, SpreadPaired
    <3>7. Paired(Len(u) + n, u \o t) <=> Paired(n, t)
      BY <3>4, PairedBehind
    <3> QED BY <2>3, <3>1, <3>6, <3>7
  <2> QED BY <2>4, <2>5
<1> QED BY <1>2, <1>3 DEF Marked

\* A call is always answered in the list, except at the end of a run that a
\* cancelled call has just ended: there the next repair puts the result in.
Listed(r, n, cur, b) ==
    \/ Replied(r.prefix \o r.input)
    \/ /\ r.pc = "raised"
       /\ \E c \in Nat, base \in Seq(MadeItems(n)) :
            /\ c + 1 <= n /\ r.input = base \o LostTail(c) /\ Replied(r.prefix \o base)
            /\ \A i \in 1 .. Len(base) : base[i].id < c
            /\ \A i \in 1 .. Len(r.prefix) : r.prefix[i].id < c
            /\ ~b => cur <= Len(r.prefix) + Len(base)

\* What the run's fold and its cut leave out is in its summary.
FoldSound(r, un, b) ==
    ~b => IF r.mode \in {"on", "off"}
          THEN /\ r.prefixLen = Len(r.prefix) /\ r.fold <= Len(r.input)
               /\ Items(r.prefix) \cup Items(Upto(r.input, r.fold)) \subseteq (r.sum \cup r.cut) \cup un
          ELSE r.fold = 0 /\ r.l2 = FALSE

\* Calls and results are together in all that is sent and will be sent.
PairsSound(r, b, sh) ==
    ~b /\ ~sh => /\ Paired(0, r.prefix) /\ Paired(0, r.input) /\ Paired(r.fold, r.input)
                 /\ r.pc = "asked" => Paired(0, r.sent)

\* Each retry pays for the calls it may make with those that are left.
CallsSound(r) ==
    /\ r.turns <= r.cap /\ r.cap \in 1 .. MaxTurns
    /\ (r.calls + (r.cap - r.turns)) + (IF r.pc \in {"asked", "limit"} THEN 1 ELSE 0)
         <= MaxTurns + (IF r.pin THEN 0 ELSE 1)
    /\ r.pin /\ ~r.named => r.turns = IF r.pc = "ready" THEN 0 ELSE 1

\* A run is sound when its lists and its fold are.
RunSound(r, n, cur, cov, un, b, sh) ==
    /\ r \in RunRecs(n) /\ Listed(r, n, cur, b)
    /\ Marked(r.prefix \o r.input, cur, cov \cup un, b, sh)
    /\ FoldSound(r, un, b) /\ PairsSound(r, b, sh) /\ CallsSound(r)

ConvType ==
    /\ made \in Nat /\ runs \in Nat /\ cursor \in Nat /\ hist \in Seq(MadeItems(made))
    /\ covered \in SUBSET AllItems /\ unseen \in SUBSET AllItems
    /\ blind \in BOOLEAN /\ shifted \in BOOLEAN

\* The invariant: the saved list and the running one are sound.
ConvInv ==
    /\ ConvType /\ Replied(hist)
    /\ Marked(hist, cursor, covered \cup unseen, blind, shifted)
    /\ run = NoRun \/ RunSound(run, made, cursor, covered, unseen, blind, shifted)

\* The conversation's specification.
ConvSpec == ConvInit /\ [][ConvNext]_convVars

\* With more items made, the lists there were are still lists of made items.
LEMMA MadeMore ==
  ASSUME NEW n \in Nat, NEW m \in Nat, n <= m
  PROVE  MadeItems(n) \subseteq MadeItems(m) /\ Seq(MadeItems(n)) \subseteq Seq(MadeItems(m)) /\ RunRecs(n) \subseteq RunRecs(m)
<1>1. MadeItems(n) \subseteq MadeItems(m)
  BY DEF MadeItems
<1>2. Seq(MadeItems(n)) \subseteq Seq(MadeItems(m))
  BY <1>1
<1>3. RunRecs(n) \subseteq RunRecs(m)
  <2> HIDE DEF MadeItems
  <2> QED BY <1>2 DEF RunRecs
<1> QED BY <1>1, <1>2, <1>3

\* A step that moves no item of the run.
SameItems(r, x) ==
    /\ x.prefix = r.prefix /\ x.input = r.input /\ x.prefixLen = r.prefixLen /\ x.cut = r.cut
    /\ x.mode = r.mode

\* A call to the model, with what the filter makes of the run's list.
LEMMA CallStep ==
  ASSUME NEW n \in Nat, NEW r, NEW cur \in Nat, NEW cov, NEW un, NEW b, NEW sh,
         RunSound(r, n, cur, cov, un, b, sh), r.pc = "ready", r.turns < r.cap,
         NEW f \in Filtered(r, r.input), NEW x, x = [f EXCEPT !.pc = "asked", !.turns = @ + 1]
  PROVE  RunSound(x, n, cur, cov, un, b, sh)
<1>1. r \in RunRecs(n) /\ r.input \in Seq(MadeItems(n))
  BY DEF RunSound, RunRecs
<1>2. f \in RunRecs(n) /\ FilterKeeps(r, f) /\ FilterFolds(r, f, r.input)
  BY <1>1, FilteredSound
<1>3. /\ x \in RunRecs(n) /\ x.pc = "asked" /\ x.turns = f.turns + 1 /\ x.mode = f.mode /\ x.prefix = f.prefix
      /\ x.input = f.input /\ x.sent = f.sent /\ x.prefixLen = f.prefixLen /\ x.fold = f.fold
      /\ x.sum = f.sum /\ x.l2 = f.l2 /\ x.cap = f.cap /\ x.calls = f.calls /\ x.pin = f.pin
      /\ x.named = f.named /\ x.cut = f.cut
  <2> DEFINE t == f.turns + 1
  <2>1. t \in Nat
    BY <1>2 DEF RunRecs
  <2>2. x = [f EXCEPT !.pc = "asked", !.turns = t]
    OBVIOUS
  <2> HIDE DEF t
  <2>3. x \in RunRecs(n)
    BY <1>2, <2>1, <2>2 DEF RunRecs
  <2>4. /\ x.pc = "asked" /\ x.turns = t /\ x.mode = f.mode /\ x.prefix = f.prefix
        /\ x.input = f.input /\ x.sent = f.sent /\ x.prefixLen = f.prefixLen /\ x.fold = f.fold
        /\ x.sum = f.sum /\ x.l2 = f.l2 /\ x.cap = f.cap /\ x.calls = f.calls /\ x.pin = f.pin
        /\ x.named = f.named /\ x.cut = f.cut
    BY <1>2, <2>2 DEF RunRecs
  <2> QED BY <2>3, <2>4 DEF t
<1>4. /\ x.turns = r.turns + 1 /\ x.mode = r.mode /\ x.prefix = r.prefix
      /\ x.input = r.input /\ x.prefixLen = r.prefixLen /\ x.cap = r.cap /\ x.calls = r.calls /\ x.pin = r.pin
      /\ x.named = r.named /\ x.cut = r.cut
  BY <1>2, <1>3 DEF FilterKeeps
<1>5. Listed(x, n, cur, b)
  BY <1>4 DEF RunSound, Listed
<1>6. Marked(x.prefix \o x.input, cur, cov \cup un, b, sh)
  BY <1>4 DEF RunSound
<1>7. FoldSound(x, un, b)
  <2>1. SUFFICES ASSUME ~b PROVE FoldSound(x, un, b)
    BY DEF FoldSound
  <2>2. CASE r.mode \in {"on", "off"}
    <3>1. /\ r.prefixLen = Len(r.prefix) /\ r.fold <= Len(r.input)
          /\ Items(r.prefix) \cup Items(Upto(r.input, r.fold)) \subseteq (r.sum \cup r.cut) \cup un
      BY <2>1, <2>2 DEF RunSound, FoldSound
    <3>2. /\ f.fold <= Len(r.input) /\ r.sum \subseteq f.sum
          /\ Items(Upto(r.input, f.fold)) \subseteq Items(Upto(r.input, r.fold)) \cup f.sum
      BY <1>2, <3>1 DEF FilterFolds
    <3>3. /\ x.prefixLen = Len(x.prefix) /\ x.fold <= Len(x.input)
          /\ Items(x.prefix) \cup Items(Upto(x.input, x.fold)) \subseteq (x.sum \cup x.cut) \cup un
      BY <1>3, <1>4, <3>1, <3>2
    <3> QED BY <1>4, <2>2, <3>3 DEF FoldSound
  <2>3. CASE r.mode \notin {"on", "off"}
    <3>1. r.fold = 0 /\ r.l2 = FALSE
      BY <2>1, <2>3 DEF RunSound, FoldSound
    <3>2. f.fold = r.fold /\ f.l2 = r.l2
      BY <1>2, <2>3 DEF FilterFolds
    <3> QED BY <1>3, <1>4, <2>3, <3>1, <3>2 DEF FoldSound
  <2> QED BY <2>2, <2>3
<1>8. PairsSound(x, b, sh)
  <2>1. SUFFICES ASSUME ~b, ~sh PROVE PairsSound(x, b, sh)
    BY DEF PairsSound
  <2>2. Paired(0, r.prefix) /\ Paired(0, r.input) /\ Paired(r.fold, r.input)
    BY <2>1 DEF RunSound, PairsSound
  <2>3. r.fold <= Len(r.input)
    <3>1. r.fold = 0 \/ r.fold <= Len(r.input)
      BY <2>1 DEF RunSound, FoldSound
    <3> QED BY <1>1, <3>1
  <2>4. Paired(0, f.sent) /\ Paired(f.fold, r.input)
    BY <1>2, <2>2, <2>3 DEF FilterFolds
  <2> QED BY <1>3, <1>4, <2>2, <2>4 DEF PairsSound
<1>9. CallsSound(x)
  <2>1. r.turns \in Nat /\ r.cap \in Nat /\ r.calls \in Nat /\ r.pin \in BOOLEAN /\ MaxTurns \in Nat
    BY <1>1, ConvConstants DEF RunRecs
  <2>2. CallsSound(r)
    BY DEF RunSound
  <2> QED BY <1>3, <1>4, <2>1, <2>2 DEF CallsSound
<1> QED BY <1>3, <1>5, <1>6, <1>7, <1>8, <1>9 DEF RunSound

\* A failed call, or the pin released: nothing but counters and flags changes.
LEMMA PlainStep ==
  ASSUME NEW n \in Nat, NEW r, NEW cur \in Nat, NEW cov, NEW un, NEW b, NEW sh,
         RunSound(r, n, cur, cov, un, b, sh), NEW x \in RunRecs(n), SameItems(r, x),
         x.fold = r.fold, x.sum = r.sum, x.l2 = r.l2, x.pc # "asked", r.pc # "raised", CallsSound(x)
  PROVE  RunSound(x, n, cur, cov, un, b, sh)
<1>1. Listed(x, n, cur, b) /\ Marked(x.prefix \o x.input, cur, cov \cup un, b, sh)
  BY DEF RunSound, Listed, SameItems
<1>2. FoldSound(x, un, b)
  BY DEF RunSound, FoldSound, SameItems
<1>3. PairsSound(x, b, sh)
  BY DEF RunSound, PairsSound, SameItems
<1> QED BY <1>1, <1>2, <1>3 DEF RunSound

\* A call that fails (agent.AgentRunner.run: the handlers around run_streamed).
LEMMA FailsStep ==
  ASSUME NEW n \in Nat, NEW r, NEW cur \in Nat, NEW cov, NEW un, NEW b, NEW sh,
         RunSound(r, n, cur, cov, un, b, sh), r.pc = "asked", NEW e \in {"limit", "raised"},
         NEW x, x = [r EXCEPT !.pc = e, !.sent = <<>>]
  PROVE  RunSound(x, n, cur, cov, un, b, sh)
<1>1. r \in RunRecs(n)
  BY DEF RunSound
<1>2. /\ x \in RunRecs(n) /\ x.pc = e /\ x.turns = r.turns /\ x.cap = r.cap /\ x.calls = r.calls /\ x.pin = r.pin
      /\ x.named = r.named /\ SameItems(r, x) /\ x.fold = r.fold /\ x.sum = r.sum /\ x.l2 = r.l2
  <2> DEFINE nil == <<>>
  <2>1. nil \in Seq(MadeItems(n)) /\ x = [r EXCEPT !.pc = e, !.sent = nil]
    OBVIOUS
  <2> HIDE DEF nil
  <2>2. x \in RunRecs(n)
    BY <1>1, <2>1 DEF RunRecs
  <2> QED BY <1>1, <2>1, <2>2 DEF RunRecs, SameItems
<1>3. CallsSound(x)
  <2>1. r.turns \in Nat /\ r.cap \in Nat /\ r.calls \in Nat /\ r.pin \in BOOLEAN /\ MaxTurns \in Nat
    BY <1>1, ConvConstants DEF RunRecs
  <2>2. CallsSound(r)
    BY DEF RunSound
  <2> QED BY <1>2, <2>1, <2>2 DEF CallsSound
<1> QED BY <1>2, <1>3, PlainStep

\* The run whose pinned tool was not called starts once more without the pin.
LEMMA UnpinStep ==
  ASSUME NEW n \in Nat, NEW r, NEW cur \in Nat, NEW cov, NEW un, NEW b, NEW sh,
         RunSound(r, n, cur, cov, un, b, sh), r.pc = "over", r.pin, ~r.named,
         NEW x, x = [r EXCEPT !.pc = "ready", !.pin = FALSE, !.turns = 0]
  PROVE  RunSound(x, n, cur, cov, un, b, sh)
<1>1. r \in RunRecs(n)
  BY DEF RunSound
<1>2. /\ x \in RunRecs(n) /\ x.pc = "ready" /\ x.turns = 0 /\ x.cap = r.cap /\ x.calls = r.calls /\ x.pin = FALSE
      /\ x.named = r.named /\ SameItems(r, x) /\ x.fold = r.fold /\ x.sum = r.sum /\ x.l2 = r.l2
  BY <1>1 DEF RunRecs, SameItems
<1>3. CallsSound(x)
  <2>1. r.turns \in Nat /\ r.cap \in Nat /\ r.calls \in Nat /\ MaxTurns \in Nat
    BY <1>1, ConvConstants DEF RunRecs
  <2>2. CallsSound(r)
    BY DEF RunSound
  <2>3. r.turns = 1
    BY <2>2 DEF CallsSound
  <2> QED BY <1>2, <2>1, <2>2, <2>3 DEF CallsSound
<1> QED BY <1>2, <1>3, PlainStep

\* A step that adds E to the run's list.
Adds(r, e, x) ==
    /\ x.prefix = r.prefix /\ x.input = r.input \o e /\ x.prefixLen = r.prefixLen /\ x.cut = r.cut
    /\ x.mode = r.mode /\ x.fold = r.fold /\ x.sum = r.sum /\ x.l2 = r.l2

\* What a call adds to the list.
LEMMA AppendStep ==
  ASSUME NEW n \in Nat, NEW r, NEW cur \in Nat, NEW cov, NEW un, NEW b, NEW sh,
         RunSound(r, n, cur, cov, un, b, sh), NEW m \in Nat, n <= m, NEW e \in Seq(MadeItems(m)), Paired(0, e),
         NEW x \in RunRecs(m), Adds(r, e, x), x.pc # "asked",
         CallsSound(x), Listed(x, m, cur, b)
  PROVE  RunSound(x, m, cur, cov, un, b, sh)
<1> DEFINE S == MadeItems(m)
<1>1. r.prefix \in Seq(S) /\ r.input \in Seq(S) /\ r.fold \in Nat /\ e \in Seq(S)
  <2>1. r \in RunRecs(m)
    BY MadeMore DEF RunSound
  <2> QED BY <2>1 DEF RunRecs
<1> HIDE DEF S
<1>2. Marked(x.prefix \o x.input, cur, cov \cup un, b, sh)
  <2>1. r.prefix \o r.input \in Seq(S)
    BY <1>1
  <2>2. Marked(r.prefix \o r.input, cur, cov \cup un, b, sh)
    BY DEF RunSound
  <2>3. Marked((r.prefix \o r.input) \o e, cur, cov \cup un, b, sh)
    BY <1>1, <2>1, <2>2, MarkedMore
  <2>4. (r.prefix \o r.input) \o e = r.prefix \o (r.input \o e)
    <3> DEFINE p == r.prefix
               i == r.input
    <3>1. p \in Seq(S) /\ i \in Seq(S) /\ e \in Seq(S)
      BY <1>1
    <3> HIDE DEF p, i
    <3>2. ThreeJoined(p, i, e)
      BY <3>1, JoinThree
    <3> QED BY <3>2, Zenon DEF ThreeJoined, p, i
  <2> QED BY <2>3, <2>4 DEF Adds
<1>3. FoldSound(x, un, b)
  <2>1. SUFFICES ASSUME ~b PROVE FoldSound(x, un, b)
    BY DEF FoldSound
  <2>2. CASE r.mode \in {"on", "off"}
    <3>1. /\ r.prefixLen = Len(r.prefix) /\ r.fold <= Len(r.input)
          /\ Items(r.prefix) \cup Items(Upto(r.input, r.fold)) \subseteq (r.sum \cup r.cut) \cup un
      BY <2>1, <2>2 DEF RunSound, FoldSound
    <3>2. r.fold \in 0 .. Len(r.input)
      BY <1>1, <3>1
    <3>3. Upto(r.input \o e, r.fold) = Upto(r.input, r.fold)
      BY <1>1, <3>2, UptoJoin
    <3>4. Len(r.input \o e) = Len(r.input) + Len(e) /\ Len(r.input) \in Nat /\ Len(e) \in Nat
      BY <1>1, JoinIs
    <3>5. x.prefixLen = Len(x.prefix) /\ x.fold <= Len(x.input)
      BY <1>1, <3>1, <3>4 DEF Adds
    <3> QED BY <2>2, <3>1, <3>3, <3>5 DEF FoldSound, Adds
  <2>3. CASE r.mode \notin {"on", "off"}
    BY <2>1, <2>3 DEF RunSound, FoldSound, Adds
  <2> QED BY <2>2, <2>3
<1>4. PairsSound(x, b, sh)
  <2>1. SUFFICES ASSUME ~b, ~sh PROVE PairsSound(x, b, sh)
    BY DEF PairsSound
  <2>2. Paired(0, r.prefix) /\ Paired(0, r.input) /\ Paired(r.fold, r.input)
    BY <2>1 DEF RunSound, PairsSound
  <2>3. r.fold \in 0 .. Len(r.input) /\ 0 \in 0 .. Len(r.input)
    <3>1. r.fold = 0 \/ r.fold <= Len(r.input)
      BY <2>1 DEF RunSound, FoldSound
    <3> QED BY <1>1, <3>1
  <2>4. Paired(0, r.input \o e) /\ Paired(r.fold, r.input \o e)
    BY <1>1, <2>2, <2>3, PairedJoin
  <2> QED BY <2>2, <2>4 DEF PairsSound, Adds
<1> QED BY <1>2, <1>3, <1>4 DEF RunSound

\* Calls made in parallel and their results.
ShapeOf(calls, outs, c, lost) ==
    /\ Paired(0, calls \o outs)
    /\ lost => calls \o outs = LostTail(c + 1)
    /\ ~lost => Replied(calls \o outs)

\* J calls and the results of the first h of them.
ToolParts(S, calls, outs, c, j, h) ==
    /\ calls \in Seq(S) /\ Len(calls) = j /\ \A i \in 1 .. j : calls[i] = It("call", c + i)
    /\ outs \in Seq(S) /\ Len(outs) = h /\ \A i \in 1 .. h : outs[i] = It("out", c + i)

\* Calls and their results behind them are paired, and all are replied to
\* unless the last result is lost.
LEMMA ToolShape ==
  ASSUME NEW S, NEW c \in Nat, NEW j \in 1 .. 2, NEW lost \in BOOLEAN, NEW h \in 1 .. 2,
         lost => h = 1 /\ j = 2, ~lost => h = j,
         NEW calls, NEW outs, ToolParts(S, calls, outs, c, j, h)
  PROVE  ShapeOf(calls, outs, c, lost)
<1> SUFFICES ASSUME calls \in Seq(S), Len(calls) = j, \A i \in 1 .. j : calls[i] = It("call", c + i),
                    outs \in Seq(S), Len(outs) = h, \A i \in 1 .. h : outs[i] = It("out", c + i)
             PROVE  ShapeOf(calls, outs, c, lost)
  BY DEF ToolParts
<1> DEFINE w == calls \o outs
<1>1. h <= j /\ j \in Nat /\ h \in Nat
  OBVIOUS
<1>2. \A i \in 1 .. j : It("call", c + i) \in S /\ (i <= h => It("out", c + i) \in S)
  <2>1. \A i \in 1 .. Len(calls) : calls[i] \in S
    OBVIOUS
  <2>2. \A i \in 1 .. Len(outs) : outs[i] \in S
    OBVIOUS
  <2> QED BY <1>1, <2>1, <2>2
<1>5. /\ w \in Seq(S) /\ Len(w) = j + h
      /\ \A i \in 1 .. Len(calls) : w[i] = calls[i]
      /\ \A i \in 1 .. Len(outs) : w[Len(calls) + i] = outs[i]
  BY JoinIs
<1>6. /\ \A i \in 1 .. j : w[i] = It("call", c + i)
      /\ \A i \in 1 .. h : w[j + i] = It("out", c + i)
  BY <1>5
<1> HIDE DEF w
<1>7. /\ \A i \in 1 .. j : w[i].kind = "call" /\ w[i].id = c + i
      /\ \A i \in 1 .. h : w[j + i].kind = "out" /\ w[j + i].id = c + i
  <2>1. \A k, y : It(k, y).kind = k /\ It(k, y).id = y
    BY DEF It
  <2>2. ASSUME NEW i \in 1 .. j PROVE w[i].kind = "call" /\ w[i].id = c + i
    <3>1. w[i] = It("call", c + i)
      BY <1>6
    <3> QED BY <3>1 DEF It
  <2>3. ASSUME NEW i \in 1 .. h PROVE w[j + i].kind = "out" /\ w[j + i].id = c + i
    <3>1. w[j + i] = It("out", c + i)
      BY <1>6
    <3> QED BY <3>1 DEF It
  <2> QED BY <2>2, <2>3
<1>8. ASSUME NEW p \in 1 .. j + h PROVE p \in 1 .. j \/ (p - j \in 1 .. h /\ j + (p - j) = p)
  BY <1>1
<1>9. Paired(0, w)
  <2>1. SUFFICES ASSUME NEW p \in 0 + 1 .. Len(w), w[p].kind = "out" PROVE \E q \in 0 + 1 .. p - 1 : Chain(w, q, p)
    BY DEF Paired
  <2> DEFINE i == p - j
  <2>2. i \in 1 .. h /\ j + i = p /\ i \in 0 + 1 .. p - 1 /\ i \in 1 .. j /\ p \in 1 .. j + h
    <3>1. p \in 1 .. j + h
      BY <1>5
    <3>2. p \notin 1 .. j
      BY <1>7, <2>1
    <3> QED BY <1>1, <1>8, <3>1, <3>2
  <2> HIDE DEF i
  <2>3. w[i] = It("call", w[p].id)
    BY <1>6, <1>7, <2>2
  <2>4. ASSUME NEW k \in i + 1 .. p
        PROVE  w[k].kind \in {"call", "out"} /\ (w[k - 1].kind = "out" => w[k].kind = "out")
    <3>1. k \in 1 .. j + h /\ k - 1 \in 1 .. j + h
      <4>1. i \in Nat /\ 1 <= i /\ p \in Nat /\ p <= j + h /\ k \in Nat /\ i + 1 <= k /\ k <= p
        BY <1>1, <2>2
      <4> QED BY <1>1, <4>1
    <3>2. CASE k \in 1 .. j
      <4>1. k - 1 \in 1 .. j
        BY <2>2, <3>1, <3>2
      <4>2. w[k].kind = "call" /\ w[k - 1].kind = "call"
        BY <1>7, <3>2, <4>1
      <4> QED BY <4>2
    <3>3. CASE k \notin 1 .. j
      <4>1. k - j \in 1 .. h /\ j + (k - j) = k
        BY <1>8, <3>1, <3>3
      <4>2. w[j + (k - j)].kind = "out"
        BY <1>7, <4>1
      <4> QED BY <4>1, <4>2
    <3> QED BY <3>2, <3>3
  <2>5. Chain(w, i, p)
    BY <2>3, <2>4 DEF Chain
  <2> QED BY <2>2, <2>5
<1>10. ASSUME ~lost PROVE Replied(w)
  <2>1. SUFFICES ASSUME NEW p \in 1 .. Len(w), w[p].kind = "call"
                 PROVE  \E q \in p + 1 .. Len(w) : w[q] = It("out", w[p].id)
    BY DEF Replied
  <2>2. p \in 1 .. j
    <3>1. p \in 1 .. j + h
      BY <1>5
    <3>2. ASSUME p - j \in 1 .. h, j + (p - j) = p PROVE FALSE
      <4>1. w[j + (p - j)].kind = "out"
        BY <1>7, <3>2
      <4> QED BY <2>1, <3>2, <4>1
    <3> QED BY <1>8, <3>1, <3>2
  <2>3. p \in 1 .. h /\ j + p \in p + 1 .. Len(w)
    BY <1>1, <1>5, <1>10, <2>2
  <2>4. w[j + p] = It("out", c + p) /\ w[p].id = c + p
    BY <1>6, <1>7, <2>2, <2>3
  <2> QED BY <2>3, <2>4
<1>11. ASSUME lost PROVE w = LostTail(c + 1)
  <2> DEFINE t == LostTail(c + 1)
  <2>1. j = 2 /\ h = 1
    BY <1>1, <1>11
  <2>2. w[1] = It("call", c + 1) /\ w[2] = It("call", c + 2) /\ w[3] = It("out", c + 1)
    <3>1. 1 \in 1 .. j /\ 2 \in 1 .. j /\ 1 \in 1 .. h /\ j + 1 = 3
      BY <2>1
    <3> QED BY <1>6, <3>1
  <2>3. Len(w) = 3
    BY <1>5, <2>1
  <2>4. /\ t \in Seq(S) /\ Len(t) = 3 /\ t[1] = It("call", c + 1) /\ t[2] = It("call", (c + 1) + 1)
        /\ t[3] = It("out", c + 1)
    <3>1. It("call", c + 1) \in S /\ It("call", c + 2) \in S /\ It("out", c + 1) \in S /\ (c + 1) + 1 = c + 2
      BY <1>2, <2>1
    <3> QED BY <3>1 DEF LostTail
  <2> HIDE DEF t
  <2>5. (c + 1) + 1 = c + 2
    OBVIOUS
  <2>6. \A i \in 1 .. Len(w) : w[i] = t[i]
    <3>1. \A i \in 1 .. 3 : i = 1 \/ i = 2 \/ i = 3
      OBVIOUS
    <3> QED BY <2>2, <2>3, <2>4, <2>5, <3>1
  <2>7. w = t
    BY <1>5, <2>3, <2>4, <2>6, SameList
  <2> QED BY <2>7 DEF t
<1> QED BY <1>9, <1>10, <1>11 DEF w, ShapeOf

\* What a turn of tools adds.
BlockOf(calls, outs, c, j, lost) ==
    /\ calls = [i \in 1 .. j |-> It("call", c + i)]
    /\ outs = [i \in 1 .. (IF lost THEN j - 1 ELSE j) |-> It("out", c + i)]

\* The calls and results a turn adds have that shape.
LEMMA ToolBlock ==
  ASSUME NEW m \in Nat, NEW c \in Nat, NEW j \in 1 .. 2, NEW lost \in BOOLEAN, lost => j = 2, c + j <= m,
         NEW calls, NEW outs, BlockOf(calls, outs, c, j, lost)
  PROVE  /\ calls \in Seq(MadeItems(m)) /\ outs \in Seq(MadeItems(m))
         /\ ShapeOf(calls, outs, c, lost)
<1> DEFINE S == MadeItems(m)
           h == IF lost THEN j - 1 ELSE j
<1>1. h \in 1 .. 2 /\ h <= j /\ (lost => h = 1 /\ j = 2) /\ (~lost => h = j)
  OBVIOUS
<1>2. \A i \in 1 .. j : It("call", c + i) \in S /\ It("out", c + i) \in S
  BY DEF It, MadeItems, Kinds
<1> HIDE DEF S
<1>3. calls \in Seq(S) /\ Len(calls) = j /\ \A i \in 1 .. j : calls[i] = It("call", c + i)
  BY <1>1, <1>2 DEF BlockOf
<1>4. outs \in Seq(S) /\ Len(outs) = h /\ \A i \in 1 .. h : outs[i] = It("out", c + i)
  BY <1>1, <1>2 DEF BlockOf
<1> HIDE DEF h
<1>5. ShapeOf(calls, outs, c, lost)
  <2>1. ToolParts(S, calls, outs, c, j, h)
    BY <1>3, <1>4 DEF ToolParts
  <2> QED BY <1>1, <2>1, ToolShape
<1> QED BY <1>3, <1>4, <1>5 DEF S

\* A call that came back was one of those the cap leaves room for.
LEMMA AfterCall ==
  ASSUME NEW n \in Nat, NEW r \in RunRecs(n), CallsSound(r), r.pc = "asked",
         NEW x, x.calls = r.calls + 1, x.turns = r.turns, x.cap = r.cap, x.pin = r.pin,
         x.pc \in {"ready", "over", "raised"}, x.named \/ (x.named = r.named /\ x.pc # "ready")
  PROVE  CallsSound(x)
<1>1. r.turns \in Nat /\ r.cap \in Nat /\ r.calls \in Nat /\ r.pin \in BOOLEAN /\ MaxTurns \in Nat
  BY ConvConstants DEF RunRecs
<1>2. /\ r.turns <= r.cap /\ r.cap \in 1 .. MaxTurns
      /\ (r.calls + (r.cap - r.turns)) + 1 <= MaxTurns + (IF r.pin THEN 0 ELSE 1)
      /\ r.pin /\ ~r.named => r.turns = 1
  BY DEF CallsSound
<1>3. (x.calls + (x.cap - x.turns)) + 0 <= MaxTurns + (IF x.pin THEN 0 ELSE 1)
  BY <1>1, <1>2
<1>4. x.pin /\ ~x.named => x.turns = IF x.pc = "ready" THEN 0 ELSE 1
  BY <1>2
<1> QED BY <1>2, <1>3, <1>4 DEF CallsSound

\* An answer is neither a call nor a result.
LEMMA SayPaired ==
  ASSUME NEW k
  PROVE  Paired(0, <<It("say", k)>>) /\ Replied(<<It("say", k)>>)
<1>1. <<It("say", k)>>[1].kind = "say" /\ Len(<<It("say", k)>>) = 1
  BY DEF It
<1> DEFINE s == <<It("say", k)>>
<1> HIDE DEF s
<1>2. s[1].kind = "say" /\ Len(s) = 1
  BY <1>1 DEF s
<1>3. Paired(0, s) /\ Replied(s)
  BY <1>2 DEF Paired, Replied
<1> QED BY <1>3 DEF s

FourJoined(y, a, c, o) == ((y \o a) \o c) \o o = y \o (a \o (c \o o))
\* Joining four lists in any order gives the same list.
LEMMA JoinFour ==
  ASSUME NEW S, NEW y \in Seq(S), NEW a \in Seq(S), NEW c \in Seq(S), NEW o \in Seq(S)
  PROVE  FourJoined(y, a, c, o)
<1>1. y \o a \in Seq(S) /\ c \o o \in Seq(S)
  BY JoinIs
<1>2. ThreeJoined(y \o a, c, o) /\ ThreeJoined(y, a, c \o o)
  BY <1>1, JoinThree
<1> QED BY <1>2, Zenon DEF ThreeJoined, FourJoined

\* Items that bring their own replies leave every call replied to.
LEMMA RepliedMore ==
  ASSUME NEW S, NEW u \in Seq(S), NEW s \in Seq(S), NEW e \in Seq(S), Replied(u \o s), Replied(e)
  PROVE  Replied(u \o (s \o e))
<1>1. u \o s \in Seq(S)
  OBVIOUS
<1>2. Replied((u \o s) \o e)
  BY <1>1, RepliedJoin
<1>3. (u \o s) \o e = u \o (s \o e)
  BY JoinAssoc
<1> QED BY <1>2, <1>3

\* The run after an answer, after a call that said nothing, and after a turn
\* of tools.
AnswerRec(r, n, x) ==
    x = [r EXCEPT !.pc = "over", !.calls = @ + 1, !.said = TRUE, !.sent = <<>>, !.input = Append(@, It("say", n + 1))]
SilentRec(r, x) == x = [r EXCEPT !.pc = "over", !.calls = @ + 1, !.sent = <<>>]
TurnOf(n, c, j, text, lost) == (lost => j = 2) /\ c = n + IF text THEN 1 ELSE 0
ToolRec(r, c, text, lost, calls, outs, x) ==
    x = [r EXCEPT !.pc = IF lost THEN "raised" ELSE "ready", !.calls = @ + 1, !.sent = <<>>,
                  !.named = TRUE, !.said = @ \/ text,
                  !.input = @ \o (IF text THEN <<It("say", c)>> ELSE <<>>) \o calls \o outs]

\* An answer of the model, or none.
LEMMA AnswerStep ==
  ASSUME NEW n \in Nat, NEW r, NEW cur \in Nat, NEW cov, NEW un, NEW b, NEW sh,
         RunSound(r, n, cur, cov, un, b, sh), r.pc = "asked", NEW m, NEW x,
         (AnswerRec(r, n, x) /\ m = n + 1) \/ (SilentRec(r, x) /\ m = n)
  PROVE  m \in Nat /\ n <= m /\ RunSound(x, m, cur, cov, un, b, sh)
<1>1. r \in RunRecs(n) /\ CallsSound(r) /\ r.calls \in Nat
  BY DEF RunSound, RunRecs
<1> DEFINE nil == <<>>
           k == r.calls + 1
<1>2. nil \in Seq(MadeItems(n)) /\ nil \in Seq(MadeItems(n + 1)) /\ k \in Nat
  BY <1>1
<1>3. CASE SilentRec(r, x) /\ m = n
  <2>1. x = [r EXCEPT !.pc = "over", !.calls = k, !.sent = nil]
    BY <1>3 DEF SilentRec
  <2> HIDE DEF nil, k
  <2>2. x \in RunRecs(n)
    BY <1>1, <1>2, <2>1 DEF RunRecs
  <2>3. /\ SameItems(r, x) /\ x.fold = r.fold /\ x.sum = r.sum /\ x.l2 = r.l2 /\ x.pc = "over"
        /\ x.calls = k /\ x.turns = r.turns /\ x.cap = r.cap /\ x.pin = r.pin /\ x.named = r.named
    BY <1>1, <2>1 DEF RunRecs, SameItems
  <2>4. CallsSound(x)
    BY <1>1, <2>3, AfterCall DEF k
  <2>5. RunSound(x, n, cur, cov, un, b, sh)
    BY <2>2, <2>3, <2>4, PlainStep
  <2> QED BY <1>3, <2>5
<1>4. CASE AnswerRec(r, n, x) /\ m = n + 1
  <2> DEFINE e == <<It("say", n + 1)>>
             i == Append(r.input, It("say", n + 1))
  <2>1. r \in RunRecs(m) /\ m \in Nat /\ n <= m /\ r.input \in Seq(MadeItems(m)) /\ r.prefix \in Seq(MadeItems(m))
    <3>1. r \in RunRecs(m) /\ m \in Nat /\ n <= m
      BY <1>1, <1>4, MadeMore
    <3> QED BY <3>1 DEF RunRecs
  <2>2. It("say", n + 1) \in MadeItems(m)
    BY <1>4 DEF It, MadeItems, Kinds
  <2>3. e \in Seq(MadeItems(m)) /\ i = r.input \o e
    <3> DEFINE S == MadeItems(m)
               y == r.input
               w == It("say", n + 1)
    <3>1. y \in Seq(S) /\ w \in S
      BY <2>1, <2>2
    <3> HIDE DEF S, y, w
    <3>2. <<w>> \in Seq(S) /\ Append(y, w) = y \o <<w>>
      BY <3>1
    <3> QED BY <3>2 DEF S, y, w
  <2>4. i \in Seq(MadeItems(m))
    BY <2>1, <2>2
  <2>5. Paired(0, e) /\ Replied(e)
    BY SayPaired
  <2>6. x = [r EXCEPT !.pc = "over", !.calls = k, !.said = TRUE, !.sent = nil, !.input = i]
    BY <1>4 DEF AnswerRec
  <2>m. nil \in Seq(MadeItems(m))
    BY <1>2, <1>4
  <2> HIDE DEF nil, k, e, i
  <2>7. x \in RunRecs(m)
    BY <1>2, <2>1, <2>4, <2>6, <2>m DEF RunRecs
  <2>8. /\ x.prefix = r.prefix /\ x.input = i /\ x.prefixLen = r.prefixLen /\ x.cut = r.cut
        /\ x.mode = r.mode /\ x.fold = r.fold /\ x.sum = r.sum /\ x.l2 = r.l2
        /\ x.pc = "over" /\ x.calls = k /\ x.turns = r.turns /\ x.cap = r.cap /\ x.pin = r.pin /\ x.named = r.named
    BY <1>1, <2>6 DEF RunRecs
  <2>9. Adds(r, e, x)
    BY <2>3, <2>8 DEF Adds
  <2>10. CallsSound(x)
    BY <1>1, <2>8, AfterCall DEF k
  <2>11. Listed(x, m, cur, b)
    <3>1. Replied(r.prefix \o r.input)
      BY DEF RunSound, Listed
    <3>2. Replied(r.prefix \o (r.input \o e))
      BY <2>1, <2>3, <2>5, <3>1, RepliedMore
    <3> QED BY <2>3, <2>8, <3>2 DEF Listed
  <2>12. RunSound(x, m, cur, cov, un, b, sh)
    BY <2>1, <2>3, <2>5, <2>7, <2>8, <2>9, <2>10, <2>11, AppendStep
  <2> QED BY <2>1, <2>12
<1> QED BY <1>3, <1>4

\* A turn of calls.  The result that is missing is that of the last call.
LEMMA ToolStep ==
  ASSUME NEW n \in Nat, NEW r, NEW cur \in Nat, NEW cov, NEW un, NEW b, NEW sh,
         RunSound(r, n, cur, cov, un, b, sh), r.pc = "asked", NEW text \in BOOLEAN, NEW lost \in BOOLEAN,
         NEW j \in 1 .. 2, NEW c, TurnOf(n, c, j, text, lost), NEW calls, NEW outs, BlockOf(calls, outs, c, j, lost),
         NEW x, ToolRec(r, c, text, lost, calls, outs, x)
  PROVE  c + j \in Nat /\ n <= c + j /\ RunSound(x, c + j, cur, cov, un, b, sh)
<1> DEFINE m == c + j
           S == MadeItems(m)
           a == IF text THEN <<It("say", c)>> ELSE <<>>
           t == calls \o outs
           e == a \o t
           nil == <<>>
           k == r.calls + 1
           p == IF lost THEN "raised" ELSE "ready"
           i == ((r.input \o a) \o calls) \o outs
           d == r.said \/ text
<1>1. c \in Nat /\ n <= c /\ m \in Nat /\ n <= m /\ c + j <= m /\ (text => c = n + 1) /\ c <= m /\ (lost => j = 2)
  BY DEF TurnOf
<1>2. r \in RunRecs(n) /\ r \in RunRecs(m) /\ CallsSound(r)
  <2>1. r \in RunRecs(n)
    BY DEF RunSound
  <2> HIDE DEF m
  <2> QED BY <1>1, <2>1, MadeMore DEF RunSound
<1> HIDE DEF m
<1>3. r.input \in Seq(S) /\ r.prefix \in Seq(S) /\ r.calls \in Nat /\ r.said \in BOOLEAN
  BY <1>2 DEF RunRecs
<1>4. calls \in Seq(S) /\ outs \in Seq(S) /\ ShapeOf(calls, outs, c, lost)
  BY <1>1, ToolBlock
<1>5. a \in Seq(S) /\ Paired(0, a) /\ Replied(a)
  <2>1. CASE text
    <3>1. It("say", c) \in S
      BY <1>1 DEF It, MadeItems, Kinds
    <3> HIDE DEF S
    <3>2. <<It("say", c)>> \in Seq(S)
      BY <3>1
    <3> QED BY <2>1, <3>2, SayPaired, Zenon
  <2>2. CASE ~text
    <3>1. a = <<>>
      BY <2>2
    <3> QED BY <3>1 DEF Paired, Replied
  <2> QED BY <2>1, <2>2
<1>6. x = [r EXCEPT !.pc = p, !.calls = k, !.sent = nil, !.named = TRUE, !.said = d, !.input = i]
  BY DEF ToolRec
<1>7. nil \in Seq(S) /\ p \in {"raised", "ready"} /\ (lost <=> p = "raised") /\ k \in Nat /\ d \in BOOLEAN
  BY <1>3
<1> HIDE DEF S, a, p
<1>8. t \in Seq(S) /\ e \in Seq(S)
  BY <1>4, <1>5
<1>9. i = r.input \o e
  <2> DEFINE y == r.input
  <2>1. y \in Seq(S) /\ a \in Seq(S) /\ calls \in Seq(S) /\ outs \in Seq(S)
    BY <1>3, <1>4, <1>5
  <2> HIDE DEF y
  <2>2. FourJoined(y, a, calls, outs)
    BY <2>1, JoinFour
  <2>3. ((y \o a) \o calls) \o outs = y \o (a \o (calls \o outs))
    BY <2>2, Zenon DEF FourJoined
  <2> QED BY <2>3 DEF y
<1> HIDE DEF t, e, nil, k, i, d
<1>10. i \in Seq(S)
  BY <1>3, <1>8, <1>9
<1>11. x \in RunRecs(m)
  <2>1. nil \in Seq(MadeItems(m)) /\ i \in Seq(MadeItems(m)) /\ k \in Nat /\ d \in BOOLEAN
    BY <1>7, <1>10 DEF S
  <2>2. p \in {"ready", "asked", "over", "limit", "raised"}
    BY <1>7
  <2> QED BY <1>2, <1>6, <2>1, <2>2 DEF RunRecs
<1>12. /\ x.prefix = r.prefix /\ x.input = i /\ x.prefixLen = r.prefixLen /\ x.cut = r.cut
       /\ x.mode = r.mode /\ x.fold = r.fold /\ x.sum = r.sum /\ x.l2 = r.l2
       /\ x.pc = p /\ x.calls = k /\ x.turns = r.turns /\ x.cap = r.cap /\ x.pin = r.pin /\ x.named = TRUE
  BY <1>2, <1>6 DEF RunRecs
<1>13. Adds(r, e, x)
  BY <1>9, <1>12 DEF Adds
<1>14. CallsSound(x)
  <2>1. x.pc \in {"ready", "over", "raised"}
    BY <1>7, <1>12
  <2>2. r.pc = "asked" /\ x.calls = r.calls + 1 /\ x.turns = r.turns /\ x.cap = r.cap /\ x.pin = r.pin /\ x.named
    BY <1>12 DEF k
  <2> QED BY <1>2, <2>1, <2>2, AfterCall
<1>15. Paired(0, e)
  <2>1. Paired(0, t) /\ 0 \in 0 .. Len(a)
    BY <1>4, <1>5 DEF t, ShapeOf
  <2> QED BY <1>5, <1>8, <2>1, PairedJoin DEF e
<1>16. Replied(r.prefix \o r.input)
  BY DEF RunSound, Listed
<1>17. Listed(x, m, cur, b)
  <2>1. CASE ~lost
    <3>1. Replied(t)
      BY <1>4, <2>1 DEF t, ShapeOf
    <3>2. Replied(e)
      BY <1>5, <1>8, <3>1, RepliedJoin DEF e
    <3>3. Replied(r.prefix \o (r.input \o e))
      BY <1>3, <1>8, <1>16, <3>2, RepliedMore
    <3> QED BY <1>9, <1>12, <3>3 DEF Listed
  <2>2. CASE lost
    <3> DEFINE base == r.input \o a
    <3>1. base \in Seq(S) /\ x.input = base \o LostTail(c + 1)
      <4>1. i = base \o t
        <5>1. base \in Seq(S) /\ calls \in Seq(S) /\ outs \in Seq(S)
          BY <1>3, <1>4, <1>5
        <5> HIDE DEF base
        <5>2. (base \o calls) \o outs = base \o (calls \o outs)
          BY <5>1, JoinAssoc
        <5> QED BY <5>2 DEF base, i, t
      <4>2. t = LostTail(c + 1)
        BY <1>4, <2>2 DEF t, ShapeOf
      <4>3. base \in Seq(S)
        BY <1>3, <1>5
      <4>4. x.input = i
        BY <1>12
      <4> HIDE DEF base
      <4> QED BY <4>1, <4>2, <4>3, <4>4
    <3>2. Replied(r.prefix \o base)
      BY <1>3, <1>5, <1>16, RepliedMore
    <3>3. \A h \in 1 .. Len(base) : base[h].id < c + 1
      <4>1. r.input \in Seq(MadeItems(n))
        BY <1>2 DEF RunRecs
      <4>2. \A h \in 1 .. Len(r.input) : r.input[h].id < c + 1
        <5>1. \A h \in 1 .. Len(r.input) : r.input[h] \in MadeItems(n)
          BY <4>1
        <5>2. \A y \in MadeItems(n) : y.id \in 0 .. n
          BY DEF MadeItems
        <5> QED BY <1>1, <5>1, <5>2
      <4>3. \A h \in 1 .. Len(a) : a[h].id < c + 1
        <5>1. CASE text
          <6>1. a = <<It("say", c)>>
            BY <5>1 DEF a
          <6> QED BY <1>1, <6>1 DEF It
        <5>2. CASE ~text
          BY <5>2 DEF a
        <5> QED BY <5>1, <5>2
      <4>4. SUFFICES ASSUME NEW h \in 1 .. Len(base) PROVE base[h].id < c + 1
        OBVIOUS
      <4>5. /\ Len(base) = Len(r.input) + Len(a) /\ Len(r.input) \in Nat /\ Len(a) \in Nat
            /\ \A g \in 1 .. Len(r.input) : base[g] = r.input[g]
            /\ \A g \in 1 .. Len(a) : base[Len(r.input) + g] = a[g]
        BY <1>3, <1>5, JoinIs
      <4> HIDE DEF base
      <4>6. CASE h <= Len(r.input)
        <5>1. h \in 1 .. Len(r.input)
          BY <4>5, <4>6
        <5>2. base[h] = r.input[h]
          BY <4>5, <5>1
        <5>3. r.input[h].id < c + 1
          BY <4>2, <5>1
        <5> QED BY <5>2, <5>3
      <4>7. CASE ~(h <= Len(r.input))
        <5>1. h - Len(r.input) \in 1 .. Len(a) /\ Len(r.input) + (h - Len(r.input)) = h
          BY <4>5, <4>7
        <5>2. base[Len(r.input) + (h - Len(r.input))] = a[h - Len(r.input)]
          BY <4>5, <5>1
        <5> QED BY <4>3, <5>1, <5>2
      <4> QED BY <4>6, <4>7
    <3>4. ~b => cur <= Len(r.prefix) + Len(base)
      <4>1. Len(base) = Len(r.input) + Len(a) /\ Len(r.input) \in Nat /\ Len(a) \in Nat
        BY <1>3, <1>5, JoinIs
      <4>2. Len(r.prefix \o r.input) = Len(r.prefix) + Len(r.input) /\ Len(r.prefix) \in Nat
        BY <1>3, JoinIs
      <4>3. ~b => cur <= Len(r.prefix \o r.input)
        BY DEF RunSound, Marked
      <4>4. cur \in Nat
        OBVIOUS
      <4>5. ~b => cur <= Len(r.prefix) + Len(r.input)
        BY <4>2, <4>3
      <4>6. Len(r.input) <= Len(base)
        BY <4>1
      <4> HIDE DEF base
      <4>7. Len(base) \in Nat /\ Len(r.input) \in Nat /\ Len(r.prefix) \in Nat
        BY <4>1, <4>2
      <4> DEFINE lb == Len(base)
                 li == Len(r.input)
                 lp == Len(r.prefix)
      <4>8. lb \in Nat /\ li \in Nat /\ lp \in Nat /\ li <= lb /\ (~b => cur <= lp + li)
        BY <4>5, <4>6, <4>7
      <4> HIDE DEF lb, li, lp
      <4>9. ASSUME ~b PROVE cur <= lp + lb
        BY <4>4, <4>8, <4>9
      <4> QED BY <4>9 DEF lb, lp
    <3>5. c + 1 \in Nat /\ (c + 1) + 1 <= m
      BY <1>1, <2>2
    <3> HIDE DEF base
    <3>6. x.pc = "raised"
      BY <1>7, <1>12, <2>2
    <3>8. \A h \in 1 .. Len(r.prefix) : r.prefix[h].id < c + 1
      <4>1. r.prefix \in Seq(MadeItems(n))
        BY <1>2 DEF RunRecs
      <4>2. \A h \in 1 .. Len(r.prefix) : r.prefix[h] \in MadeItems(n)
        BY <4>1
      <4>3. \A y \in MadeItems(n) : y.id \in 0 .. n
        BY DEF MadeItems
      <4> QED BY <1>1, <4>2, <4>3
    <3>9. x.prefix = r.prefix
      BY <1>12
    <3> DEFINE c1 == c + 1
    <3>7. /\ c1 \in Nat /\ c1 + 1 <= m /\ x.input = base \o LostTail(c1)
          /\ \A h \in 1 .. Len(base) : base[h].id < c1
          /\ \A h \in 1 .. Len(r.prefix) : r.prefix[h].id < c1
      BY <3>1, <3>3, <3>5, <3>8
    <3> HIDE DEF c1
    <3> QED BY <3>1, <3>2, <3>4, <3>6, <3>7, <3>9, Zenon DEF Listed, S
  <2> QED BY <2>1, <2>2
<1>18. RunSound(x, m, cur, cov, un, b, sh)
  <2>1. x.pc # "asked"
    BY <1>7, <1>12
  <2>2. e \in Seq(MadeItems(m))
    BY <1>8 DEF S
  <2> QED BY <1>1, <1>11, <1>13, <1>14, <1>15, <1>17, <2>1, <2>2, AppendStep
<1> QED BY <1>1, <1>18 DEF m

\* One more attempt: the list is repaired, and the cap is what is left of it.
RescueRec(r, input, x) ==
    x = [r EXCEPT !.pc = "ready", !.rescues = @ + 1, !.turns = 0, !.named = FALSE,
                  !.cap = TurnsAfterRescue(r),
                  !.mode = IF @ \in {"failed", "hard"} THEN "hard" ELSE "on",
                  !.input = input]

\* A rescue keeps what the run has, and pays for its calls out of the cap;
\* where placeholders come in front of a fold, shifted says so (agent.py: the
\* rescue of a run at its limit).
LEMMA RescueStep ==
  ASSUME NEW n \in Nat, NEW r, NEW cur \in Nat, NEW cov, NEW un, NEW b, NEW sh,
         RunSound(r, n, cur, cov, un, b, sh), r.pc = "limit", NEW sh2,
         ~sh2 => /\ ~sh
                 /\ ~Shifts(r.fold, r.input, RepairDanglingToolCalls(InjectSyntheticReasoning(r.input)))
                 /\ ~Shifts(cur - Len(r.prefix), r.input, RepairDanglingToolCalls(InjectSyntheticReasoning(r.input))),
         NEW x, RescueRec(r, RepairDanglingToolCalls(InjectSyntheticReasoning(r.input)), x)
  PROVE  RunSound(x, n, cur, cov, un, b, sh2)
<1> DEFINE S == MadeItems(n)
           u == r.prefix
           s == r.input
           t == InjectSyntheticReasoning(s)
           cap == TurnsAfterRescue(r)
           mode == IF r.mode \in {"failed", "hard"} THEN "hard" ELSE "on"
           k == r.rescues + 1
<1>1. r \in RunRecs(n) /\ CallsSound(r) /\ Marked(u \o s, cur, cov \cup un, b, sh)
      /\ FoldSound(r, un, b) /\ PairsSound(r, b, sh)
  BY DEF RunSound
<1>2. u \in Seq(S) /\ s \in Seq(S) /\ r.fold \in Nat /\ k \in Nat /\ r.mode \in {"on", "off", "failed", "hard"}
  BY <1>1 DEF RunRecs
<1>3. t \in Seq(S) /\ \E g : Spread(g, s, t)
  <2> HIDE DEF s
  <2> QED BY <1>2, InjectSpreads
<1>4. PICK g : Spread(g, s, t)
  BY <1>3
<1>5. Replied(u \o s)
  BY DEF RunSound, Listed
<1> HIDE DEF S, u, s, t
<1>6. Replied(u \o t)
  BY <1>2, <1>3, <1>4, <1>5, SpreadReplied
<1>7. Replied(t)
  BY <1>2, <1>3, <1>6, RepliedBehind
<1>8. RepairDanglingToolCalls(t) = t
  BY <1>3, <1>7, RepairSame DEF S
<1>9. RescueRec(r, t, x) /\ (~sh2 => ~sh /\ ~Shifts(r.fold, s, t) /\ ~Shifts(cur - Len(u), s, t))
  BY <1>8 DEF t, s, u
<1>10. /\ r.turns \in Nat /\ r.cap \in Nat /\ r.calls \in Nat /\ r.pin \in BOOLEAN /\ MaxTurns \in Nat
       /\ r.turns <= r.cap /\ r.cap \in 1 .. MaxTurns
       /\ (r.calls + (r.cap - r.turns)) + 1 <= MaxTurns + (IF r.pin THEN 0 ELSE 1)
  BY <1>1, ConvConstants DEF RunRecs, CallsSound
<1>11. cap \in 1 .. MaxTurns /\ r.calls + cap <= MaxTurns + (IF r.pin THEN 0 ELSE 1)
  <2>1. CASE r.cap > r.calls
    <3>1. cap = r.cap - r.calls
      BY <2>1 DEF TurnsAfterRescue
    <3> DEFINE cp == r.cap
               cl == r.calls
    <3>2. cp \in 1 .. MaxTurns /\ cl \in Nat /\ cp > cl /\ MaxTurns \in Nat /\ cap = cp - cl
      BY <1>10, <2>1, <3>1
    <3> HIDE DEF cap, cp, cl
    <3>3. cap \in 1 .. MaxTurns /\ cl + cap <= MaxTurns
      BY <3>2
    <3>4. r.calls + cap <= MaxTurns
      BY <3>3 DEF cl
    <3>5. r.calls + cap \in Int
      BY <1>10, <3>3
    <3> QED BY <1>10, <3>3, <3>4, <3>5
  <2>2. CASE ~(r.cap > r.calls)
    <3>1. cap = 1
      BY <2>2 DEF TurnsAfterRescue
    <3> HIDE DEF cap
    <3> QED BY <1>10, <2>2, <3>1
  <2> QED BY <2>1, <2>2
<1>12. x = [r EXCEPT !.pc = "ready", !.rescues = k, !.turns = 0, !.named = FALSE, !.cap = cap, !.mode = mode, !.input = t]
  BY <1>9 DEF RescueRec
<1>13. mode \in {"on", "off", "failed", "hard"} /\ (r.mode \in {"on", "off"} <=> mode \in {"on", "off"})
  BY <1>2
<1> HIDE DEF cap, mode, k
<1>14. x \in RunRecs(n)
  <2>1. t \in Seq(MadeItems(n)) /\ cap \in Nat
    BY <1>3, <1>11 DEF S
  <2> QED BY <1>1, <1>2, <1>12, <1>13, <2>1 DEF RunRecs
<1>15. /\ x.prefix = u /\ x.input = t /\ x.prefixLen = r.prefixLen /\ x.cut = r.cut
       /\ x.mode = mode /\ x.fold = r.fold /\ x.sum = r.sum /\ x.l2 = r.l2
       /\ x.pc = "ready" /\ x.calls = r.calls /\ x.turns = 0 /\ x.cap = cap /\ x.pin = r.pin /\ x.named = FALSE
  BY <1>1, <1>12 DEF RunRecs, u
<1>16. CallsSound(x)
  <2>1. (x.calls + (x.cap - x.turns)) + 0 <= MaxTurns + (IF x.pin THEN 0 ELSE 1)
    BY <1>10, <1>11, <1>15
  <2>2. x.turns <= x.cap /\ x.cap \in 1 .. MaxTurns
    BY <1>11, <1>15
  <2>3. (IF x.pc \in {"asked", "limit"} THEN 1 ELSE 0) = 0
    BY <1>15
  <2> QED BY <1>15, <2>1, <2>2, <2>3 DEF CallsSound
<1>17. Listed(x, n, cur, b)
  BY <1>6, <1>15 DEF Listed
<1>18. r.fold <= Len(s) \/ b
  BY <1>1, <1>2 DEF FoldSound, s
<1>19. FoldSound(x, un, b)
  <2>1. SUFFICES ASSUME ~b PROVE FoldSound(x, un, b)
    BY DEF FoldSound
  <2>2. CASE r.mode \in {"on", "off"}
    <3>1. /\ r.prefixLen = Len(u) /\ r.fold <= Len(s)
          /\ Items(u) \cup Items(Upto(s, r.fold)) \subseteq (r.sum \cup r.cut) \cup un
      BY <1>1, <2>1, <2>2 DEF FoldSound, u, s
    <3>2. r.fold \in 0 .. Len(s)
      BY <1>2, <3>1
    <3>3. r.fold <= Len(t) /\ Items(Upto(t, r.fold)) \subseteq Items(Upto(s, r.fold))
      BY <1>2, <1>3, <1>4, <3>2, SpreadItems
    <3> QED BY <1>13, <1>15, <2>2, <3>1, <3>3 DEF FoldSound
  <2>3. CASE r.mode \notin {"on", "off"}
    <3>1. r.fold = 0 /\ r.l2 = FALSE
      BY <1>1, <2>1, <2>3 DEF FoldSound
    <3> QED BY <1>13, <1>15, <2>3, <3>1 DEF FoldSound
  <2> QED BY <2>2, <2>3
<1>20. PairsSound(x, b, sh2)
  <2>1. SUFFICES ASSUME ~b, ~sh2 PROVE PairsSound(x, b, sh2)
    BY DEF PairsSound
  <2>2. Paired(0, u) /\ Paired(0, s) /\ Paired(r.fold, s) /\ ~Shifts(r.fold, s, t)
    BY <1>1, <1>9, <2>1 DEF PairsSound, u, s
  <2>3. r.fold \in 0 .. Len(s) /\ 0 \in 0 .. Len(s)
    BY <1>2, <1>18, <2>1
  <2>4. Paired(0, t)
    BY <1>2, <1>3, <1>4, <2>2, <2>3, SpreadPaired
  <2>5. Upto(t, r.fold) = Upto(s, r.fold)
    BY <2>2 DEF Shifts
  <2>6. Paired(r.fold, t)
    BY <1>2, <1>3, <1>4, <2>2, <2>3, <2>5, SpreadPaired
  <2> QED BY <1>15, <2>2, <2>4, <2>6 DEF PairsSound
<1>21. Marked(x.prefix \o x.input, cur, cov \cup un, b, sh2)
  <2>1. ~b /\ ~sh => Paired(0, u) /\ Paired(0, s)
    BY <1>1 DEF PairsSound, u, s
  <2>2. ~sh2 => ~sh /\ ~Shifts(cur - Len(u), s, t)
    BY <1>9
  <2>3. Marked(u \o s, cur, cov \cup un, b, sh)
    BY <1>1
  <2> DEFINE cv == cov \cup un
  <2> HIDE DEF cv
  <2>4. Marked(u \o t, cur, cv, b, sh2)
    BY <1>2, <1>3, <1>4, <2>1, <2>2, <2>3, MarkedSpread DEF cv
  <2> QED BY <1>15, <2>4 DEF cv
<1> QED BY <1>14, <1>16, <1>17, <1>19, <1>20, <1>21 DEF RunSound

-----------------------------------------------------------------------------
(* What a run starts from.                                                  *)

\* What is in front of n is in front of f, or between the two.
LEMMA UptoParts ==
  ASSUME NEW S, NEW s \in Seq(S), NEW f \in 0 .. Len(s), NEW n \in 0 .. Len(s)
  PROVE  Items(Upto(s, n)) \subseteq Items(Upto(s, f)) \cup Items(SubSeq(s, f + 1, n))
<1> DEFINE p == SubSeq(s, f + 1, n)
<1>1. SUFFICES ASSUME NEW m \in Items(Upto(s, n)) PROVE m \in Items(Upto(s, f)) \cup Items(p)
  BY DEF Items
<1>2. m.kind # "think" /\ \E i \in 1 .. n : m = s[i]
  BY UptoItems
<1>3. PICK i \in 1 .. n : m = s[i]
  BY <1>2
<1>4. CASE i <= f
  <2>1. i \in 1 .. f
    BY <1>4
  <2>2. m \in Items(Upto(s, f))
    BY <1>2, <1>3, <2>1, UptoItems
  <2> QED BY <2>2
<1>5. CASE ~(i <= f)
  <2> DEFINE j == i - f
  <2>1. j \in 1 .. n - f /\ f + j = i
    BY <1>5
  <2>2. p \in Seq(S) /\ DOMAIN p = 1 .. n - f /\ p[j] = s[i]
    BY <1>5, <2>1
  <2> HIDE DEF p, j
  <2>3. m \in ToSet(p)
    BY <1>3, <2>1, <2>2 DEF ToSet
  <2> QED BY <1>2, <2>3 DEF Items, p
<1> QED BY <1>4, <1>5

\* A part of a list holds items.
LEMMA PartsType ==
  ASSUME NEW n \in Nat, NEW s \in Seq(MadeItems(n)), NEW f \in 0 .. Len(s), NEW k \in 0 .. Len(s)
  PROVE  Items(SubSeq(s, f + 1, k)) \in SUBSET AllItems
<1> DEFINE S == MadeItems(n)
           p == SubSeq(s, f + 1, k)
<1>1. S \subseteq AllItems
  BY DEF MadeItems, AllItems
<1> HIDE DEF S
<1>0. s \in Seq(S)
  BY DEF S
<1>2. p \in Seq(S)
  BY <1>0
<1> HIDE DEF p
<1>3. ToSet(p) \subseteq S
  BY <1>2 DEF ToSet
<1>4. Items(p) \subseteq ToSet(p)
  BY DEF Items
<1> QED BY <1>1, <1>3, <1>4 DEF p

\* A cut of the history, and the summary state that goes with it.
CutAt(k, s, c, v) ==
    /\ k \in 0 .. Len(hist) /\ s = From(hist, k) /\ c \in Nat /\ v \in SUBSET AllItems
    /\ Marked(hist, c, v \cup unseen, blind, shifted)
    /\ ~blind /\ ~shifted => Paired(k, hist)

\* A boundary further on is a cut of the history as well.
LEMMA CutFurther ==
  ASSUME ConvInv, NEW k, NEW s, NEW c, NEW v, CutAt(k, s, c, v), NEW n \in Boundaries(s)
  PROVE  CutAt(k + n, From(s, n), c, v)
<1> DEFINE S == MadeItems(made)
<1>1. hist \in Seq(S) /\ k \in 0 .. Len(hist) /\ s = From(hist, k)
  BY DEF ConvInv, ConvType, CutAt
<1> HIDE DEF S
<1>2. s \in Seq(S) /\ Len(s) = Len(hist) - k /\ Len(hist) \in Nat
  BY <1>1, FromIs
<1>3. n \in Places(s) /\ n \in 0 .. Len(s)
  BY <1>2, PlacesAre
<1>4. n \in 0 .. Len(hist) - k /\ k + n \in 0 .. Len(hist) /\ n \in Nat /\ k \in Nat
  BY <1>1, <1>2, <1>3
<1>5. From(s, n) = From(hist, k + n)
  <2>1. /\ From(s, n) \in Seq(S) /\ Len(From(s, n)) = Len(s) - n
        /\ \A i \in 1 .. Len(s) - n : From(s, n)[i] = s[n + i]
    BY <1>2, <1>3, FromIs
  <2>2. /\ From(hist, k + n) \in Seq(S) /\ Len(From(hist, k + n)) = Len(hist) - (k + n)
        /\ \A i \in 1 .. Len(hist) - (k + n) : From(hist, k + n)[i] = hist[(k + n) + i]
    BY <1>1, <1>4, FromIs
  <2>3. \A i \in 1 .. Len(hist) - k : s[i] = hist[k + i]
    BY <1>1, FromIs
  <2>4. ASSUME NEW i \in 1 .. Len(s) - n PROVE From(s, n)[i] = From(hist, k + n)[i]
    <3>1. n + i \in 1 .. Len(hist) - k /\ i \in 1 .. Len(hist) - (k + n) /\ k + (n + i) = (k + n) + i
      BY <1>2, <1>3, <1>4
    <3>2. From(s, n)[i] = s[n + i] /\ s[n + i] = hist[k + (n + i)]
      BY <2>1, <2>3, <3>1
    <3>3. From(hist, k + n)[i] = hist[(k + n) + i]
      BY <2>2, <3>1
    <3> QED BY <3>1, <3>2, <3>3
  <2>5. Len(From(s, n)) = Len(From(hist, k + n))
    <3> DEFINE ls == Len(s)
               lh == Len(hist)
    <3>1. ls = lh - k /\ lh \in Nat /\ k \in Nat /\ n \in Nat
      BY <1>2, <1>4
    <3>2. Len(From(s, n)) = ls - n /\ Len(From(hist, k + n)) = lh - (k + n)
      BY <2>1, <2>2
    <3> HIDE DEF ls, lh
    <3>3. ls - n = lh - (k + n)
      BY <3>1
    <3> QED BY <3>2, <3>3
  <2>6. Len(From(s, n)) = Len(s) - n
    BY <2>1
  <2> QED BY <2>1, <2>2, <2>4, <2>5, <2>6, SameList
<1>6. ASSUME ~blind, ~shifted PROVE Paired(k + n, hist)
  <2>1. Paired(k, hist)
    BY <1>6 DEF CutAt
  <2>2. 0 \in 0 .. Len(hist) - k /\ k + 0 = k
    BY <1>1, <1>2
  <2>3. Paired(0, From(hist, k)) <=> Paired(k + 0, hist)
    BY <1>1, <2>2, PairedRest
  <2>4. Paired(0, s)
    BY <1>1, <2>1, <2>2, <2>3
  <2>5. Paired(n, s)
    BY <1>2, <1>3, <2>4, PlacesPaired
  <2>6. Paired(n, From(hist, k)) <=> Paired(k + n, hist)
    BY <1>1, <1>4, PairedRest
  <2> QED BY <1>1, <2>5, <2>6
<1>7. c \in Nat /\ v \in SUBSET AllItems /\ Marked(hist, c, v \cup unseen, blind, shifted)
  BY DEF CutAt
<1> QED BY <1>4, <1>5, <1>6, <1>7 DEF CutAt

\* All of the history, or what is left of it behind the cursor.
LEMMA CutPlain ==
  ASSUME ConvInv, NEW F, F = IF cursor > Len(hist) THEN 0 ELSE cursor
  PROVE  CutAt(0, hist, cursor, covered) /\ CutAt(F, From(hist, F), cursor, covered)
<1>1. /\ hist \in Seq(MadeItems(made)) /\ Len(hist) \in Nat /\ cursor \in Nat /\ covered \in SUBSET AllItems
      /\ Marked(hist, cursor, covered \cup unseen, blind, shifted)
  BY DEF ConvInv, ConvType
<1>2. F \in 0 .. Len(hist) /\ 0 \in 0 .. Len(hist) /\ (cursor <= Len(hist) => F = cursor)
  BY <1>1
<1>3. From(hist, 0) = hist
  BY <1>1 DEF From
<1>4. ~blind /\ ~shifted => Paired(0, hist) /\ Paired(F, hist)
  BY <1>1, <1>2 DEF Marked
<1> QED BY <1>1, <1>2, <1>3, <1>4 DEF CutAt

\* A fold: what it adds to the summary is what it leaves out.
LEMMA CutFold ==
  ASSUME ConvInv, NEW F, F = (IF cursor > Len(hist) THEN 0 ELSE cursor), NEW n \in FoldCuts(hist, F)
  PROVE  CutAt(n, From(hist, n), n, covered \cup Items(SubSeq(hist, F + 1, n)))
<1> DEFINE add == Items(SubSeq(hist, F + 1, n))
<1>1. /\ hist \in Seq(MadeItems(made)) /\ made \in Nat /\ Len(hist) \in Nat /\ cursor \in Nat /\ covered \in SUBSET AllItems
      /\ Marked(hist, cursor, covered \cup unseen, blind, shifted)
  BY DEF ConvInv, ConvType
<1>2. F \in 0 .. Len(hist) /\ (cursor <= Len(hist) => F = cursor)
  BY <1>1
<1>3. n \in Places(hist) /\ n \in 0 .. Len(hist)
  BY <1>1, PlacesAre
<1>4. add \in SUBSET AllItems
  BY <1>1, <1>2, <1>3, PartsType
<1>5. Items(Upto(hist, n)) \subseteq Items(Upto(hist, F)) \cup add
  BY <1>1, <1>2, <1>3, UptoParts
<1> HIDE DEF add
<1>6. ASSUME ~blind PROVE n <= Len(hist) /\ Items(Upto(hist, n)) \subseteq (covered \cup add) \cup unseen
  <2>1. F = cursor /\ Items(Upto(hist, cursor)) \subseteq covered \cup unseen
    BY <1>1, <1>2, <1>6 DEF Marked
  <2> QED BY <1>3, <1>5, <2>1
<1>7. ASSUME ~blind, ~shifted PROVE Paired(0, hist) /\ Paired(n, hist)
  <2>1. Paired(0, hist)
    BY <1>1, <1>7 DEF Marked
  <2> QED BY <1>1, <1>3, <2>1, PlacesPaired
<1>8. Marked(hist, n, (covered \cup add) \cup unseen, blind, shifted)
  BY <1>6, <1>7 DEF Marked
<1>9. n \in Nat /\ covered \cup add \in SUBSET AllItems
  BY <1>1, <1>3, <1>4
<1> QED BY <1>3, <1>7, <1>8, <1>9 DEF CutAt, add

\* What a run starts from: all of the history, what is left of it, or a fold
\* (context_compaction.compact_for_run).
LEMMA CompactForms ==
  ASSUME NEW c \in CompactForRun, NEW F, F = IF cursor > Len(hist) THEN 0 ELSE cursor
  PROVE  \/ c.sent = hist /\ c.cursor = cursor /\ c.covered = covered
         \/ /\ c.sent \in {From(hist, F)} \cup Tails(From(hist, F))
            /\ c.cursor = cursor /\ c.covered = covered
         \/ \E n \in FoldCuts(hist, F) :
              /\ c.sent \in {From(hist, n)} \cup Tails(From(hist, n))
              /\ c.cursor = n /\ c.covered = covered \cup Items(SubSeq(hist, F + 1, n))
<1> DEFINE G == IF cursor > Len(hist) THEN 0 ELSE cursor
           Res(s, f, v) == [sent |-> s, cursor |-> f, covered |-> v]
           folds == {[at |-> n, of |-> covered \cup Items(SubSeq(hist, G + 1, n))] : n \in FoldCuts(hist, G)}
           fits == {Res(From(hist, G), cursor, covered)}
           folded == {Res(From(hist, d.at), d.at, d.of) : d \in folds}
<1>1. CompactForRun = {Res(hist, cursor, covered)} \cup fits \cup folded
                        \cup UNION {{Res(t, r.cursor, r.covered) : t \in Tails(r.sent)} : r \in fits \cup folded}
  BY Zenon DEF CompactForRun
<1> HIDE DEF fits, folded
<1>2. \/ c = Res(hist, cursor, covered)
      \/ c \in fits \cup folded
      \/ \E r \in fits \cup folded : \E t \in Tails(r.sent) : c = Res(t, r.cursor, r.covered)
  BY <1>1, Zenon
<1>3. \A r \in fits : r.sent = From(hist, G) /\ r.cursor = cursor /\ r.covered = covered
  BY DEF fits
<1>4. ASSUME NEW r \in folded
      PROVE  \E n \in FoldCuts(hist, G) :
               r.sent = From(hist, n) /\ r.cursor = n /\ r.covered = covered \cup Items(SubSeq(hist, G + 1, n))
  <2>1. PICK d \in folds : r = Res(From(hist, d.at), d.at, d.of)
    BY <1>4, Zenon DEF folded
  <2>2. PICK n \in FoldCuts(hist, G) : d = [at |-> n, of |-> covered \cup Items(SubSeq(hist, G + 1, n))]
    BY <2>1, Zenon
  <2>3. d.at = n /\ d.of = covered \cup Items(SubSeq(hist, G + 1, n))
    BY <2>2, Zenon
  <2>4. r.sent = From(hist, d.at) /\ r.cursor = d.at /\ r.covered = d.of
    BY <2>1
  <2> QED BY <2>3, <2>4, Zenon
<1>5. F = G
  OBVIOUS
<1> HIDE DEF G, folds
<1>6. CASE c = Res(hist, cursor, covered)
  BY <1>6
<1>7. CASE c \in fits \cup folded
  BY <1>3, <1>4, <1>5, <1>7
<1>8. CASE \E r \in fits \cup folded : \E t \in Tails(r.sent) : c = Res(t, r.cursor, r.covered)
  <2>1. PICK r \in fits \cup folded : \E t \in Tails(r.sent) : c = Res(t, r.cursor, r.covered)
    BY <1>8
  <2>2. PICK t \in Tails(r.sent) : c = Res(t, r.cursor, r.covered)
    BY <2>1
  <2>3. c.sent \in Tails(r.sent) /\ c.cursor = r.cursor /\ c.covered = r.covered
    BY <2>2
  <2>4. CASE r \in fits
    BY <1>3, <1>5, <2>3, <2>4
  <2>5. CASE r \in folded
    BY <1>4, <1>5, <2>3, <2>5
  <2> QED BY <2>4, <2>5
<1> QED BY <1>2, <1>6, <1>7, <1>8

\* Each of these is a cut of the history, with a summary of what it leaves out.
LEMMA CompactSound ==
  ASSUME ConvInv, NEW c \in CompactForRun
  PROVE  \E k \in 0 .. Len(hist) : CutAt(k, c.sent, c.cursor, c.covered)
<1> DEFINE F == IF cursor > Len(hist) THEN 0 ELSE cursor
<1>1. \A k, s, x, v : CutAt(k, s, x, v) => k \in 0 .. Len(hist)
  BY DEF CutAt
<1>2. ASSUME NEW k, NEW s, NEW x, NEW v, CutAt(k, s, x, v), NEW t \in {s} \cup Tails(s)
      PROVE  \E j \in 0 .. Len(hist) : CutAt(j, t, x, v)
  <2>1. CASE t = s
    BY <1>1, <1>2, <2>1
  <2>2. CASE t # s
    <3>1. PICK n \in Boundaries(s) : t = From(s, n)
      BY <1>2, <2>2, Zenon DEF Tails
    <3>2. CutAt(k + n, t, x, v)
      BY <1>2, <3>1, CutFurther
    <3> QED BY <1>1, <3>2
  <2> QED BY <2>1, <2>2
<1>3. CutAt(0, hist, cursor, covered) /\ CutAt(F, From(hist, F), cursor, covered)
  BY CutPlain
<1>4. \A n \in FoldCuts(hist, F) : CutAt(n, From(hist, n), n, covered \cup Items(SubSeq(hist, F + 1, n)))
  BY CutFold
<1>5. \/ c.sent = hist /\ c.cursor = cursor /\ c.covered = covered
      \/ /\ c.sent \in {From(hist, F)} \cup Tails(From(hist, F))
         /\ c.cursor = cursor /\ c.covered = covered
      \/ \E n \in FoldCuts(hist, F) :
           /\ c.sent \in {From(hist, n)} \cup Tails(From(hist, n))
           /\ c.cursor = n /\ c.covered = covered \cup Items(SubSeq(hist, F + 1, n))
  BY CompactForms
<1> HIDE DEF F
<1>6. CASE c.sent = hist /\ c.cursor = cursor /\ c.covered = covered
  BY <1>1, <1>3, <1>6
<1>7. CASE /\ c.sent \in {From(hist, F)} \cup Tails(From(hist, F))
           /\ c.cursor = cursor /\ c.covered = covered
  BY <1>2, <1>3, <1>7
<1>8. CASE \E n \in FoldCuts(hist, F) :
             /\ c.sent \in {From(hist, n)} \cup Tails(From(hist, n))
             /\ c.cursor = n /\ c.covered = covered \cup Items(SubSeq(hist, F + 1, n))
  <2>1. PICK n \in FoldCuts(hist, F) :
             /\ c.sent \in {From(hist, n)} \cup Tails(From(hist, n))
             /\ c.cursor = n /\ c.covered = covered \cup Items(SubSeq(hist, F + 1, n))
    BY <1>8
  <2>2. CutAt(n, From(hist, n), c.cursor, c.covered)
    BY <1>4, <2>1
  <2> QED BY <1>2, <2>1, <2>2
<1> QED BY <1>5, <1>6, <1>7, <1>8

\* The run RunStart makes, and what it is made from.
StartRec(q, mode, pre, input, dropped, sum, cut, x) ==
    x = [pc |-> "ready", mode |-> mode, prefix |-> pre,
         input |-> input, sent |-> <<>>,
         prefixLen |-> IF mode = "failed" THEN 0 ELSE dropped,
         fold |-> 0, sum |-> IF mode = "failed" THEN {} ELSE sum,
         l2 |-> FALSE, fails |-> 0, turns |-> 0, cap |-> MaxTurns,
         calls |-> 0, rescues |-> 0, pin |-> q, said |-> FALSE, named |-> FALSE,
         cut |-> cut]

StartFrom(m, pre, s, cur, sum, un, b, sh, sh2, cut, mode, q, x) ==
    /\ m \in Nat /\ pre \in Seq(MadeItems(m)) /\ s \in Seq(MadeItems(m)) /\ cur \in Nat
    /\ sum \in SUBSET AllItems /\ cut \in SUBSET AllItems /\ mode \in {"on", "off", "failed"} /\ q \in BOOLEAN
    /\ Replied(pre \o s) /\ Marked(pre \o s, cur, sum \cup un, b, sh)
    /\ ~b /\ ~sh => Paired(0, pre) /\ Paired(0, s)
    /\ ~sh2 => ~sh /\ ~Shifts(cur - Len(pre), s, InjectSyntheticReasoning(s))
    /\ ~b => Items(pre) \subseteq (sum \cup cut) \cup un
    /\ mode = "off" => Items(pre) = {}
    /\ StartRec(q, mode, pre, InjectSyntheticReasoning(s), Len(pre), sum, cut, x)

\* A run that starts from such a cut is sound.
LEMMA StartStep ==
  ASSUME NEW m, NEW pre, NEW s, NEW cur, NEW sum, NEW un, NEW b, NEW sh, NEW sh2, NEW cut, NEW mode, NEW q, NEW x,
         StartFrom(m, pre, s, cur, sum, un, b, sh, sh2, cut, mode, q, x)
  PROVE  RunSound(x, m, cur, sum, un, b, sh2)
<1> DEFINE S == MadeItems(m)
           t == InjectSyntheticReasoning(s)
           sum2 == IF mode = "failed" THEN {} ELSE sum
           len == IF mode = "failed" THEN 0 ELSE Len(pre)
           nil == <<>>
<1>h. /\ m \in Nat /\ pre \in Seq(S) /\ s \in Seq(S) /\ cur \in Nat
      /\ sum \in SUBSET AllItems /\ cut \in SUBSET AllItems /\ mode \in {"on", "off", "failed"} /\ q \in BOOLEAN
      /\ Replied(pre \o s) /\ Marked(pre \o s, cur, sum \cup un, b, sh)
  BY DEF StartFrom
<1>i. /\ ~b /\ ~sh => Paired(0, pre) /\ Paired(0, s)
      /\ ~sh2 => ~sh /\ ~Shifts(cur - Len(pre), s, t)
      /\ ~b => Items(pre) \subseteq (sum \cup cut) \cup un
      /\ mode = "off" => Items(pre) = {}
  BY DEF StartFrom
<1>j. StartRec(q, mode, pre, t, Len(pre), sum, cut, x)
  BY DEF StartFrom
<1>1. t \in Seq(S) /\ \E g : Spread(g, s, t)
  BY <1>h, InjectSpreads
<1>2. PICK g : Spread(g, s, t)
  BY <1>1
<1>3. pre \in Seq(S) /\ s \in Seq(S) /\ nil \in Seq(S) /\ Len(pre) \in Nat /\ len \in Nat /\ sum2 \in SUBSET AllItems
  BY <1>h
<1>4. MaxTurns \in Nat /\ MaxTurns \in 1 .. MaxTurns
  BY ConvConstants
<1>5. x = [pc |-> "ready", mode |-> mode, prefix |-> pre, input |-> t, sent |-> nil, prefixLen |-> len,
           fold |-> 0, sum |-> sum2, l2 |-> FALSE, fails |-> 0, turns |-> 0, cap |-> MaxTurns,
           calls |-> 0, rescues |-> 0, pin |-> q, said |-> FALSE, named |-> FALSE, cut |-> cut]
  BY <1>j DEF StartRec
<1> HIDE DEF S, t, nil
<1>6. x \in RunRecs(m)
  <2> HIDE DEF len, sum2
  <2>1. t \in Seq(MadeItems(m)) /\ nil \in Seq(MadeItems(m))
    BY <1>1, <1>3 DEF S
  <2>2. pre \in Seq(MadeItems(m)) /\ mode \in {"on", "off", "failed", "hard"} /\ q \in BOOLEAN /\ cut \in SUBSET AllItems
    BY <1>h DEF S
  <2>3. len \in Nat /\ sum2 \in SUBSET AllItems /\ MaxTurns \in Nat
    BY <1>3, <1>4
  <2> QED BY <1>5, <2>1, <2>2, <2>3 DEF RunRecs
<1>7. /\ x.prefix = pre /\ x.input = t /\ x.prefixLen = len /\ x.cut = cut
      /\ x.mode = mode /\ x.fold = 0 /\ x.sum = sum2 /\ x.l2 = FALSE
      /\ x.pc = "ready" /\ x.calls = 0 /\ x.turns = 0 /\ x.cap = MaxTurns /\ x.pin = q /\ x.named = FALSE
  <2> HIDE DEF len, sum2
  <2> QED BY <1>5
<1>8. Listed(x, m, cur, b)
  <2>1. Replied(pre \o t)
    BY <1>h, <1>1, <1>2, <1>3, SpreadReplied
  <2> QED BY <1>7, <2>1 DEF Listed
<1>9. Marked(x.prefix \o x.input, cur, sum \cup un, b, sh2)
  <2> DEFINE cv == sum \cup un
  <2>0. Marked(pre \o s, cur, cv, b, sh) /\ (~b /\ ~sh => Paired(0, pre) /\ Paired(0, s)) /\ cur \in Nat
    BY <1>h, <1>i
  <2>1. ~sh2 => ~sh /\ ~Shifts(cur - Len(pre), s, t)
    BY <1>i
  <2> HIDE DEF cv
  <2>2. Marked(pre \o t, cur, cv, b, sh2)
    BY <1>1, <1>2, <1>3, <2>0, <2>1, MarkedSpread
  <2> QED BY <1>7, <2>2 DEF cv
<1>10. Items(Upto(t, 0)) = {}
  <2>1. 0 \in 0 .. Len(t)
    BY <1>1
  <2>2. \A y : y \notin Items(Upto(t, 0))
    BY <1>1, <2>1, UptoItems
  <2> QED BY <2>2
<1>11. FoldSound(x, un, b)
  <2>1. SUFFICES ASSUME ~b PROVE FoldSound(x, un, b)
    BY DEF FoldSound
  <2>2. CASE mode = "failed"
    BY <1>7, <2>2 DEF FoldSound
  <2>3. CASE mode # "failed"
    <3>1. len = Len(pre) /\ sum2 = sum /\ mode \in {"on", "off"} /\ Len(t) \in Nat
      BY <1>h, <1>1, <2>3
    <3> HIDE DEF len, sum2
    <3>2. x.prefixLen = Len(x.prefix) /\ x.fold <= Len(x.input) /\ x.mode \in {"on", "off"}
      BY <1>7, <3>1
    <3>3. Items(x.prefix) \cup Items(Upto(x.input, x.fold)) \subseteq (x.sum \cup x.cut) \cup un
      BY <1>i, <1>7, <1>10, <2>1, <3>1
    <3> QED BY <3>2, <3>3 DEF FoldSound
  <2> QED BY <2>2, <2>3
<1>12. PairsSound(x, b, sh2)
  <2>1. SUFFICES ASSUME ~b, ~sh2 PROVE PairsSound(x, b, sh2)
    BY DEF PairsSound
  <2>2. Paired(0, pre) /\ Paired(0, s) /\ 0 \in 0 .. Len(s)
    BY <1>i, <1>3, <2>1
  <2>3. Paired(0, t)
    BY <1>1, <1>2, <1>3, <2>2, SpreadPaired
  <2> QED BY <1>7, <2>2, <2>3 DEF PairsSound
<1>13. CallsSound(x)
  <2>1. (x.calls + (x.cap - x.turns)) + 0 <= MaxTurns + (IF x.pin THEN 0 ELSE 1)
    BY <1>4, <1>7
  <2>2. (IF x.pc \in {"asked", "limit"} THEN 1 ELSE 0) = 0
    BY <1>7
  <2> QED BY <1>4, <1>7, <2>1, <2>2 DEF CallsSound
<1> QED BY <1>6, <1>8, <1>9, <1>11, <1>12, <1>13 DEF RunSound

\* Starting a run keeps the invariant (agent.AgentRunner.run, from the first
\* line to the first call).
LEMMA StartKeeps ==
  ASSUME ConvInv, RunStart
  PROVE  ConvInv'
<1>0. PICK c \in CompactForRun, q \in BOOLEAN, mode \in {"on", "off", "failed"} :
        LET dropped == Len(hist) - Len(c.sent)
            F == IF c.cursor > Len(hist) THEN 0 ELSE c.cursor
            ask == IF q THEN <<It("user", made + 1)>> ELSE <<>>
            input == InjectSyntheticReasoning(c.sent \o ask)
        IN /\ q \/ hist # <<>>
           /\ mode = "off" => c.sent = hist /\ c.cursor = cursor
           /\ cursor' = c.cursor /\ covered' = c.covered
           /\ run' = [pc |-> "ready", mode |-> mode, prefix |-> Upto(hist, dropped),
                      input |-> input, sent |-> <<>>,
                      prefixLen |-> IF mode = "failed" THEN 0 ELSE dropped,
                      fold |-> 0, sum |-> IF mode = "failed" THEN {} ELSE c.covered,
                      l2 |-> FALSE, fails |-> 0, turns |-> 0, cap |-> MaxTurns,
                      calls |-> 0, rescues |-> 0, pin |-> q, said |-> FALSE, named |-> FALSE,
                      cut |-> Items(SubSeq(hist, F + 1, dropped))]
           /\ made' = IF q THEN made + 1 ELSE made
           /\ shifted' = (shifted \/ Shifts(c.cursor - dropped, c.sent \o ask, input))
  <2>1. RunStart
    OBVIOUS
  <2> QED BY <2>1, Zenon DEF RunStart
<1>1. LET dropped == Len(hist) - Len(c.sent)
          F == IF c.cursor > Len(hist) THEN 0 ELSE c.cursor
          ask == IF q THEN <<It("user", made + 1)>> ELSE <<>>
          input == InjectSyntheticReasoning(c.sent \o ask)
      IN /\ mode = "off" => c.sent = hist /\ c.cursor = cursor
         /\ cursor' = c.cursor /\ covered' = c.covered
         /\ StartRec(q, mode, Upto(hist, dropped), input, dropped, c.covered,
                     Items(SubSeq(hist, F + 1, dropped)), run')
         /\ made' = IF q THEN made + 1 ELSE made
         /\ shifted' = (shifted \/ Shifts(c.cursor - dropped, c.sent \o ask, input))
  BY <1>0, Zenon DEF StartRec
<1>2. runs' = runs + 1 /\ UNCHANGED <<hist, unseen, blind>>
  BY DEF RunStart
<1>3. PICK k \in 0 .. Len(hist) : CutAt(k, c.sent, c.cursor, c.covered)
  BY CompactSound
<1> DEFINE S == MadeItems(made')
           pre == Upto(hist, k)
           ask == IF q THEN <<It("user", made + 1)>> ELSE <<>>
           rest == c.sent
           s == rest \o ask
           F == IF c.cursor > Len(hist) THEN 0 ELSE c.cursor
           cut == Items(SubSeq(hist, F + 1, k))
<1>4. /\ made \in Nat /\ runs \in Nat /\ hist \in Seq(MadeItems(made)) /\ unseen \in SUBSET AllItems
      /\ blind \in BOOLEAN /\ shifted \in BOOLEAN /\ Replied(hist)
  BY DEF ConvInv, ConvType
<1>5. /\ rest = From(hist, k) /\ c.cursor \in Nat /\ c.covered \in SUBSET AllItems
      /\ Marked(hist, c.cursor, c.covered \cup unseen, blind, shifted)
      /\ ~blind /\ ~shifted => Paired(k, hist)
  BY <1>3 DEF CutAt
<1>6. made' = (IF q THEN made + 1 ELSE made) /\ made' \in Nat /\ made <= made'
  BY <1>1, <1>4
<1>7. hist \in Seq(S)
  BY <1>4, <1>6, MadeMore
<1>8. ask \in Seq(S) /\ Paired(0, ask) /\ Replied(ask)
  <2>1. CASE q
    <3>1. It("user", made + 1) \in S
      BY <1>4, <1>6, <2>1 DEF It, MadeItems, Kinds
    <3> DEFINE w == It("user", made + 1)
    <3>2. w.kind = "user"
      BY DEF It
    <3> HIDE DEF S, w
    <3>3. <<w>> \in Seq(S) /\ Len(<<w>>) = 1 /\ <<w>>[1] = w
      BY <3>1 DEF w
    <3>4. Paired(0, <<w>>) /\ Replied(<<w>>)
      BY <3>2, <3>3 DEF Paired, Replied
    <3> QED BY <2>1, <3>3, <3>4, Zenon DEF w
  <2>2. CASE ~q
    <3>1. ask = <<>>
      BY <2>2
    <3> QED BY <3>1 DEF Paired, Replied
  <2> QED BY <2>1, <2>2
<1> HIDE DEF S, ask
<1>9. pre \in Seq(S) /\ Len(pre) = k /\ pre \o From(hist, k) = hist
  BY <1>3, <1>7, CutApart
<1>10. rest \in Seq(S) /\ Len(rest) = Len(hist) - k /\ Len(hist) \in Nat
  BY <1>3, <1>5, <1>7, FromIs
<1>11. Len(hist) - Len(c.sent) = k
  BY <1>3, <1>10
<1> HIDE DEF F
<1>12. /\ mode = "off" => c.sent = hist /\ c.cursor = cursor
       /\ cursor' = c.cursor /\ covered' = c.covered
       /\ StartRec(q, mode, pre, InjectSyntheticReasoning(s), k, c.covered, cut, run')
       /\ shifted' = (shifted \/ Shifts(c.cursor - k, s, InjectSyntheticReasoning(s)))
  BY <1>1, <1>11, Zenon DEF ask, F
<1>13. cut \in SUBSET AllItems /\ (~blind => Items(pre) \subseteq (c.covered \cup cut) \cup unseen)
  <2>1. F \in 0 .. Len(hist) /\ (~blind => F = c.cursor)
    BY <1>5, <1>10 DEF F, Marked
  <2>2. cut \in SUBSET AllItems
    BY <1>3, <1>4, <2>1, PartsType
  <2>3. Items(pre) \subseteq Items(Upto(hist, F)) \cup cut
    BY <1>3, <1>7, <2>1, UptoParts
  <2>4. ~blind => Items(Upto(hist, F)) \subseteq c.covered \cup unseen
    BY <1>5, <2>1 DEF Marked
  <2> HIDE DEF cut, pre
  <2> QED BY <2>2, <2>3, <2>4
<1>14. ASSUME ~blind, ~shifted PROVE Paired(0, pre) /\ Paired(0, s)
  <2>1. Paired(0, hist) /\ Paired(k, hist)
    BY <1>5, <1>14 DEF Marked
  <2>2. Paired(0, pre)
    <3>1. Paired(0, pre \o From(hist, k))
      BY <1>9, <2>1
    <3>2. From(hist, k) \in Seq(S) /\ 0 \in 0 .. Len(pre)
      BY <1>3, <1>5, <1>9, <1>10
    <3> DEFINE y == From(hist, k)
    <3>3. y \in Seq(S) /\ Paired(0, pre \o y) /\ pre \in Seq(S) /\ 0 \in 0 .. Len(pre)
      BY <1>9, <3>1, <3>2
    <3> HIDE DEF y, pre
    <3> QED BY <3>3, PairedFront
  <2>3. Paired(0, rest)
    <3>1. 0 \in 0 .. Len(hist) - k /\ k + 0 = k
      BY <1>3, <1>10
    <3>2. Paired(0, From(hist, k)) <=> Paired(k + 0, hist)
      BY <1>3, <1>7, <3>1, PairedRest
    <3> QED BY <1>5, <2>1, <3>1, <3>2
  <2>4. 0 \in 0 .. Len(rest)
    BY <1>10
  <2> HIDE DEF rest
  <2> QED BY <1>8, <1>10, <2>2, <2>3, <2>4, PairedJoin
<1>15. pre \o s = hist \o ask /\ s \in Seq(S)
  <2> DEFINE y == From(hist, k)
             p == pre
  <2>1. y \in Seq(S) /\ p \in Seq(S) /\ ask \in Seq(S) /\ p \o y = hist /\ rest = y
    BY <1>5, <1>8, <1>9, <1>10
  <2> HIDE DEF y, p
  <2>2. p \in Seq(S) /\ y \in Seq(S) /\ ask \in Seq(S)
    BY <2>1
  <2>3. ThreeJoined(p, y, ask) /\ y \o ask \in Seq(S)
    BY <2>2, JoinThree
  <2>4. (p \o y) \o ask = p \o (y \o ask)
    BY <2>3, Zenon DEF ThreeJoined
  <2> QED BY <2>1, <2>3, <2>4 DEF p
<1>16. Replied(pre \o s) /\ Marked(pre \o s, c.cursor, c.covered \cup unseen, blind, shifted)
  <2>1. Replied(hist \o ask)
    BY <1>4, <1>7, <1>8, RepliedJoin
  <2> DEFINE cv == c.covered \cup unseen
  <2> HIDE DEF cv
  <2>2. Marked(hist, c.cursor, cv, blind, shifted)
    BY <1>5 DEF cv
  <2>3. Marked(hist \o ask, c.cursor, cv, blind, shifted)
    BY <1>5, <1>7, <1>8, <2>2, MarkedMore
  <2> QED BY <1>15, <2>1, <2>3 DEF cv
<1>17. mode = "off" => Items(pre) = {}
  <2>1. SUFFICES ASSUME mode = "off" PROVE Items(pre) = {}
    OBVIOUS
  <2>2. k = 0
    BY <1>3, <1>10, <1>12, <2>1
  <2>3. 0 \in 0 .. Len(hist)
    BY <1>10
  <2>4. \A y : y \notin Items(Upto(hist, 0))
    BY <1>7, <2>3, UptoItems
  <2> QED BY <2>2, <2>4
<1>18. RunSound(run', made', cursor', covered', unseen', blind', shifted')
  <2> DEFINE cur == c.cursor
             sum == c.covered
  <2>1. /\ pre \in Seq(MadeItems(made')) /\ s \in Seq(MadeItems(made')) /\ cur \in Nat /\ sum \in SUBSET AllItems
        /\ Replied(pre \o s) /\ Marked(pre \o s, cur, sum \cup unseen, blind, shifted)
        /\ Len(pre) = k
    BY <1>5, <1>9, <1>15, <1>16 DEF S
  <2>2. /\ StartRec(q, mode, pre, InjectSyntheticReasoning(s), Len(pre), sum, cut, run')
        /\ ~shifted' => ~shifted /\ ~Shifts(cur - Len(pre), s, InjectSyntheticReasoning(s))
        /\ cursor' = cur /\ covered' = sum /\ unseen' = unseen /\ blind' = blind
    BY <1>2, <1>9, <1>12
  <2>3. cut \in SUBSET AllItems /\ (~blind => Items(pre) \subseteq (sum \cup cut) \cup unseen)
    BY <1>13
  <2> HIDE DEF pre, s, cut, cur, sum
  <2>4. RunSound(run', made', cur, sum, unseen, blind, shifted')
    <3>1. /\ made' \in Nat /\ pre \in Seq(MadeItems(made')) /\ s \in Seq(MadeItems(made'))
          /\ cur \in Nat /\ sum \in SUBSET AllItems /\ cut \in SUBSET AllItems
      BY <1>6, <2>1, <2>3
    <3>2. Replied(pre \o s) /\ Marked(pre \o s, cur, sum \cup unseen, blind, shifted)
      BY <2>1
    <3>3. ~blind /\ ~shifted => Paired(0, pre) /\ Paired(0, s)
      BY <1>14
    <3>4. StartRec(q, mode, pre, InjectSyntheticReasoning(s), Len(pre), sum, cut, run')
      BY <2>2
    <3>5. ~shifted' => ~shifted /\ ~Shifts(cur - Len(pre), s, InjectSyntheticReasoning(s))
      BY <2>2
    <3>6. ~blind => Items(pre) \subseteq (sum \cup cut) \cup unseen
      BY <2>3
    <3>7. mode \in {"on", "off", "failed"} /\ q \in BOOLEAN /\ (mode = "off" => Items(pre) = {})
      BY <1>17 DEF pre
    <3>8. StartFrom(made', pre, s, cur, sum, unseen, blind, shifted, shifted', cut, mode, q, run')
      BY <3>1, <3>2, <3>3, <3>4, <3>5, <3>6, <3>7 DEF StartFrom
    <3> QED BY <3>8, StartStep
  <2> QED BY <2>2, <2>4
<1>19. shifted' \in BOOLEAN
  <2>1. Shifts(c.cursor - k, s, InjectSyntheticReasoning(s)) \in BOOLEAN
    BY DEF Shifts
  <2> QED BY <1>4, <1>12, <2>1
<1>20. Marked(hist', cursor', covered' \cup unseen', blind', shifted')
  BY <1>2, <1>5, <1>12, Zenon DEF Marked
<1> QED BY <1>2, <1>4, <1>5, <1>6, <1>7, <1>12, <1>18, <1>19, <1>20 DEF ConvInv, ConvType, S

-----------------------------------------------------------------------------
(* How a run ends.                                                          *)

\* A turn whose lost result was made up has its pairs and its replies.
LEMMA MendedSound ==
  ASSUME NEW n \in Nat, NEW c \in Nat, c + 1 <= n
  PROVE  /\ MendedTail(c) \in Seq(MadeItems(n)) /\ LostTail(c) \in Seq(MadeItems(n))
         /\ Paired(0, MendedTail(c)) /\ Replied(MendedTail(c))
<1> DEFINE S == MadeItems(n)
           w == MendedTail(c)
<1>1. It("call", c) \in S /\ It("call", c + 1) \in S /\ It("out", c + 1) \in S /\ It("out", c) \in S
  BY DEF It, MadeItems, Kinds
<1> HIDE DEF S
<1>2. LostTail(c) \in Seq(S)
  BY <1>1 DEF LostTail
<1>3. /\ w \in Seq(S) /\ Len(w) = 4 /\ w[1] = It("call", c) /\ w[2] = It("call", c + 1)
      /\ w[3] = It("out", c + 1) /\ w[4] = It("out", c)
  BY <1>1 DEF MendedTail
<1> HIDE DEF w
<1>4. /\ w[1].kind = "call" /\ w[2].kind = "call" /\ w[3].kind = "out" /\ w[4].kind = "out"
      /\ w[1].id = c /\ w[2].id = c + 1 /\ w[3].id = c + 1 /\ w[4].id = c
  BY <1>3 DEF It
<1>5. Chain(w, 2, 3)
  <2>1. \A k \in 2 + 1 .. 3 : k = 3 /\ k - 1 = 2
    OBVIOUS
  <2>2. w[2] = It("call", w[3].id)
    BY <1>3, <1>4
  <2>3. \A k \in 2 + 1 .. 3 : w[k].kind \in {"call", "out"} /\ (w[k - 1].kind = "out" => w[k].kind = "out")
    BY <1>4, <2>1
  <2> QED BY <2>2, <2>3 DEF Chain
<1>6. Chain(w, 1, 4)
  <2>1. \A k \in 1 + 1 .. 4 : (k = 2 /\ k - 1 = 1) \/ (k = 3 /\ k - 1 = 2) \/ (k = 4 /\ k - 1 = 3)
    OBVIOUS
  <2>2. w[1] = It("call", w[4].id)
    BY <1>3, <1>4
  <2>3. \A k \in 1 + 1 .. 4 : w[k].kind \in {"call", "out"} /\ (w[k - 1].kind = "out" => w[k].kind = "out")
    BY <1>4, <2>1
  <2> QED BY <2>2, <2>3 DEF Chain
<1>7. Paired(0, w)
  <2>1. SUFFICES ASSUME NEW p \in 0 + 1 .. Len(w), w[p].kind = "out" PROVE \E q \in 0 + 1 .. p - 1 : Chain(w, q, p)
    BY DEF Paired
  <2>2. p = 1 \/ p = 2 \/ p = 3 \/ p = 4
    BY <1>3
  <2>3. CASE p = 3
    BY <1>5, <2>3
  <2>4. CASE p = 4
    BY <1>6, <2>4
  <2> QED BY <1>4, <2>1, <2>2, <2>3, <2>4
<1>8. Replied(w)
  <2>1. SUFFICES ASSUME NEW p \in 1 .. Len(w), w[p].kind = "call"
                 PROVE  \E q \in p + 1 .. Len(w) : w[q] = It("out", w[p].id)
    BY DEF Replied
  <2>2. p = 1 \/ p = 2 \/ p = 3 \/ p = 4
    BY <1>3
  <2>3. CASE p = 1
    <3>1. w[4] = It("out", w[1].id) /\ 4 \in 1 + 1 .. Len(w)
      BY <1>3, <1>4
    <3> QED BY <2>3, <3>1
  <2>4. CASE p = 2
    <3>1. w[3] = It("out", w[2].id) /\ 3 \in 2 + 1 .. Len(w)
      BY <1>3, <1>4
    <3> QED BY <2>4, <3>1
  <2> QED BY <1>4, <2>1, <2>2, <2>3, <2>4
<1> QED BY <1>2, <1>3, <1>7, <1>8 DEF w, S

\* Where the saved cursor is, nothing is left out that no summary has.
LEMMA PersistSound ==
  ASSUME ConvType, NEW r \in RunRecs(made), NEW b, NEW sh, FoldSound(r, unseen, b), PairsSound(r, b, sh),
         Marked(r.prefix \o r.input, cursor, covered \cup unseen, b, sh)
  PROVE  /\ PersistMidrunState(r).cursor \in Nat
         /\ PersistMidrunState(r).covered \in SUBSET AllItems /\ PersistMidrunState(r).unseen \in SUBSET AllItems
         /\ Marked(r.prefix \o r.input, PersistMidrunState(r).cursor,
                   PersistMidrunState(r).covered \cup PersistMidrunState(r).unseen, b, sh)
<1> DEFINE p == PersistMidrunState(r)
           u == r.prefix
           s == r.input
           S == MadeItems(made)
           at == r.prefixLen + r.fold
<1>1. /\ u \in Seq(S) /\ s \in Seq(S) /\ r.prefixLen \in Nat /\ r.fold \in Nat /\ r.sum \in SUBSET AllItems
      /\ r.cut \in SUBSET AllItems /\ r.mode \in {"on", "off", "failed", "hard"} /\ r.l2 \in BOOLEAN
  BY DEF RunRecs
<1>2. cursor \in Nat /\ covered \in SUBSET AllItems /\ unseen \in SUBSET AllItems
  BY DEF ConvType
<1> HIDE DEF S
<1>3. CASE ~r.l2 \/ r.sum = {}
  <2>1. p = [cursor |-> cursor, covered |-> covered, unseen |-> unseen]
    BY <1>3, Zenon DEF PersistMidrunState
  <2> HIDE DEF p
  <2>2. p.cursor = cursor /\ p.covered = covered /\ p.unseen = unseen
    BY <2>1
  <2> QED BY <1>2, <2>2 DEF p
<1>4. CASE ~(~r.l2 \/ r.sum = {})
  <2>1. p = [cursor |-> at, covered |-> r.sum, unseen |-> unseen \cup r.cut]
    BY <1>4, Zenon DEF PersistMidrunState
  <2> HIDE DEF p
  <2>2. p.cursor = at /\ p.covered = r.sum /\ p.unseen = unseen \cup r.cut
    BY <2>1
  <2>3. at \in Nat
    BY <1>1
  <2>4. ASSUME ~b
        PROVE  /\ at = Len(u) + r.fold /\ r.fold \in 0 .. Len(s)
               /\ Items(u) \cup Items(Upto(s, r.fold)) \subseteq (r.sum \cup r.cut) \cup unseen
    <3>1. r.mode \in {"on", "off"}
      BY <1>1, <1>4, <2>4 DEF FoldSound
    <3> QED BY <1>1, <2>4, <3>1 DEF FoldSound
  <2> HIDE DEF at
  <2>5. ASSUME ~b PROVE at <= Len(u \o s) /\ Items(Upto(u \o s, at)) \subseteq p.covered \cup p.unseen
    <3>1. at = Len(u) + r.fold /\ r.fold \in 0 .. Len(s)
      BY <2>4, <2>5
    <3>2. Len(u \o s) = Len(u) + Len(s) /\ Len(u) \in Nat /\ Len(s) \in Nat
      BY <1>1, JoinIs
    <3>3. Items(Upto(u \o s, Len(u) + r.fold)) = Items(u) \cup Items(Upto(s, r.fold))
      BY <1>1, <3>1, FoldOfJoin
    <3>4. at <= Len(u \o s)
      <4> DEFINE lu == Len(u)
                 ls == Len(s)
                 f == r.fold
      <4>1. lu \in Nat /\ f \in 0 .. ls /\ ls \in Nat /\ at = lu + f /\ Len(u \o s) = lu + ls
        BY <3>1, <3>2
      <4> HIDE DEF lu, ls, f
      <4>2. lu + f <= lu + ls
        BY <4>1
      <4> QED BY <4>1, <4>2
    <3> HIDE DEF u, s
    <3>5. Items(Upto(u \o s, at)) = Items(u) \cup Items(Upto(s, r.fold))
      BY <3>1, <3>3
    <3>6. Items(u) \cup Items(Upto(s, r.fold)) \subseteq (r.sum \cup r.cut) \cup unseen
      BY <2>4, <2>5
    <3> QED BY <2>2, <3>4, <3>5, <3>6
  <2>6. ASSUME ~b, ~sh PROVE Paired(0, u \o s) /\ Paired(at, u \o s)
    <3>1. at = Len(u) + r.fold /\ r.fold \in 0 .. Len(s) /\ Paired(0, u \o s)
      BY <2>4, <2>6 DEF Marked
    <3>2. Paired(r.fold, s)
      BY <2>6 DEF PairsSound
    <3>3. Paired(Len(u) + r.fold, u \o s) <=> Paired(r.fold, s)
      BY <1>1, <3>1, PairedBehind
    <3> QED BY <3>1, <3>2, <3>3
  <2>7. Marked(u \o s, at, p.covered \cup p.unseen, b, sh)
    BY <2>5, <2>6 DEF Marked
  <2> QED BY <1>1, <1>2, <2>2, <2>3, <2>7 DEF p
<1> QED BY <1>3, <1>4

\* What is saved is the list as it is, and what a last call adds to it.
LEMMA EndStep ==
  ASSUME ConvType, NEW r \in RunRecs(made), NEW b \in BOOLEAN, Replied(r.prefix \o r.input),
         FoldSound(r, unseen, b), PairsSound(r, b, shifted),
         Marked(r.prefix \o r.input, cursor, covered \cup unseen, b, shifted),
         NEW mid \in BOOLEAN, NEW e, EndRun(r, r.input \o e, mid),
         made' \in Nat, made <= made', e \in Seq(MadeItems(made')), Paired(0, e), Replied(e),
         UNCHANGED <<runs, shifted>>, blind' = b
  PROVE  ConvInv'
<1> DEFINE S == MadeItems(made')
           p == IF mid THEN PersistMidrunState(r) ELSE [cursor |-> cursor, covered |-> covered, unseen |-> unseen]
           u == r.prefix
           s == r.input
<1>1. made \in Nat /\ runs \in Nat /\ cursor \in Nat /\ covered \in SUBSET AllItems /\ unseen \in SUBSET AllItems /\ shifted \in BOOLEAN
  BY DEF ConvType
<1>2. u \in Seq(S) /\ s \in Seq(S) /\ e \in Seq(S)
  <2>1. r \in RunRecs(made')
    BY <1>1, MadeMore
  <2> QED BY <2>1 DEF RunRecs
<1>3. /\ hist' = u \o (s \o e) /\ cursor' = p.cursor /\ covered' = p.covered /\ unseen' = p.unseen /\ run' = NoRun
  BY Zenon DEF EndRun, Saved
<1>4. /\ p.cursor \in Nat /\ p.covered \in SUBSET AllItems /\ p.unseen \in SUBSET AllItems
      /\ Marked(u \o s, p.cursor, p.covered \cup p.unseen, b, shifted)
  <2>1. CASE mid
    <3>1. p = PersistMidrunState(r)
      BY <2>1
    <3> HIDE DEF p
    <3> QED BY <3>1, PersistSound
  <2>2. CASE ~mid
    <3>1. p = [cursor |-> cursor, covered |-> covered, unseen |-> unseen]
      BY <2>2
    <3> HIDE DEF p
    <3>2. p.cursor = cursor /\ p.covered = covered /\ p.unseen = unseen
      BY <3>1
    <3> QED BY <1>1, <3>2
  <2> QED BY <2>1, <2>2
<1> DEFINE cur == p.cursor
           cv == p.covered \cup p.unseen
<1>c. cur \in Nat /\ Marked(u \o s, cur, cv, b, shifted) /\ Replied(u \o s)
  BY <1>4
<1>d. cursor' = cur /\ covered' \cup unseen' = cv
  BY <1>3
<1> HIDE DEF S, p, u, s, cur, cv
<1>5. ThreeJoined(u, s, e) /\ u \o s \in Seq(S)
  BY <1>2, JoinThree
<1>6. (u \o s) \o e = u \o (s \o e)
  BY <1>5, Zenon DEF ThreeJoined
<1>7. Marked((u \o s) \o e, cur, cv, b, shifted)
  BY <1>2, <1>5, <1>c, MarkedMore
<1>8. Replied((u \o s) \o e) /\ (u \o s) \o e \in Seq(S)
  <2> DEFINE w == u \o s
  <2>1. w \in Seq(S) /\ Replied(w)
    BY <1>5, <1>c
  <2> HIDE DEF w
  <2>2. Replied(w \o e) /\ w \o e \in Seq(S)
    BY <1>2, <2>1, RepliedJoin
  <2> QED BY <2>2 DEF w
<1>9. hist' = (u \o s) \o e
  BY <1>3, <1>6
<1>10. Marked(hist', cursor', covered' \cup unseen', blind', shifted')
  <2>1. Marked(hist', cur, cv, b, shifted)
    BY <1>7, <1>9
  <2> QED BY <1>d, <2>1
<1>11. hist' \in Seq(MadeItems(made')) /\ Replied(hist')
  BY <1>8, <1>9 DEF S
<1>12. cursor' \in Nat /\ covered' \in SUBSET AllItems /\ unseen' \in SUBSET AllItems
  BY <1>3, <1>4
<1> QED BY <1>1, <1>3, <1>10, <1>11, <1>12 DEF ConvInv, ConvType

-----------------------------------------------------------------------------
(* The steps.                                                               *)

\* A step of a run that goes on: the saved state stays.
LEMMA LiveStep ==
  ASSUME ConvInv, made' \in Nat, made <= made', shifted' \in BOOLEAN, shifted => shifted',
         UNCHANGED <<hist, cursor, covered, runs, unseen, blind>>,
         RunSound(run', made', cursor, covered, unseen, blind, shifted')
  PROVE  ConvInv'
<1>1. ConvType'
  <2>1. ConvType
    BY DEF ConvInv
  <2>2. hist' \in Seq(MadeItems(made'))
    BY <2>1, MadeMore DEF ConvType
  <2> QED BY <2>1, <2>2 DEF ConvType
<1>2. Replied(hist')
  BY DEF ConvInv
<1>3. Marked(hist', cursor', covered' \cup unseen', blind', shifted')
  BY DEF ConvInv, Marked
<1>4. RunSound(run', made', cursor', covered', unseen', blind', shifted')
  OBVIOUS
<1> QED BY <1>1, <1>2, <1>3, <1>4 DEF ConvInv

\* What the invariant says of a run in progress.
LEMMA RunningSound ==
  ASSUME ConvInv, run.pc # "idle"
  PROVE  /\ RunSound(run, made, cursor, covered, unseen, blind, shifted) /\ ConvType
         /\ made \in Nat /\ cursor \in Nat /\ shifted \in BOOLEAN /\ blind \in BOOLEAN
  BY DEF ConvInv, ConvType, NoRun

\* Calling the model keeps the invariant.
LEMMA CallKeeps ==
  ASSUME ConvInv, ModelCall
  PROVE  ConvInv'
<1>1. /\ run.pc = "ready" /\ run.turns < run.cap
      /\ UNCHANGED <<hist, cursor, covered, runs, made, unseen, blind, shifted>>
  BY DEF ModelCall
<1>2. PICK f \in Filtered(run, run.input) : run' = [f EXCEPT !.pc = "asked", !.turns = @ + 1]
  BY Zenon DEF ModelCall
<1>3. /\ RunSound(run, made, cursor, covered, unseen, blind, shifted)
      /\ made \in Nat /\ cursor \in Nat /\ shifted \in BOOLEAN
  BY <1>1, RunningSound
<1>4. RunSound(run', made, cursor, covered, unseen, blind, shifted)
  BY <1>1, <1>2, <1>3, CallStep
<1> QED BY <1>1, <1>3, <1>4, LiveStep

\* A turn of tool calls keeps the invariant.
LEMMA ToolKeeps ==
  ASSUME ConvInv, ToolTurn
  PROVE  ConvInv'
<1>1. /\ run.pc = "asked" /\ UNCHANGED <<hist, cursor, covered, runs, unseen, blind, shifted>>
  BY DEF ToolTurn
<1>2. PICK j \in 1 .. 2, text \in BOOLEAN, lost \in BOOLEAN :
        LET c == made + IF text THEN 1 ELSE 0
            calls == [i \in 1 .. j |-> It("call", c + i)]
            outs == [i \in 1 .. (IF lost THEN j - 1 ELSE j) |-> It("out", c + i)]
        IN /\ lost => j = 2
           /\ ToolRec(run, c, text, lost, calls, outs, run')
           /\ made' = c + j
  BY Zenon DEF ToolTurn, ToolRec
<1> DEFINE c == made + IF text THEN 1 ELSE 0
           calls == [i \in 1 .. j |-> It("call", c + i)]
           outs == [i \in 1 .. (IF lost THEN j - 1 ELSE j) |-> It("out", c + i)]
<1>3. (lost => j = 2) /\ ToolRec(run, c, text, lost, calls, outs, run') /\ made' = c + j
  BY <1>2
<1>4. BlockOf(calls, outs, c, j, lost) /\ TurnOf(made, c, j, text, lost)
  BY <1>3, Zenon DEF BlockOf, TurnOf
<1>5. /\ RunSound(run, made, cursor, covered, unseen, blind, shifted)
      /\ made \in Nat /\ cursor \in Nat /\ shifted \in BOOLEAN
  BY <1>1, RunningSound
<1> HIDE DEF c, calls, outs
<1>6. c + j \in Nat /\ made <= c + j /\ RunSound(run', c + j, cursor, covered, unseen, blind, shifted)
  BY <1>1, <1>3, <1>4, <1>5, ToolStep
<1> QED BY <1>1, <1>3, <1>5, <1>6, LiveStep

\* An answer keeps the invariant.
LEMMA ReplyKeeps ==
  ASSUME ConvInv, Answer
  PROVE  ConvInv'
<1>1. /\ run.pc = "asked" /\ UNCHANGED <<hist, cursor, covered, runs, unseen, blind, shifted>>
  BY DEF Answer
<1>2. (AnswerRec(run, made, run') /\ made' = made + 1) \/ (SilentRec(run, run') /\ made' = made)
  BY Zenon DEF Answer, AnswerRec, SilentRec
<1>3. /\ RunSound(run, made, cursor, covered, unseen, blind, shifted)
      /\ made \in Nat /\ cursor \in Nat /\ shifted \in BOOLEAN
  BY <1>1, RunningSound
<1>4. made' \in Nat /\ made <= made' /\ RunSound(run', made', cursor, covered, unseen, blind, shifted)
  BY <1>1, <1>2, <1>3, AnswerStep
<1> QED BY <1>1, <1>3, <1>4, LiveStep

\* A failed call keeps the invariant.
LEMMA FailsKeeps ==
  ASSUME ConvInv, ModelFails
  PROVE  ConvInv'
<1>1. /\ run.pc = "asked" /\ UNCHANGED <<hist, cursor, covered, runs, made, unseen, blind, shifted>>
  BY DEF ModelFails
<1>2. PICK e \in {"limit", "raised"} : run' = [run EXCEPT !.pc = e, !.sent = <<>>]
  BY DEF ModelFails
<1>3. /\ RunSound(run, made, cursor, covered, unseen, blind, shifted)
      /\ made \in Nat /\ cursor \in Nat /\ shifted \in BOOLEAN
  BY <1>1, RunningSound
<1>4. RunSound(run', made, cursor, covered, unseen, blind, shifted)
  BY <1>1, <1>2, <1>3, FailsStep
<1> QED BY <1>1, <1>3, <1>4, LiveStep

\* Releasing the pin keeps the invariant.
LEMMA UnpinKeeps ==
  ASSUME ConvInv, RetryUnpinned
  PROVE  ConvInv'
<1>1. /\ run.pc = "over" /\ run.pin /\ ~run.named /\ UNCHANGED <<hist, cursor, covered, runs, made, unseen, blind, shifted>>
      /\ run' = [run EXCEPT !.pc = "ready", !.pin = FALSE, !.turns = 0]
  BY DEF RetryUnpinned
<1>3. /\ RunSound(run, made, cursor, covered, unseen, blind, shifted)
      /\ made \in Nat /\ cursor \in Nat /\ shifted \in BOOLEAN
  BY <1>1, RunningSound
<1>4. RunSound(run', made, cursor, covered, unseen, blind, shifted)
  BY <1>1, <1>3, UnpinStep
<1> QED BY <1>1, <1>3, <1>4, LiveStep

\* A rescue keeps the invariant.
LEMMA RescueKeeps ==
  ASSUME ConvInv, Rescue
  PROVE  ConvInv'
<1> DEFINE input == RepairDanglingToolCalls(InjectSyntheticReasoning(run.input))
<1>1. /\ run.pc = "limit" /\ UNCHANGED <<hist, cursor, covered, runs, made, unseen, blind>>
  BY DEF Rescue
<1>2. /\ RescueRec(run, input, run')
      /\ shifted' = (shifted \/ \E n \in {run.fold, cursor - Len(run.prefix)} : Shifts(n, run.input, input))
  BY Zenon DEF Rescue, RescueRec
<1>3. /\ RunSound(run, made, cursor, covered, unseen, blind, shifted)
      /\ made \in Nat /\ cursor \in Nat /\ shifted \in BOOLEAN
  BY <1>1, RunningSound
<1> HIDE DEF input
<1>4. shifted' \in BOOLEAN /\ (shifted => shifted')
  BY <1>2, <1>3
<1>5. ~shifted' => ~shifted /\ ~Shifts(run.fold, run.input, input) /\ ~Shifts(cursor - Len(run.prefix), run.input, input)
  BY <1>2
<1>6. RunSound(run', made, cursor, covered, unseen, blind, shifted')
  BY <1>1, <1>2, <1>3, <1>5, RescueStep DEF input
<1> QED BY <1>1, <1>3, <1>4, <1>6, LiveStep

\* Cancelling a run keeps the invariant.
LEMMA CancelKeeps ==
  ASSUME ConvInv, CancelRun
  PROVE  ConvInv'
  BY DEF ConvInv, ConvType, CancelRun

\* Nothing more to say: the list is saved as it is.
NoMore(n) == <<>> \in Seq(MadeItems(n)) /\ Paired(0, <<>>) /\ Replied(<<>>)
\* An empty list has its pairs and its replies.
LEMMA NothingMore ==
  ASSUME NEW n
  PROVE  NoMore(n)
<1>1. <<>> \in Seq(MadeItems(n)) /\ Len(<<>>) = 0
  OBVIOUS
<1>2. Paired(0, <<>>) /\ Replied(<<>>)
  BY DEF Paired, Replied
<1> QED BY <1>1, <1>2 DEF NoMore

\* Saving the run's list as it is keeps the invariant.
LEMMA EndsPlain ==
  ASSUME ConvInv, run.pc # "idle", Replied(run.prefix \o run.input), NEW mid \in BOOLEAN, EndRun(run, run.input, mid),
         UNCHANGED <<runs, made, blind, shifted>>
  PROVE  ConvInv'
<1> DEFINE e == <<>>
<1>1. /\ RunSound(run, made, cursor, covered, unseen, blind, shifted) /\ ConvType
      /\ made \in Nat /\ cursor \in Nat /\ shifted \in BOOLEAN /\ blind \in BOOLEAN
  BY RunningSound
<1>2. /\ run \in RunRecs(made) /\ FoldSound(run, unseen, blind) /\ PairsSound(run, blind, shifted)
      /\ Marked(run.prefix \o run.input, cursor, covered \cup unseen, blind, shifted)
  BY <1>1 DEF RunSound
<1>3. run.input \in Seq(MadeItems(made))
  BY <1>2 DEF RunRecs
<1>4. run.input \o e = run.input
  BY <1>3
<1>5. e \in Seq(MadeItems(made')) /\ Paired(0, e) /\ Replied(e)
  BY NothingMore, Zenon DEF NoMore
<1> HIDE DEF e
<1>6. EndRun(run, run.input \o e, mid)
  BY <1>4
<1>7. made' \in Nat /\ made <= made' /\ blind' = blind
  BY <1>1
<1> QED BY <1>1, <1>2, <1>5, <1>6, <1>7, EndStep

\* Where every call was replied to, there is nothing to repair.
LEMMA RepairedSame ==
  ASSUME ConvInv, run.pc # "idle", Replied(run.prefix \o run.input)
  PROVE  RepairDanglingToolCalls(run.input) = run.input
<1>1. made \in Nat /\ run \in RunRecs(made)
  BY RunningSound DEF RunSound
<1> DEFINE S == MadeItems(made)
           u == run.prefix
           s == run.input
<1>2. u \in Seq(S) /\ s \in Seq(S) /\ Replied(u \o s)
  BY <1>1 DEF RunRecs
<1> HIDE DEF S, u, s
<1>3. Replied(s)
  BY <1>2, RepliedBehind
<1>4. RepairDanglingToolCalls(s) = s
  BY <1>1, <1>2, <1>3, RepairSame DEF S
<1> QED BY <1>4 DEF s

\* Ending a run with an answer keeps the invariant.
LEMMA SucceedKeeps ==
  ASSUME ConvInv, Succeed
  PROVE  ConvInv'
<1>1. run.pc = "over" /\ EndRun(run, run.input, TRUE) /\ UNCHANGED <<runs, made, blind, shifted>>
  BY DEF Succeed
<1>2. Replied(run.prefix \o run.input)
  BY <1>1, RunningSound DEF RunSound, Listed
<1> QED BY <1>1, <1>2, EndsPlain

\* Pausing a run at its limit keeps the invariant.
LEMMA PauseKeeps ==
  ASSUME ConvInv, Pause
  PROVE  ConvInv'
<1>1. /\ run.pc = "ready" /\ EndRun(run, RepairDanglingToolCalls(run.input), TRUE)
      /\ UNCHANGED <<runs, made, blind, shifted>>
  BY DEF Pause
<1>2. Replied(run.prefix \o run.input)
  BY <1>1, RunningSound DEF RunSound, Listed
<1>3. RepairDanglingToolCalls(run.input) = run.input
  BY <1>1, <1>2, RepairedSame
<1>4. EndRun(run, run.input, TRUE)
  BY <1>1, <1>3
<1> QED BY <1>1, <1>2, <1>4, EndsPlain

\* A fold that a synthesis call makes is what blind stands for; without one
\* the saved state is that of the run.
LEMMA SynthesizeKeeps ==
  ASSUME ConvInv, Synthesize
  PROVE  ConvInv'
<1> DEFINE flat == InjectSyntheticReasoning(FlattenToolItems(run.input))
<1>1. run.pc = "ready" /\ UNCHANGED <<runs, shifted>>
  BY DEF Synthesize
<1>2. PICK r \in Filtered(run, flat), ok \in BOOLEAN :
        /\ EndRun(r, RepairDanglingToolCalls(run.input) \o (IF ok THEN <<It("say", made + 1)>> ELSE <<>>), TRUE)
        /\ made' = IF ok THEN made + 1 ELSE made
        /\ blind' = (blind \/ r.fold # run.fold)
  BY Zenon DEF Synthesize
<1> DEFINE b == blind \/ r.fold # run.fold
           e == IF ok THEN <<It("say", made + 1)>> ELSE <<>>
<1>3. /\ RunSound(run, made, cursor, covered, unseen, blind, shifted) /\ ConvType
      /\ made \in Nat /\ cursor \in Nat /\ shifted \in BOOLEAN /\ blind \in BOOLEAN
  BY <1>1, RunningSound
<1>4. /\ run \in RunRecs(made) /\ FoldSound(run, unseen, blind) /\ PairsSound(run, blind, shifted)
      /\ Marked(run.prefix \o run.input, cursor, covered \cup unseen, blind, shifted)
      /\ Replied(run.prefix \o run.input)
  BY <1>1, <1>3 DEF RunSound, Listed
<1>5. run.input \in Seq(MadeItems(made))
  BY <1>4 DEF RunRecs
<1>6. flat \in Seq(MadeItems(made))
  BY <1>3, <1>5, FlattenType, InjectSpreads
<1> HIDE DEF flat
<1>7. r \in RunRecs(made) /\ FilterKeeps(run, r) /\ FilterFolds(run, r, flat)
  BY <1>3, <1>4, <1>6, FilteredSound
<1>8. /\ r.prefix = run.prefix /\ r.input = run.input /\ r.prefixLen = run.prefixLen /\ r.cut = run.cut
      /\ r.mode = run.mode /\ r.pc = "ready"
  BY <1>1, <1>7 DEF FilterKeeps
<1>9. b \in BOOLEAN /\ (~b => ~blind /\ r.fold = run.fold /\ r.sum = run.sum /\ r.l2 = run.l2)
  BY <1>3, <1>7 DEF FilterFolds
<1>b. blind' = b
  BY <1>2
<1> HIDE DEF b
<1>10. FoldSound(r, unseen, b)
  BY <1>4, <1>8, <1>9 DEF FoldSound
<1>11. PairsSound(r, b, shifted)
  BY <1>4, <1>8, <1>9 DEF PairsSound
<1>12. Marked(r.prefix \o r.input, cursor, covered \cup unseen, b, shifted)
  <2>1. ~b => ~blind
    BY <1>9
  <2> DEFINE w == run.prefix \o run.input
             cv == covered \cup unseen
  <2>2. Marked(w, cursor, cv, blind, shifted) /\ r.prefix \o r.input = w
    BY <1>4, <1>8
  <2> HIDE DEF w, cv
  <2>3. Marked(w, cursor, cv, b, shifted)
    BY <2>1, <2>2, Zenon DEF Marked
  <2> QED BY <2>2, <2>3 DEF cv
<1>13. Replied(r.prefix \o r.input)
  BY <1>4, <1>8
<1>14. RepairDanglingToolCalls(run.input) = r.input
  BY <1>1, <1>4, <1>8, RepairedSame
<1>15. EndRun(r, r.input \o e, TRUE)
  BY <1>2, <1>14
<1>16. made' \in Nat /\ made <= made'
  BY <1>2, <1>3
<1>17. e \in Seq(MadeItems(made')) /\ Paired(0, e) /\ Replied(e)
  <2>1. CASE ok
    <3>1. It("say", made + 1) \in MadeItems(made')
      BY <1>2, <1>3, <2>1 DEF It, MadeItems, Kinds
    <3>2. <<It("say", made + 1)>> \in Seq(MadeItems(made'))
      BY <3>1
    <3> QED BY <2>1, <3>2, SayPaired, Zenon
  <2>2. CASE ~ok
    <3>1. e = <<>>
      BY <2>2
    <3> HIDE DEF e
    <3> QED BY <3>1, NothingMore, Zenon DEF NoMore
  <2> QED BY <2>1, <2>2
<1> HIDE DEF e
<1>18. UNCHANGED <<runs, shifted>>
  BY <1>1
<1> QED BY <1>3, <1>7, <1>9, <1>b, <1>10, <1>11, <1>12, <1>13, <1>15, <1>16, <1>17, <1>18, EndStep

\* Ending a run with an error keeps the invariant: a lost result is made up
\* before the list is saved.
LEMMA FailKeeps ==
  ASSUME ConvInv, Fail
  PROVE  ConvInv'
<1> DEFINE S == MadeItems(made)
           u == run.prefix
<1>1. /\ run.pc # "idle" /\ EndRun(run, RepairDanglingToolCalls(run.input), FALSE)
      /\ UNCHANGED <<runs, made, blind, shifted>>
  BY DEF Fail
<1>2. /\ RunSound(run, made, cursor, covered, unseen, blind, shifted) /\ ConvType
      /\ made \in Nat /\ cursor \in Nat /\ shifted \in BOOLEAN /\ blind \in BOOLEAN
  BY <1>1, RunningSound
<1>3. CASE Replied(run.prefix \o run.input)
  <2>1. RepairDanglingToolCalls(run.input) = run.input
    BY <1>1, <1>3, RepairedSame
  <2>2. EndRun(run, run.input, FALSE)
    BY <1>1, <2>1
  <2> QED BY <1>1, <1>3, <2>2, EndsPlain
<1>4. CASE ~Replied(run.prefix \o run.input)
  <2>1. \E c \in Nat, base \in Seq(S) :
            /\ c + 1 <= made /\ run.input = base \o LostTail(c) /\ Replied(u \o base)
            /\ \A i \in 1 .. Len(base) : base[i].id < c
            /\ ~blind => cursor <= Len(u) + Len(base)
    BY <1>2, <1>4, Zenon DEF RunSound, Listed
  <2>2. PICK c \in Nat, base \in Seq(S) :
            /\ c + 1 <= made /\ run.input = base \o LostTail(c) /\ Replied(u \o base)
            /\ \A i \in 1 .. Len(base) : base[i].id < c
            /\ ~blind => cursor <= Len(u) + Len(base)
    BY <2>1
  <2>3. u \in Seq(S) /\ Marked(u \o run.input, cursor, covered \cup unseen, blind, shifted)
    BY <1>2 DEF RunSound, RunRecs
  <2>m. /\ MendedTail(c) \in Seq(S) /\ LostTail(c) \in Seq(S)
        /\ Paired(0, MendedTail(c)) /\ Replied(MendedTail(c))
    BY <1>2, <2>2, MendedSound
  <2> DEFINE lost == LostTail(c)
             mended == MendedTail(c)
             cv == covered \cup unseen
             cur == cursor
  <2>4. /\ u \in Seq(S) /\ base \in Seq(S) /\ lost \in Seq(S) /\ mended \in Seq(S) /\ Paired(0, mended)
        /\ Replied(mended) /\ Replied(u \o base) /\ cur \in Nat
    BY <1>2, <2>2, <2>3, <2>m
  <2>5. run.input = base \o lost /\ Marked(u \o (base \o lost), cur, cv, blind, shifted)
    BY <2>2, <2>3
  <2>6. RepairDanglingToolCalls(base \o lost) = base \o mended
    <3>1. Replied(base)
      <4> HIDE DEF S, u
      <4> QED BY <2>4, RepliedBehind
    <3> QED BY <1>2, <2>2, <3>1, RepairLost
  <2>7. hist' = u \o (base \o mended) /\ UNCHANGED <<cursor, covered, unseen>> /\ run' = NoRun
    <3>1. RepairDanglingToolCalls(run.input) = base \o mended
      BY <2>5, <2>6
    <3>2. EndRun(run, base \o mended, FALSE)
      BY <1>1, <3>1
    <3>3. LET p == [cursor |-> cursor, covered |-> covered, unseen |-> unseen]
          IN /\ hist' = run.prefix \o (base \o mended)
             /\ cursor' = p.cursor /\ covered' = p.covered /\ unseen' = p.unseen
             /\ run' = NoRun
      BY <3>2, Zenon DEF EndRun, Saved
    <3> HIDE DEF mended
    <3> QED BY <3>3
  <2>8. ~blind => cur <= Len(u \o base)
    <3>1. Len(u \o base) = Len(u) + Len(base)
      <4> HIDE DEF S, u
      <4> QED BY <2>4, JoinIs
    <3>2. ~blind => cur <= Len(u) + Len(base)
      BY <2>2
    <3> HIDE DEF u, cur
    <3> QED BY <3>1, <3>2
  <2> HIDE DEF S, u, lost, mended, cv, cur
  <2>9. ThreeJoined(u, base, lost) /\ ThreeJoined(u, base, mended)
    BY <2>4, JoinThree
  <2>10. (u \o base) \o lost = u \o (base \o lost) /\ (u \o base) \o mended = u \o (base \o mended)
    BY <2>9, Zenon DEF ThreeJoined
  <2> DEFINE w == u \o base
  <2>11. w \in Seq(S) /\ Replied(w) /\ (~blind => cur <= Len(w))
    BY <2>4, <2>8
  <2>12. Marked(w \o lost, cur, cv, blind, shifted)
    BY <2>5, <2>10
  <2>13. hist' = w \o mended
    BY <2>7, <2>10
  <2> HIDE DEF w
  <2>14. Marked(w, cur, cv, blind, shifted)
    BY <2>4, <2>11, <2>12, MarkedFront
  <2>15. Marked(w \o mended, cur, cv, blind, shifted)
    BY <2>4, <2>11, <2>14, MarkedMore
  <2>16. Replied(w \o mended) /\ w \o mended \in Seq(S)
    BY <2>4, <2>11, RepliedJoin
  <2>17. Marked(hist', cursor', covered' \cup unseen', blind', shifted')
    BY <1>1, <2>7, <2>13, <2>15, Zenon DEF cur, cv
  <2>18. hist' \in Seq(MadeItems(made')) /\ Replied(hist')
    BY <1>1, <2>13, <2>16 DEF S
  <2>19. ConvType'
    BY <1>1, <1>2, <2>7, <2>18 DEF ConvType
  <2> QED BY <2>7, <2>17, <2>18, <2>19 DEF ConvInv
<1> QED BY <1>3, <1>4

\* There is nothing in front of the first item.
LEMMA NothingUpto ==
  ASSUME NEW S, NEW s \in Seq(S), NEW y
  PROVE  y \notin Items(Upto(s, 0))
<1>1. 0 \in 0 .. Len(s)
  OBVIOUS
<1>2. 1 .. 0 = {}
  OBVIOUS
<1> QED BY <1>1, <1>2, UptoItems, Zenon

\* An empty conversation satisfies the invariant.
LEMMA ConvStarts ==
  ASSUME ConvInit
  PROVE  ConvInv
<1>1. /\ hist = <<>> /\ cursor = 0 /\ covered = {} /\ run = NoRun
      /\ runs = 0 /\ made = 0 /\ unseen = {} /\ blind = FALSE /\ shifted = FALSE
  BY DEF ConvInit
<1>2. hist \in Seq(MadeItems(made)) /\ Len(hist) = 0 /\ Paired(0, hist) /\ Replied(hist)
  BY <1>1, NothingMore, Zenon DEF NoMore
<1>3. ConvType
  BY <1>1, <1>2 DEF ConvType
<1>4. \A y : y \notin Items(Upto(hist, 0))
  BY <1>2, NothingUpto, Zenon
<1>5. Marked(hist, cursor, covered \cup unseen, blind, shifted)
  BY <1>1, <1>2, <1>4 DEF Marked
<1> QED BY <1>1, <1>2, <1>3, <1>5 DEF ConvInv

\* Every step keeps the invariant.
LEMMA ConvKeeps ==
  ASSUME ConvInv, [ConvNext]_convVars
  PROVE  ConvInv'
<1>1. CASE ConvNext
  BY <1>1, StartKeeps, CallKeeps, ToolKeeps, ReplyKeeps, FailsKeeps, RescueKeeps, UnpinKeeps,
     SucceedKeeps, PauseKeeps, SynthesizeKeeps, FailKeeps, CancelKeeps DEF ConvNext
<1>2. CASE UNCHANGED convVars
  BY <1>2 DEF convVars, ConvInv, ConvType
<1> QED BY <1>1, <1>2

\* The invariant says what ContextSound asks for.
LEMMA ConvImplies ==
  ASSUME ConvInv
  PROVE  ContextSound
<1>1. SummaryCovers
  BY DEF ConvInv, Marked, SummaryCovers, Gap
<1>2. PairsKept
  <2>1. SUFFICES ASSUME run.pc = "asked", ~blind, ~shifted, NEW i \in 1 .. Len(run.sent), run.sent[i].kind = "out"
                 PROVE  \E j \in 1 .. i - 1 : run.sent[j] = It("call", run.sent[i].id)
    BY DEF PairsKept
  <2>2. RunSound(run, made, cursor, covered, unseen, blind, shifted)
    BY <2>1, RunningSound
  <2>3. Paired(0, run.sent)
    BY <2>1, <2>2 DEF RunSound, PairsSound
  <2>4. \E j \in 0 + 1 .. i - 1 : Chain(run.sent, j, i)
    BY <2>1, <2>3 DEF Paired
  <2> QED BY <2>4 DEF Chain
<1>3. CallsBounded
  <2>1. SUFFICES ASSUME run.pc # "idle" PROVE run.calls <= MaxTurns + 1
    BY DEF CallsBounded
  <2>2. run \in RunRecs(made) /\ CallsSound(run)
    BY <2>1, RunningSound DEF RunSound
  <2>3. run.turns \in Nat /\ run.cap \in Nat /\ run.calls \in Nat /\ MaxTurns \in Nat /\ run.turns <= run.cap
    BY <2>2, ConvConstants DEF RunRecs, CallsSound
  <2>4. (run.calls + (run.cap - run.turns)) + (IF run.pc \in {"asked", "limit"} THEN 1 ELSE 0)
           <= MaxTurns + (IF run.pin THEN 0 ELSE 1)
    BY <2>2 DEF CallsSound
  <2> QED BY <2>3, <2>4
<1> QED BY <1>1, <1>2, <1>3 DEF ContextSound

\* However often a conversation is folded, cut, rescued or resumed: nothing in
\* front of the cursor is missing from the summary, no result is sent without
\* its call, and a run makes at most one call more than its cap
\* (context_compaction.compact_for_run, compaction_filter.compaction_filter,
\* agent.AgentRunner.run).
THEOREM ContextAlwaysSound == ConvSpec => []ContextSound
<1>1. ConvInit => ConvInv
  BY ConvStarts
<1>2. ConvInv /\ [ConvNext]_convVars => ConvInv'
  BY ConvKeeps
<1>3. ConvInv => ContextSound
  BY ConvImplies
<1> QED BY <1>1, <1>2, <1>3, PTL DEF ConvSpec

-----------------------------------------------------------------------------
(* The transcript: what HistoryKept needs beside ConvInv.                   *)

\* t has the items of s in their order, and none twice if s has none twice.
Carried(s, t) == KeepsOrder(s, t) /\ (Once(s) => Once(t))

\* A list carries itself.
LEMMA CarriedSame ==
  ASSUME NEW s
  PROVE  Carried(s, s)
  BY DEF Carried, KeepsOrder

\* What is carried twice is carried.
LEMMA OrderThen ==
  ASSUME NEW s, NEW t, NEW u, KeepsOrder(s, t), KeepsOrder(t, u)
  PROVE  KeepsOrder(s, u)
<1>1. SUFFICES ASSUME NEW i \in DOMAIN s, NEW j \in DOMAIN s, i <= j, s[i].kind # "think", s[j].kind # "think"
               PROVE  \E k, l \in DOMAIN u : k <= l /\ u[k] = s[i] /\ u[l] = s[j]
  BY DEF KeepsOrder
<1>2. PICK k \in DOMAIN t, l \in DOMAIN t : k <= l /\ t[k] = s[i] /\ t[l] = s[j]
  BY <1>1 DEF KeepsOrder
<1>3. t[k].kind # "think" /\ t[l].kind # "think"
  BY <1>1, <1>2
<1>4. \E x, y \in DOMAIN u : x <= y /\ u[x] = t[k] /\ u[y] = t[l]
  BY <1>2, <1>3 DEF KeepsOrder
<1> QED BY <1>2, <1>4

\* What moved one by one is in there no more often than before.
LEMMA OnceMoved ==
  ASSUME NEW s, NEW t, NEW f, Once(s),
         \A x \in DOMAIN t : t[x].kind # "think" => \E i \in DOMAIN s : x = f[i] /\ t[x] = s[i]
  PROVE  Once(t)
<1>1. SUFFICES ASSUME NEW k \in DOMAIN t, NEW l \in DOMAIN t, t[k] = t[l], t[k].kind # "think"
               PROVE  k = l
  BY DEF Once
<1>2. PICK i \in DOMAIN s : k = f[i] /\ t[k] = s[i]
  BY <1>1
<1>3. PICK j \in DOMAIN s : l = f[j] /\ t[l] = s[j]
  BY <1>1
<1>4. s[i] = s[j] /\ s[i].kind # "think"
  BY <1>1, <1>2, <1>3
<1>5. i = j
  BY <1>4 DEF Once
<1> QED BY <1>2, <1>3, <1>5

\* A list and the same with more behind it.
LEMMA OrderMore ==
  ASSUME NEW S, NEW s \in Seq(S), NEW e \in Seq(S)
  PROVE  KeepsOrder(s, s \o e)
<1>1. /\ s \o e \in Seq(S) /\ Len(s \o e) = Len(s) + Len(e) /\ Len(s) \in Nat /\ Len(e) \in Nat
      /\ \A i \in 1 .. Len(s) : (s \o e)[i] = s[i]
  BY JoinIs
<1> DEFINE w == s \o e
<1> HIDE DEF w
<1>2. /\ DOMAIN s = 1 .. Len(s) /\ DOMAIN w = 1 .. Len(w) /\ Len(w) = Len(s) + Len(e)
      /\ \A i \in 1 .. Len(s) : w[i] = s[i]
  BY <1>1 DEF w
<1>3. \A i \in DOMAIN s : i \in DOMAIN w /\ w[i] = s[i]
  BY <1>1, <1>2
<1>4. KeepsOrder(s, w)
  BY <1>3 DEF KeepsOrder
<1> QED BY <1>4 DEF w

\* Lists that share no item.
Apart(s, e) == \A i \in DOMAIN s, j \in DOMAIN e : e[j].kind # "think" => s[i] # e[j]

\* Joining them puts none in twice.
LEMMA OnceJoin ==
  ASSUME NEW S, NEW s \in Seq(S), NEW e \in Seq(S), Once(s), Once(e), Apart(s, e)
  PROVE  Once(s \o e)
<1> DEFINE w == s \o e
           n == Len(s)
<1>1. /\ w \in Seq(S) /\ Len(w) = n + Len(e) /\ n \in Nat /\ Len(e) \in Nat
      /\ \A i \in 1 .. n : w[i] = s[i]
      /\ \A i \in 1 .. Len(e) : w[n + i] = e[i]
  BY JoinIs
<1>2. DOMAIN s = 1 .. n /\ DOMAIN e = 1 .. Len(e) /\ DOMAIN w = 1 .. Len(w)
  BY <1>1
<1> HIDE DEF w, n
<1>3. \A k \in DOMAIN w : (k \in DOMAIN s /\ w[k] = s[k]) \/ (k - n \in DOMAIN e /\ w[k] = e[k - n])
  <2>1. SUFFICES ASSUME NEW k \in 1 .. Len(w), ~(k <= n) PROVE k - n \in 1 .. Len(e) /\ w[k] = e[k - n]
    BY <1>1, <1>2
  <2>2. k - n \in 1 .. Len(e) /\ n + (k - n) = k
    BY <1>1, <2>1
  <2> QED BY <1>1, <2>2
<1>4. SUFFICES ASSUME NEW k \in DOMAIN w, NEW l \in DOMAIN w, w[k] = w[l], w[k].kind # "think"
               PROVE  k = l
  BY DEF Once, w
<1>5. CASE k \in DOMAIN s /\ w[k] = s[k] /\ l \in DOMAIN s /\ w[l] = s[l]
  BY <1>4, <1>5 DEF Once
<1>6. CASE k - n \in DOMAIN e /\ w[k] = e[k - n] /\ l - n \in DOMAIN e /\ w[l] = e[l - n]
  <2>1. k - n = l - n
    BY <1>4, <1>6 DEF Once
  <2>2. k \in Nat /\ l \in Nat
    BY <1>1, <1>2
  <2> QED BY <1>1, <2>1, <2>2
<1>7. CASE k \in DOMAIN s /\ w[k] = s[k] /\ l - n \in DOMAIN e /\ w[l] = e[l - n]
  BY <1>4, <1>7 DEF Apart
<1>8. CASE k - n \in DOMAIN e /\ w[k] = e[k - n] /\ l \in DOMAIN s /\ w[l] = s[l]
  BY <1>4, <1>8 DEF Apart
<1> QED BY <1>3, <1>5, <1>6, <1>7, <1>8

\* The items of a list in front of the others are in there no more often.
LEMMA OnceFront ==
  ASSUME NEW S, NEW s \in Seq(S), NEW e \in Seq(S), Once(s \o e)
  PROVE  Once(s)
<1>1. /\ s \o e \in Seq(S) /\ Len(s \o e) = Len(s) + Len(e) /\ Len(s) \in Nat /\ Len(e) \in Nat
      /\ \A i \in 1 .. Len(s) : (s \o e)[i] = s[i]
  BY JoinIs
<1> DEFINE w == s \o e
<1>2. Once(w) /\ \A i \in DOMAIN s : i \in DOMAIN w /\ w[i] = s[i]
  BY <1>1
<1> HIDE DEF w
<1> QED BY <1>2 DEF Once

\* A list with new items behind it carries the list.
LEMMA CarriedMore ==
  ASSUME NEW S, NEW s \in Seq(S), NEW e \in Seq(S), Once(e), Apart(s, e)
  PROVE  Carried(s, s \o e)
  BY OrderMore, OnceJoin DEF Carried

\* What holds of the second of two joined lists.
LEMMA OrderBehind ==
  ASSUME NEW S, NEW u \in Seq(S), NEW s \in Seq(S), NEW t \in Seq(S), KeepsOrder(s, t)
  PROVE  KeepsOrder(u \o s, u \o t)
<1> DEFINE v == u \o s
           w == u \o t
           n == Len(u)
<1>1. /\ v \in Seq(S) /\ Len(v) = n + Len(s) /\ n \in Nat /\ Len(s) \in Nat
      /\ \A i \in 1 .. n : v[i] = u[i]
      /\ \A i \in 1 .. Len(s) : v[n + i] = s[i]
  BY JoinIs
<1>2. /\ w \in Seq(S) /\ Len(w) = n + Len(t) /\ Len(t) \in Nat
      /\ \A i \in 1 .. n : w[i] = u[i]
      /\ \A i \in 1 .. Len(t) : w[n + i] = t[i]
  BY JoinIs
<1>3. /\ DOMAIN s = 1 .. Len(s) /\ DOMAIN t = 1 .. Len(t) /\ DOMAIN v = 1 .. Len(v) /\ DOMAIN w = 1 .. Len(w)
  BY <1>1, <1>2
<1> HIDE DEF v, w, n
<1>4. SUFFICES ASSUME NEW i \in DOMAIN v, NEW j \in DOMAIN v, i <= j, v[i].kind # "think", v[j].kind # "think"
               PROVE  \E k, l \in DOMAIN w : k <= l /\ w[k] = v[i] /\ w[l] = v[j]
  BY DEF KeepsOrder, v, w
<1>5. \A x \in DOMAIN t : n + x \in DOMAIN w /\ w[n + x] = t[x] /\ x \in Nat /\ x > 0
  BY <1>1, <1>2, <1>3
<1>6. \A x \in 1 .. n : x \in DOMAIN w /\ w[x] = v[x]
  BY <1>1, <1>2, <1>3
<1>7. \A x \in DOMAIN v : x \in 1 .. n \/ (x - n \in DOMAIN s /\ v[x] = s[x - n])
  <2>1. SUFFICES ASSUME NEW x \in 1 .. Len(v), ~(x <= n) PROVE x - n \in 1 .. Len(s) /\ v[x] = s[x - n]
    BY <1>1, <1>3
  <2>2. x - n \in 1 .. Len(s) /\ n + (x - n) = x
    BY <1>1, <2>1
  <2> QED BY <1>1, <2>2
<1>8. i \in Nat /\ j \in Nat
  BY <1>1, <1>3
<1>9. CASE i \in 1 .. n /\ j \in 1 .. n
  BY <1>4, <1>6, <1>9
<1>10. CASE i \in 1 .. n /\ j - n \in DOMAIN s /\ v[j] = s[j - n]
  <2>1. s[j - n].kind # "think" /\ j - n <= j - n
    BY <1>1, <1>4, <1>8, <1>10
  <2>2. PICK l \in DOMAIN t : t[l] = s[j - n]
    BY <1>10, <2>1 DEF KeepsOrder
  <2>3. n + l \in DOMAIN w /\ w[n + l] = v[j] /\ i <= n + l
    BY <1>1, <1>5, <1>10, <2>2
  <2> QED BY <1>6, <1>10, <2>3
<1>11. CASE i - n \in DOMAIN s /\ v[i] = s[i - n] /\ j - n \in DOMAIN s /\ v[j] = s[j - n]
  <2>1. s[i - n].kind # "think" /\ s[j - n].kind # "think" /\ i - n <= j - n
    BY <1>1, <1>4, <1>8, <1>11
  <2>2. PICK k \in DOMAIN t, l \in DOMAIN t : k <= l /\ t[k] = s[i - n] /\ t[l] = s[j - n]
    BY <1>11, <2>1 DEF KeepsOrder
  <2>3. /\ n + k \in DOMAIN w /\ n + l \in DOMAIN w /\ w[n + k] = v[i] /\ w[n + l] = v[j]
        /\ n + k <= n + l
    BY <1>1, <1>5, <1>11, <2>2
  <2> QED BY <2>3
<1>12. CASE i - n \in DOMAIN s /\ j \in 1 .. n
  <2>1. i > n
    BY <1>1, <1>3, <1>8, <1>12
  <2> QED BY <1>1, <1>4, <1>8, <1>12, <2>1
<1> QED BY <1>4, <1>7, <1>9, <1>10, <1>11, <1>12

\* Placeholders put between items carry what they are put between.
LEMMA SpreadCarried ==
  ASSUME NEW S, NEW u \in Seq(S), NEW s \in Seq(S), NEW t \in Seq(S), NEW g, Spread(g, s, t)
  PROVE  Carried(u \o s, u \o t)
<1>0. Len(s) \in Nat /\ Len(t) \in Nat /\ \A k \in 0 .. Len(s) : g[k] \in Nat
  BY SpreadPlaces
<1>1. \A i \in 1 .. Len(s) : g[i] \in 1 .. Len(t) /\ t[g[i]] = s[i]
  <2>1. SUFFICES ASSUME NEW i \in 1 .. Len(s) PROVE g[i] \in 1 .. Len(t) /\ t[g[i]] = s[i]
    OBVIOUS
  <2>2. g[i] <= Len(t) /\ t[g[i]] = s[i] /\ (g[i] = g[i - 1] + 1 \/ g[i] = g[i - 1] + 2)
    BY DEF Spread
  <2>3. i - 1 \in 0 .. Len(s) /\ i \in 0 .. Len(s)
    BY <1>0
  <2> DEFINE x == g[i]
             y == g[i - 1]
  <2>4. x \in Nat /\ y \in Nat /\ x <= Len(t) /\ (x = y + 1 \/ x = y + 2)
    BY <1>0, <2>2, <2>3
  <2> HIDE DEF x, y
  <2>5. x \in 1 .. Len(t)
    BY <1>0, <2>4
  <2> QED BY <2>2, <2>5 DEF x
<1>2. \A i \in 1 .. Len(s), j \in 1 .. Len(s) : i <= j => g[i] <= g[j]
  <2>1. SUFFICES ASSUME NEW i \in 1 .. Len(s), NEW j \in 1 .. Len(s), i <= j PROVE g[i] <= g[j]
    OBVIOUS
  <2>2. i \in 0 .. Len(s) /\ j \in 0 .. Len(s)
    BY <1>0
  <2>3. g[i] \in Nat /\ g[j] \in Nat /\ g[i] + (j - i) <= g[j]
    BY <2>1, <2>2, SpreadGrows
  <2>4. i \in Nat /\ j \in Nat
    BY <1>0
  <2> QED BY <2>1, <2>3, <2>4
<1>3. DOMAIN s = 1 .. Len(s) /\ DOMAIN t = 1 .. Len(t) /\ DOMAIN u = 1 .. Len(u) /\ Len(u) \in Nat
  OBVIOUS
<1>4. KeepsOrder(s, t)
  BY <1>1, <1>2, <1>3 DEF KeepsOrder
<1>5. KeepsOrder(u \o s, u \o t)
  BY <1>4, OrderBehind
<1> DEFINE n == Len(u)
           f == [i \in 1 .. n + Len(s) |-> IF i <= n THEN i ELSE n + g[i - n]]
           v == u \o s
           w == u \o t
<1>6. /\ v \in Seq(S) /\ Len(v) = n + Len(s)
      /\ \A i \in 1 .. n : v[i] = u[i]
      /\ \A i \in 1 .. Len(s) : v[n + i] = s[i]
  BY JoinIs
<1>7. /\ w \in Seq(S) /\ Len(w) = n + Len(t)
      /\ \A i \in 1 .. n : w[i] = u[i]
      /\ \A i \in 1 .. Len(t) : w[n + i] = t[i]
  BY JoinIs
<1>8. DOMAIN v = 1 .. n + Len(s) /\ DOMAIN w = 1 .. n + Len(t)
  BY <1>6, <1>7
<1>9. \A i \in 1 .. n + Len(s) : f[i] = IF i <= n THEN i ELSE n + g[i - n]
  OBVIOUS
<1>10. n \in Nat
  BY <1>3
<1> HIDE DEF n, f, v, w
<1>11. ASSUME Once(v) PROVE Once(w)
  <2>1. SUFFICES ASSUME NEW x \in DOMAIN w, w[x].kind # "think" PROVE \E i \in DOMAIN v : x = f[i] /\ w[x] = v[i]
    BY <1>11, OnceMoved
  <2>2. CASE x <= n
    <3>1. x \in 1 .. n /\ x \in 1 .. n + Len(s)
      BY <1>0, <1>8, <1>10, <2>2
    <3>2. f[x] = x /\ w[x] = v[x]
      BY <1>6, <1>7, <1>9, <2>2, <3>1
    <3> QED BY <1>8, <3>1, <3>2
  <2>3. CASE ~(x <= n)
    <3>1. x - n \in 1 .. Len(t) /\ n + (x - n) = x
      BY <1>0, <1>8, <1>10, <2>3
    <3>2. w[x] = t[x - n]
      BY <1>7, <3>1
    <3>3. PICK i \in 1 .. Len(s) : x - n = g[i]
      BY <2>1, <3>1, <3>2, SpreadKnown
    <3>4. n + i \in 1 .. n + Len(s) /\ ~(n + i <= n) /\ (n + i) - n = i
      BY <1>0, <1>10
    <3>5. f[n + i] = n + g[i]
      BY <1>9, <3>4
    <3>6. f[n + i] = x
      BY <3>1, <3>3, <3>5
    <3>7. w[x] = v[n + i]
      BY <1>1, <1>6, <3>2, <3>3
    <3> QED BY <1>8, <3>4, <3>6, <3>7
  <2> QED BY <2>2, <2>3
<1> QED BY <1>5, <1>11 DEF Carried, v, w

\* A result made up behind its call carries the turn whose result was lost.
LEMMA MendedCarried ==
  ASSUME NEW n \in Nat, NEW c \in Nat, c + 1 <= n, NEW w \in Seq(MadeItems(n)), \A i \in 1 .. Len(w) : w[i].id < c
  PROVE  Carried(w \o LostTail(c), w \o MendedTail(c))
<1> DEFINE S == MadeItems(n)
           s == LostTail(c)
           t == MendedTail(c)
<1>1. s \in Seq(S) /\ t \in Seq(S) /\ w \in Seq(S)
  BY MendedSound
<1> HIDE DEF S
<1>2. Len(s) = 3 /\ s[1] = It("call", c) /\ s[2] = It("call", c + 1) /\ s[3] = It("out", c)
  BY DEF LostTail
<1>3. /\ Len(t) = 4 /\ t[1] = It("call", c) /\ t[2] = It("call", c + 1)
      /\ t[3] = It("out", c + 1) /\ t[4] = It("out", c)
  BY DEF MendedTail
<1>4. DOMAIN s = 1 .. 3 /\ DOMAIN t = 1 .. 4 /\ DOMAIN w = 1 .. Len(w)
  BY <1>1, <1>2, <1>3
<1> HIDE DEF s, t
<1>5. KeepsOrder(s, t)
  <2>1. SUFFICES ASSUME NEW i \in DOMAIN s, NEW j \in DOMAIN s, i <= j
                 PROVE  \E k, l \in DOMAIN t : k <= l /\ t[k] = s[i] /\ t[l] = s[j]
    BY DEF KeepsOrder
  <2>2. 1 \in DOMAIN t /\ 2 \in DOMAIN t /\ 4 \in DOMAIN t /\ 1 <= 1 /\ 1 <= 2 /\ 1 <= 4 /\ 2 <= 2 /\ 2 <= 4 /\ 4 <= 4
    BY <1>4
  <2>3. i = 1 \/ i = 2 \/ i = 3
    BY <1>4
  <2>4. j = 1 \/ j = 2 \/ j = 3
    BY <1>4
  <2>5. CASE i = 1
    BY <1>2, <1>3, <2>2, <2>4, <2>5
  <2>6. CASE i = 2
    <3>1. j = 2 \/ j = 3
      BY <2>1, <2>4, <2>6
    <3> QED BY <1>2, <1>3, <2>2, <2>6, <3>1
  <2>7. CASE i = 3
    <3>1. j = 3
      BY <2>1, <2>4, <2>7
    <3> QED BY <1>2, <1>3, <2>2, <2>7, <3>1
  <2> QED BY <2>3, <2>5, <2>6, <2>7
<1>6. /\ \A i \in 1 .. 4 : t[i].id = c \/ t[i].id = c + 1
      /\ t[1].kind = "call" /\ t[2].kind = "call" /\ t[3].kind = "out" /\ t[4].kind = "out"
      /\ t[1].id = c /\ t[2].id = c + 1 /\ t[3].id = c + 1 /\ t[4].id = c
  <2>1. /\ t[1].kind = "call" /\ t[2].kind = "call" /\ t[3].kind = "out" /\ t[4].kind = "out"
        /\ t[1].id = c /\ t[2].id = c + 1 /\ t[3].id = c + 1 /\ t[4].id = c
    BY <1>3 DEF It
  <2>2. \A i \in 1 .. 4 : i = 1 \/ i = 2 \/ i = 3 \/ i = 4
    OBVIOUS
  <2> QED BY <2>1, <2>2
<1>7. Once(t)
  <2>1. SUFFICES ASSUME NEW k \in DOMAIN t, NEW l \in DOMAIN t, t[k] = t[l] PROVE k = l
    BY DEF Once
  <2>2. k = 1 \/ k = 2 \/ k = 3 \/ k = 4
    BY <1>4
  <2>3. l = 1 \/ l = 2 \/ l = 3 \/ l = 4
    BY <1>4
  <2>4. t[k].kind = t[l].kind /\ t[k].id = t[l].id /\ c # c + 1
    BY <2>1
  <2> QED BY <1>6, <2>2, <2>3, <2>4
<1>8. Apart(w, t)
  <2>1. SUFFICES ASSUME NEW i \in 1 .. Len(w), NEW j \in 1 .. 4 PROVE w[i] # t[j]
    BY <1>4 DEF Apart
  <2>2. w[i].id < c /\ (t[j].id = c \/ t[j].id = c + 1)
    BY <1>6
  <2>3. ~(c < c) /\ ~(c + 1 < c)
    OBVIOUS
  <2> QED BY <2>2, <2>3
<1>9. KeepsOrder(w \o s, w \o t)
  BY <1>1, <1>5, OrderBehind
<1>10. Once(w \o s) => Once(w \o t)
  BY <1>1, <1>7, <1>8, OnceFront, OnceJoin
<1> QED BY <1>9, <1>10 DEF Carried, s, t

\* Items that were made after those there are.
After(n, e) == \A j \in DOMAIN e : n < e[j].id
OfKinds(e, ks) == \A j \in DOMAIN e : e[j].kind \in ks

\* They are none of those.
LEMMA AfterApart ==
  ASSUME NEW n \in Nat, NEW s \in Seq(MadeItems(n)), NEW e, After(n, e)
  PROVE  Apart(s, e)
<1>1. \A y \in MadeItems(n) : y.id \in 0 .. n
  BY DEF MadeItems
<1> DEFINE S == MadeItems(n)
<1> HIDE DEF S
<1>2. \A i \in DOMAIN s : s[i] \in S
  BY DEF S
<1>3. \A i \in DOMAIN s : s[i].id \in 0 .. n
  BY <1>1, <1>2 DEF S
<1>4. SUFFICES ASSUME NEW i \in DOMAIN s, NEW j \in DOMAIN e PROVE s[i] # e[j]
  BY DEF Apart
<1>5. s[i].id \in 0 .. n /\ n < e[j].id
  BY <1>3 DEF After
<1> QED BY <1>5

\* An answer, if there is one.
SayOf(text, k, e) == e = IF text THEN <<It("say", k)>> ELSE <<>>

\* It is new, and said once.
LEMMA SayOnce ==
  ASSUME NEW n \in Nat, NEW k \in Nat, n < k, NEW text \in BOOLEAN, NEW e, SayOf(text, k, e)
  PROVE  Once(e) /\ After(n, e) /\ OfKinds(e, {"say"})
<1>1. CASE text
  <2>1. DOMAIN e = {1} /\ e[1] = It("say", k)
    BY <1>1 DEF SayOf
  <2>2. e[1].kind = "say" /\ e[1].id = k
    BY <2>1 DEF It
  <2> QED BY <2>1, <2>2 DEF Once, After, OfKinds
<1>2. CASE ~text
  BY <1>2 DEF Once, After, OfKinds, SayOf
<1> QED BY <1>1, <1>2

\* The calls of a turn and their results, all of them new.
LEMMA BlockOnce ==
  ASSUME NEW m \in Nat, NEW n \in Nat, NEW c \in Nat, n <= c, NEW j \in 1 .. 2, NEW lost \in BOOLEAN,
         lost => j = 2, c + j <= m, NEW calls, NEW outs, BlockOf(calls, outs, c, j, lost)
  PROVE  /\ Once(calls \o outs) /\ After(n, calls \o outs)
         /\ OfKinds(calls \o outs, {"call", "out"})
<1> DEFINE S == MadeItems(m)
           h == IF lost THEN j - 1 ELSE j
           t == calls \o outs
<1>1. calls \in Seq(S) /\ outs \in Seq(S)
  BY ToolBlock
<1>2. h \in 1 .. 2
  OBVIOUS
<1>3. DOMAIN calls = 1 .. j /\ \A i \in 1 .. j : calls[i] = It("call", c + i)
  BY DEF BlockOf
<1>4. DOMAIN outs = 1 .. h /\ \A i \in 1 .. h : outs[i] = It("out", c + i)
  BY DEF BlockOf
<1> HIDE DEF S, h
<1>5. \A i \in DOMAIN calls : calls[i].kind = "call" /\ calls[i].id = c + i /\ i \in Nat /\ i > 0
  BY <1>3 DEF It
<1>6. \A i \in DOMAIN outs : outs[i].kind = "out" /\ outs[i].id = c + i /\ i \in Nat /\ i > 0
  BY <1>2, <1>4 DEF It
<1>7. /\ Len(t) = Len(calls) + Len(outs) /\ Len(calls) \in Nat /\ Len(outs) \in Nat /\ t \in Seq(S)
      /\ \A i \in 1 .. Len(calls) : t[i] = calls[i]
      /\ \A i \in 1 .. Len(outs) : t[Len(calls) + i] = outs[i]
  BY <1>1, JoinIs
<1>8. DOMAIN calls = 1 .. Len(calls) /\ DOMAIN outs = 1 .. Len(outs) /\ DOMAIN t = 1 .. Len(t)
  BY <1>1, <1>7
<1> HIDE DEF t
<1>9. Once(calls)
  <2>1. SUFFICES ASSUME NEW k \in DOMAIN calls, NEW l \in DOMAIN calls, calls[k] = calls[l] PROVE k = l
    BY DEF Once
  <2>2. c + k = c + l /\ k \in Nat /\ l \in Nat
    BY <1>5, <2>1
  <2> QED BY <2>2
<1>10. Once(outs)
  <2>1. SUFFICES ASSUME NEW k \in DOMAIN outs, NEW l \in DOMAIN outs, outs[k] = outs[l] PROVE k = l
    BY DEF Once
  <2>2. c + k = c + l /\ k \in Nat /\ l \in Nat
    BY <1>6, <2>1
  <2> QED BY <2>2
<1>11. Apart(calls, outs)
  BY <1>5, <1>6 DEF Apart
<1>12. Once(t)
  BY <1>1, <1>9, <1>10, <1>11, OnceJoin DEF t
<1>13. \A i \in DOMAIN t : (\E k \in DOMAIN calls : t[i] = calls[k]) \/ (\E k \in DOMAIN outs : t[i] = outs[k])
  <2>1. SUFFICES ASSUME NEW i \in 1 .. Len(t)
                 PROVE  (\E k \in DOMAIN calls : t[i] = calls[k]) \/ (\E k \in DOMAIN outs : t[i] = outs[k])
    BY <1>8
  <2>2. CASE i <= Len(calls)
    <3>1. i \in 1 .. Len(calls)
      BY <1>7, <2>2
    <3> QED BY <1>7, <1>8, <3>1
  <2>3. CASE ~(i <= Len(calls))
    <3>1. i - Len(calls) \in 1 .. Len(outs) /\ Len(calls) + (i - Len(calls)) = i
      BY <1>7, <2>3
    <3>2. t[i] = outs[i - Len(calls)]
      BY <1>7, <3>1
    <3> QED BY <1>8, <3>1, <3>2
  <2> QED BY <2>2, <2>3
<1>14. \A i \in DOMAIN calls : n < calls[i].id
  BY <1>5
<1>15. \A i \in DOMAIN outs : n < outs[i].id
  BY <1>6
<1>16. After(n, t)
  BY <1>13, <1>14, <1>15 DEF After
<1>17. OfKinds(t, {"call", "out"})
  BY <1>5, <1>6, <1>13 DEF OfKinds
<1> QED BY <1>12, <1>16, <1>17 DEF t

\* New items behind a list carry it.
LEMMA CarriedAfter ==
  ASSUME NEW n \in Nat, NEW m \in Nat, n <= m, NEW w \in Seq(MadeItems(n)), NEW e \in Seq(MadeItems(m)), Once(e), After(n, e)
  PROVE  Carried(w, w \o e)
<1>1. w \in Seq(MadeItems(m)) /\ Apart(w, e)
  BY MadeMore, AfterApart
<1> DEFINE S == MadeItems(m)
<1>2. w \in Seq(S) /\ e \in Seq(S)
  BY <1>1
<1> HIDE DEF S
<1> QED BY <1>1, <1>2, CarriedMore

\* The transcript so far has every item once, and what a run is about to save
\* has every item of it, in its order, once.
KeptInv ==
    /\ Once(hist)
    /\ run = NoRun \/ (Once(run.prefix \o run.input) /\ KeepsOrder(hist, run.prefix \o run.input))

\* What a step owes to the transcript.
KeptStep == KeptInv' /\ Once(hist') /\ KeepsOrder(hist, hist')

\* A run that goes on.
LEMMA LiveCarries ==
  ASSUME KeptInv, run.pc # "idle", hist' = hist, Carried(run.prefix \o run.input, run'.prefix \o run'.input)
  PROVE  KeptStep
<1> DEFINE v == run.prefix \o run.input
           w == run'.prefix \o run'.input
<1>1. Once(hist) /\ Once(v) /\ KeepsOrder(hist, v)
  BY DEF KeptInv, NoRun
<1>2. Carried(v, w)
  OBVIOUS
<1> HIDE DEF v, w
<1>3. Once(w) /\ KeepsOrder(hist, w)
  BY <1>1, <1>2, OrderThen DEF Carried
<1>4. KeepsOrder(hist, hist)
  BY CarriedSame DEF Carried
<1> QED BY <1>1, <1>3, <1>4 DEF KeptStep, KeptInv, w

\* A run that is over.
LEMMA EndCarries ==
  ASSUME KeptInv, run.pc # "idle", run' = NoRun, Carried(run.prefix \o run.input, hist')
  PROVE  KeptStep
<1> DEFINE v == run.prefix \o run.input
<1>1. Once(v) /\ KeepsOrder(hist, v)
  BY DEF KeptInv, NoRun
<1>2. Carried(v, hist')
  OBVIOUS
<1> HIDE DEF v
<1>3. Once(hist') /\ KeepsOrder(hist, hist')
  BY <1>1, <1>2, OrderThen DEF Carried
<1> QED BY <1>3 DEF KeptStep, KeptInv

\* What the invariant says of a run's lists.
LEMMA RunLists ==
  ASSUME ConvInv, run.pc # "idle"
  PROVE  /\ made \in Nat /\ run \in RunRecs(made)
         /\ run.prefix \in Seq(MadeItems(made)) /\ run.input \in Seq(MadeItems(made))
         /\ run.prefix \o run.input \in Seq(MadeItems(made))
<1>1. made \in Nat /\ run \in RunRecs(made)
  BY RunningSound DEF RunSound
<1> DEFINE S == MadeItems(made)
<1>2. run.prefix \in Seq(S) /\ run.input \in Seq(S)
  BY <1>1 DEF RunRecs
<1> HIDE DEF S
<1>3. run.prefix \o run.input \in Seq(S)
  BY <1>2
<1> QED BY <1>1, <1>2, <1>3 DEF S

\* New items behind the input are new items behind what will be saved.
LEMMA InputCarried ==
  ASSUME NEW n \in Nat, NEW m \in Nat, n <= m, NEW u \in Seq(MadeItems(n)), NEW s \in Seq(MadeItems(n)),
         NEW e \in Seq(MadeItems(m)), Once(e), After(n, e)
  PROVE  Carried(u \o s, u \o (s \o e))
<1> DEFINE S == MadeItems(m)
           R == MadeItems(n)
<1>1. u \in Seq(S) /\ s \in Seq(S) /\ e \in Seq(S)
  BY MadeMore
<1>2. u \in Seq(R) /\ s \in Seq(R)
  OBVIOUS
<1> HIDE DEF S, R
<1>3. ThreeJoined(u, s, e)
  BY <1>1, JoinThree
<1>4. u \o s \in Seq(R)
  BY <1>2
<1> DEFINE w == u \o s
<1> HIDE DEF w
<1>5. w \in Seq(MadeItems(n))
  BY <1>4 DEF R, w
<1>6. Carried(w, w \o e)
  BY <1>5, CarriedAfter
<1>7. w \o e = u \o (s \o e)
  BY <1>3, Zenon DEF ThreeJoined, w
<1> QED BY <1>6, <1>7 DEF w

\* The steps that leave the run's lists alone.
LEMMA StillKept ==
  ASSUME ConvInv, KeptInv, ModelCall \/ ModelFails \/ RetryUnpinned
  PROVE  KeptStep
<1>1. run.pc # "idle" /\ hist' = hist
  BY DEF ModelCall, ModelFails, RetryUnpinned
<1>2. made \in Nat /\ run \in RunRecs(made) /\ run.input \in Seq(MadeItems(made))
  BY <1>1, RunLists
<1>3. run'.prefix = run.prefix /\ run'.input = run.input
  <2>1. CASE ModelCall
    <3>1. PICK f \in Filtered(run, run.input) : run' = [f EXCEPT !.pc = "asked", !.turns = @ + 1]
      BY <2>1, Zenon DEF ModelCall
    <3>2. f \in RunRecs(made) /\ f.prefix = run.prefix /\ f.input = run.input
      BY <1>2, FilteredSound DEF FilterKeeps
    <3> DEFINE t == f.turns + 1
    <3>3. run' = [f EXCEPT !.pc = "asked", !.turns = t]
      BY <3>1
    <3> HIDE DEF t
    <3> QED BY <3>2, <3>3 DEF RunRecs
  <2>2. CASE ModelFails
    <3>1. PICK e \in {"limit", "raised"} : run' = [run EXCEPT !.pc = e, !.sent = <<>>]
      BY <2>2 DEF ModelFails
    <3> DEFINE nil == <<>>
    <3>2. run' = [run EXCEPT !.pc = e, !.sent = nil]
      BY <3>1
    <3> HIDE DEF nil
    <3> QED BY <1>2, <3>2 DEF RunRecs
  <2>3. CASE RetryUnpinned
    <3>1. run' = [run EXCEPT !.pc = "ready", !.pin = FALSE, !.turns = 0]
      BY <2>3 DEF RetryUnpinned
    <3> QED BY <1>2, <3>1 DEF RunRecs
  <2> QED BY <2>1, <2>2, <2>3
<1>4. Carried(run.prefix \o run.input, run'.prefix \o run'.input)
  BY <1>3, CarriedSame
<1> QED BY <1>1, <1>4, LiveCarries

\* All that a turn of tools adds is new, and in there once.
LEMMA TurnOnce ==
  ASSUME NEW n \in Nat, NEW text \in BOOLEAN, NEW lost \in BOOLEAN, NEW j \in 1 .. 2, NEW c, TurnOf(n, c, j, text, lost),
         NEW calls, NEW outs, BlockOf(calls, outs, c, j, lost), NEW a, SayOf(text, c, a), NEW m, m = c + j
  PROVE  /\ m \in Nat /\ n <= m
         /\ a \in Seq(MadeItems(m)) /\ calls \in Seq(MadeItems(m)) /\ outs \in Seq(MadeItems(m))
         /\ Once(a \o (calls \o outs)) /\ After(n, a \o (calls \o outs))
<1> DEFINE S == MadeItems(m)
           t == calls \o outs
           e == a \o t
<1>1. c \in Nat /\ n <= c /\ (text => n < c) /\ c <= m /\ m \in Nat /\ n <= m /\ c + j <= m /\ (lost => j = 2)
  BY DEF TurnOf
<1>2. calls \in Seq(S) /\ outs \in Seq(S)
  BY <1>1, ToolBlock
<1>3. Once(t) /\ After(n, t) /\ OfKinds(t, {"call", "out"})
  BY <1>1, BlockOnce
<1>4. a \in Seq(S) /\ Once(a) /\ After(n, a) /\ OfKinds(a, {"say"})
  <2>1. CASE text
    <3>1. It("say", c) \in S
      BY <1>1 DEF It, MadeItems, Kinds
    <3> HIDE DEF S
    <3>2. a \in Seq(S)
      BY <2>1, <3>1 DEF SayOf
    <3>3. Once(a) /\ After(n, a) /\ OfKinds(a, {"say"})
      BY <1>1, <2>1, SayOnce
    <3> QED BY <3>2, <3>3
  <2>2. CASE ~text
    <3>1. a = <<>>
      BY <2>2 DEF SayOf
    <3> QED BY <3>1 DEF Once, After, OfKinds
  <2> QED BY <2>1, <2>2
<1> HIDE DEF S
<1>5. t \in Seq(S)
  BY <1>2
<1> HIDE DEF t
<1>6. Once(e)
  <2>1. Apart(a, t)
    BY <1>3, <1>4 DEF Apart, OfKinds
  <2> QED BY <1>3, <1>4, <1>5, <2>1, OnceJoin
<1>7. After(n, e)
  <2>3. /\ e \in Seq(S) /\ Len(e) = Len(a) + Len(t) /\ Len(a) \in Nat /\ Len(t) \in Nat
        /\ \A i \in 1 .. Len(a) : e[i] = a[i]
        /\ \A i \in 1 .. Len(t) : e[Len(a) + i] = t[i]
    BY <1>4, <1>5, JoinIs
  <2>4. DOMAIN a = 1 .. Len(a) /\ DOMAIN t = 1 .. Len(t) /\ DOMAIN e = 1 .. Len(e)
    BY <1>4, <1>5, <2>3
  <2> HIDE DEF e
  <2>5. SUFFICES ASSUME NEW i \in 1 .. Len(e) PROVE n < e[i].id
    BY <2>3, <2>4 DEF After
  <2>6. CASE i <= Len(a)
    <3>1. i \in 1 .. Len(a)
      BY <2>3, <2>6
    <3> QED BY <1>4, <2>3, <2>4, <3>1 DEF After
  <2>7. CASE ~(i <= Len(a))
    <3>1. i - Len(a) \in 1 .. Len(t) /\ Len(a) + (i - Len(a)) = i
      BY <2>3, <2>7
    <3>2. e[i] = t[i - Len(a)]
      BY <2>3, <3>1
    <3> QED BY <1>3, <2>4, <3>1, <3>2 DEF After
  <2> QED BY <2>6, <2>7
<1> QED BY <1>1, <1>2, <1>4, <1>6, <1>7 DEF S, e, t

\* A turn of tool calls and their results.
LEMMA ToolKept ==
  ASSUME ConvInv, KeptInv, ToolTurn
  PROVE  KeptStep
<1>1. run.pc # "idle" /\ hist' = hist
  BY DEF ToolTurn
<1>2. PICK j \in 1 .. 2, text \in BOOLEAN, lost \in BOOLEAN :
        LET c == made + IF text THEN 1 ELSE 0
            calls == [i \in 1 .. j |-> It("call", c + i)]
            outs == [i \in 1 .. (IF lost THEN j - 1 ELSE j) |-> It("out", c + i)]
        IN /\ lost => j = 2
           /\ ToolRec(run, c, text, lost, calls, outs, run')
           /\ made' = c + j
  BY Zenon DEF ToolTurn, ToolRec
<1> DEFINE c == made + IF text THEN 1 ELSE 0
           calls == [i \in 1 .. j |-> It("call", c + i)]
           outs == [i \in 1 .. (IF lost THEN j - 1 ELSE j) |-> It("out", c + i)]
           a == IF text THEN <<It("say", c)>> ELSE <<>>
           e == a \o (calls \o outs)
           m == made'
           S == MadeItems(m)
           u == run.prefix
           s == run.input
<1>3. (lost => j = 2) /\ ToolRec(run, c, text, lost, calls, outs, run') /\ m = c + j
  BY <1>2
<1>4. BlockOf(calls, outs, c, j, lost) /\ TurnOf(made, c, j, text, lost) /\ SayOf(text, c, a)
  BY <1>3, Zenon DEF BlockOf, TurnOf, SayOf
<1>5. /\ made \in Nat /\ run \in RunRecs(made) /\ u \in Seq(MadeItems(made)) /\ s \in Seq(MadeItems(made))
  BY <1>1, RunLists
<1> HIDE DEF c, calls, outs, a, m
<1>6. /\ m \in Nat /\ made <= m /\ a \in Seq(S) /\ calls \in Seq(S) /\ outs \in Seq(S)
      /\ Once(e) /\ After(made, e)
  BY <1>3, <1>4, <1>5, TurnOnce
<1> HIDE DEF S, u, s
<1>7. e \in Seq(S)
  BY <1>6
<1>8. run'.prefix = u /\ run'.input = s \o e
  <2> DEFINE i == ((s \o a) \o calls) \o outs
             nil == <<>>
             k == run.calls + 1
             p == IF lost THEN "raised" ELSE "ready"
             d == run.said \/ text
  <2>1. run' = [run EXCEPT !.pc = p, !.calls = k, !.sent = nil, !.named = TRUE, !.said = d, !.input = i]
    BY <1>3 DEF ToolRec, a, s
  <2> HIDE DEF i, nil, k, p, d
  <2>2. run'.prefix = u /\ run'.input = i
    BY <1>5, <2>1 DEF RunRecs, u
  <2>3. s \in Seq(S)
    BY <1>5, <1>6, MadeMore DEF S
  <2>4. FourJoined(s, a, calls, outs)
    BY <1>6, <2>3, JoinFour
  <2>5. i = s \o e
    BY <2>4, Zenon DEF FourJoined, i
  <2> QED BY <2>2, <2>5
<1> HIDE DEF e
<1>9. Carried(u \o s, u \o (s \o e))
  BY <1>5, <1>6, <1>7, InputCarried DEF S
<1>10. Carried(run.prefix \o run.input, run'.prefix \o run'.input)
  BY <1>8, <1>9 DEF u, s
<1> QED BY <1>1, <1>10, LiveCarries

\* An answer of the model, or none.
LEMMA ReplyKept ==
  ASSUME ConvInv, KeptInv, Answer
  PROVE  KeptStep
<1>1. run.pc # "idle" /\ hist' = hist
  BY DEF Answer
<1>2. (AnswerRec(run, made, run') /\ made' = made + 1) \/ SilentRec(run, run')
  BY Zenon DEF Answer, AnswerRec, SilentRec
<1>3. /\ made \in Nat /\ run \in RunRecs(made)
      /\ run.prefix \in Seq(MadeItems(made)) /\ run.input \in Seq(MadeItems(made))
  BY <1>1, RunLists
<1> DEFINE nil == <<>>
           k == run.calls + 1
<1>4. CASE SilentRec(run, run')
  <2>1. run' = [run EXCEPT !.pc = "over", !.calls = k, !.sent = nil]
    BY <1>4 DEF SilentRec
  <2> HIDE DEF nil, k
  <2>2. run'.prefix = run.prefix /\ run'.input = run.input
    BY <1>3, <2>1 DEF RunRecs
  <2>3. Carried(run.prefix \o run.input, run'.prefix \o run'.input)
    BY <2>2, CarriedSame
  <2> QED BY <1>1, <2>3, LiveCarries
<1>5. CASE AnswerRec(run, made, run') /\ made' = made + 1
  <2> DEFINE m == made + 1
             x == It("say", m)
             e == IF TRUE THEN <<It("say", m)>> ELSE <<>>
             i == Append(run.input, x)
             u == run.prefix
             s == run.input
             S == MadeItems(m)
  <2>1. m \in Nat /\ made < m /\ made <= m
    BY <1>3
  <2>2. x \in S
    BY <1>3 DEF It, MadeItems, Kinds
  <2>3. s \in Seq(S)
    BY <1>3, <2>1, MadeMore
  <2>4. Once(e) /\ After(made, e)
    <3>1. SayOf(TRUE, m, e)
      BY Zenon DEF SayOf
    <3> HIDE DEF m, e
    <3> QED BY <1>3, <2>1, <3>1, SayOnce
  <2>5. run' = [run EXCEPT !.pc = "over", !.calls = k, !.said = TRUE, !.sent = nil, !.input = i]
    BY <1>5 DEF AnswerRec
  <2>6. e = <<x>>
    OBVIOUS
  <2> HIDE DEF nil, k, e, S, x
  <2>7. e \in Seq(S) /\ i = s \o e
    BY <2>2, <2>3, <2>6
  <2> HIDE DEF i
  <2>8. run'.prefix = u /\ run'.input = i
    BY <1>3, <2>5 DEF RunRecs
  <2> HIDE DEF m, u, s
  <2>9. Carried(u \o s, u \o (s \o e))
    BY <1>3, <2>1, <2>4, <2>7, InputCarried DEF S, u, s
  <2>10. Carried(run.prefix \o run.input, run'.prefix \o run'.input)
    BY <2>7, <2>8, <2>9 DEF u, s
  <2> QED BY <1>1, <2>10, LiveCarries
<1> QED BY <1>2, <1>4, <1>5

\* A rescue puts placeholders in, and has nothing to repair.
LEMMA RescueKept ==
  ASSUME ConvInv, KeptInv, Rescue
  PROVE  KeptStep
<1> DEFINE u == run.prefix
           s == run.input
           t == InjectSyntheticReasoning(s)
           S == MadeItems(made)
<1>1. run.pc # "idle" /\ run.pc # "raised" /\ hist' = hist
  BY DEF Rescue
<1>2. RescueRec(run, RepairDanglingToolCalls(t), run')
  BY Zenon DEF Rescue, RescueRec
<1>3. made \in Nat /\ run \in RunRecs(made) /\ u \in Seq(S) /\ s \in Seq(S)
  BY <1>1, RunLists
<1>4. Replied(u \o s)
  BY <1>1, RunningSound DEF RunSound, Listed
<1>5. t \in Seq(S) /\ \E g : Spread(g, s, t)
  <2> HIDE DEF s
  <2> QED BY <1>3, InjectSpreads
<1>6. run'.prefix = u /\ run'.input = RepairDanglingToolCalls(t)
  <2> DEFINE i == RepairDanglingToolCalls(t)
             k == run.rescues + 1
             cap == TurnsAfterRescue(run)
             mode == IF run.mode \in {"failed", "hard"} THEN "hard" ELSE "on"
  <2>1. run' = [run EXCEPT !.pc = "ready", !.rescues = k, !.turns = 0, !.named = FALSE, !.cap = cap,
                           !.mode = mode, !.input = i]
    BY <1>2 DEF RescueRec
  <2> HIDE DEF i, k, cap, mode
  <2>2. run'.prefix = run.prefix /\ run'.input = i
    BY <1>3, <2>1 DEF RunRecs
  <2> QED BY <2>2 DEF i
<1> HIDE DEF S, u, s, t
<1>7. PICK g : Spread(g, s, t)
  BY <1>5
<1>8. Replied(t)
  <2>1. Replied(u \o t)
    BY <1>3, <1>4, <1>5, <1>7, SpreadReplied
  <2> QED BY <1>3, <1>5, <2>1, RepliedBehind
<1>9. RepairDanglingToolCalls(t) = t
  BY <1>3, <1>5, <1>8, RepairSame DEF S
<1>10. Carried(u \o s, u \o t)
  BY <1>3, <1>5, <1>7, SpreadCarried
<1>11. Carried(run.prefix \o run.input, run'.prefix \o run'.input)
  BY <1>6, <1>9, <1>10 DEF u, s
<1> QED BY <1>1, <1>11, LiveCarries

\* A question, or none, is new.
LEMMA AskOnce ==
  ASSUME NEW n \in Nat, NEW m \in Nat, NEW q \in BOOLEAN, m = (IF q THEN n + 1 ELSE n), NEW e,
         e = IF q THEN <<It("user", n + 1)>> ELSE <<>>
  PROVE  e \in Seq(MadeItems(m)) /\ Once(e) /\ After(n, e)
<1>1. CASE q
  <2>1. It("user", n + 1) \in MadeItems(m) /\ It("user", n + 1).id = n + 1
    BY <1>1 DEF It, MadeItems, Kinds
  <2> DEFINE x == It("user", n + 1)
             S == MadeItems(m)
  <2>2. x \in S /\ x.id = n + 1 /\ e = <<x>>
    BY <1>1, <2>1
  <2> HIDE DEF x, S
  <2>3. e \in Seq(S) /\ DOMAIN e = {1} /\ e[1] = x
    BY <2>2
  <2>4. Once(e) /\ After(n, e)
    BY <2>2, <2>3 DEF Once, After
  <2> QED BY <2>3, <2>4 DEF S
<1>2. CASE ~q
  <2>1. e = <<>> /\ DOMAIN e = {}
    BY <1>2
  <2>2. Once(e) /\ After(n, e)
    BY <2>1 DEF Once, After
  <2>3. e \in Seq(MadeItems(m))
    BY <2>1, NothingMore, Zenon DEF NoMore
  <2> QED BY <2>2, <2>3
<1> QED BY <1>1, <1>2

\* A run starts from the whole transcript, cut in two, and the question.
LEMMA StartKept ==
  ASSUME ConvInv, KeptInv, RunStart
  PROVE  KeptStep
<1>p. PICK c \in CompactForRun, q \in BOOLEAN, mode \in {"on", "off", "failed"} :
        LET dropped == Len(hist) - Len(c.sent)
            F == IF c.cursor > Len(hist) THEN 0 ELSE c.cursor
            ask == IF q THEN <<It("user", made + 1)>> ELSE <<>>
            input == InjectSyntheticReasoning(c.sent \o ask)
        IN /\ q \/ hist # <<>>
           /\ mode = "off" => c.sent = hist /\ c.cursor = cursor
           /\ cursor' = c.cursor /\ covered' = c.covered
           /\ run' = [pc |-> "ready", mode |-> mode, prefix |-> Upto(hist, dropped),
                      input |-> input, sent |-> <<>>,
                      prefixLen |-> IF mode = "failed" THEN 0 ELSE dropped,
                      fold |-> 0, sum |-> IF mode = "failed" THEN {} ELSE c.covered,
                      l2 |-> FALSE, fails |-> 0, turns |-> 0, cap |-> MaxTurns,
                      calls |-> 0, rescues |-> 0, pin |-> q, said |-> FALSE, named |-> FALSE,
                      cut |-> Items(SubSeq(hist, F + 1, dropped))]
           /\ made' = IF q THEN made + 1 ELSE made
           /\ shifted' = (shifted \/ Shifts(c.cursor - dropped, c.sent \o ask, input))
  <2>1. RunStart
    OBVIOUS
  <2> QED BY <2>1, Zenon DEF RunStart
<1>0. LET dropped == Len(hist) - Len(c.sent)
          F == IF c.cursor > Len(hist) THEN 0 ELSE c.cursor
          ask == IF q THEN <<It("user", made + 1)>> ELSE <<>>
          input == InjectSyntheticReasoning(c.sent \o ask)
      IN /\ StartRec(q, mode, Upto(hist, dropped), input, dropped, c.covered,
                     Items(SubSeq(hist, F + 1, dropped)), run')
         /\ made' = IF q THEN made + 1 ELSE made
  BY <1>p, Zenon DEF StartRec
<1>2. PICK k \in 0 .. Len(hist) : CutAt(k, c.sent, c.cursor, c.covered)
  BY CompactSound
<1> DEFINE m == made'
           S == MadeItems(m)
           pre == Upto(hist, k)
           ask == IF q THEN <<It("user", made + 1)>> ELSE <<>>
           rest == c.sent
           s == rest \o ask
           t == InjectSyntheticReasoning(s)
<1>3. made \in Nat /\ hist \in Seq(MadeItems(made)) /\ Once(hist)
  BY DEF ConvInv, ConvType, KeptInv
<1>4. rest = From(hist, k)
  BY <1>2 DEF CutAt
<1>5. m \in Nat /\ made <= m /\ m = IF q THEN made + 1 ELSE made
  BY <1>0, <1>3
<1> HIDE DEF m
<1>6. ask \in Seq(S) /\ Once(ask) /\ After(made, ask)
  BY <1>3, <1>5, AskOnce
<1>7. hist \in Seq(S)
  BY <1>3, <1>5, MadeMore
<1> HIDE DEF S, ask
<1>8. pre \in Seq(S) /\ Len(pre) = k /\ pre \o From(hist, k) = hist
  BY <1>2, <1>7, CutApart
<1>9. rest \in Seq(S) /\ Len(rest) = Len(hist) - k /\ Len(hist) \in Nat
  BY <1>2, <1>4, <1>7, FromIs
<1>10. Len(hist) - Len(c.sent) = k
  BY <1>2, <1>9
<1>11. run'.prefix = pre /\ run'.input = t
  <2> DEFINE F == IF c.cursor > Len(hist) THEN 0 ELSE c.cursor
  <2>1. StartRec(q, mode, pre, t, k, c.covered, Items(SubSeq(hist, F + 1, k)), run')
    BY <1>0, <1>10, Zenon DEF ask
  <2> DEFINE cut == Items(SubSeq(hist, F + 1, k))
             cov == c.covered
  <2> HIDE DEF pre, t, cut, cov
  <2>2. StartRec(q, mode, pre, t, k, cov, cut, run')
    BY <2>1 DEF cut, cov
  <2> QED BY <2>2, Zenon DEF StartRec
<1>12. s \in Seq(S) /\ pre \o s = hist \o ask
  <2> DEFINE y == From(hist, k)
             p == pre
  <2>1. y \in Seq(S) /\ p \in Seq(S) /\ ask \in Seq(S) /\ p \o y = hist /\ rest = y
    BY <1>4, <1>6, <1>8, <1>9
  <2> HIDE DEF y, p
  <2>2. p \in Seq(S) /\ y \in Seq(S) /\ ask \in Seq(S)
    BY <2>1
  <2>3. ThreeJoined(p, y, ask) /\ y \o ask \in Seq(S)
    BY <2>2, JoinThree
  <2>4. (p \o y) \o ask = p \o (y \o ask)
    BY <2>3, Zenon DEF ThreeJoined
  <2> QED BY <2>1, <2>3, <2>4 DEF p
<1> HIDE DEF pre, s, t, rest
<1>13. t \in Seq(S) /\ \E g : Spread(g, s, t)
  BY <1>5, <1>12, InjectSpreads DEF t, S
<1>14. PICK g : Spread(g, s, t)
  BY <1>13
<1>15. Carried(pre \o s, pre \o t)
  BY <1>8, <1>12, <1>13, <1>14, SpreadCarried
<1>16. Carried(hist, hist \o ask)
  BY <1>3, <1>5, <1>6, CarriedAfter DEF S
<1> DEFINE v == hist \o ask
           w == pre \o t
<1>17. Carried(hist, v) /\ Carried(v, w)
  BY <1>12, <1>15, <1>16
<1> HIDE DEF v, w
<1>18. Once(w) /\ KeepsOrder(hist, w)
  BY <1>3, <1>17, OrderThen DEF Carried
<1>19. KeepsOrder(hist, hist)
  BY CarriedSame DEF Carried
<1>20. hist' = hist
  BY DEF RunStart
<1>21. run'.prefix \o run'.input = w
  BY <1>11 DEF w
<1> QED BY <1>3, <1>18, <1>19, <1>20, <1>21 DEF KeptStep, KeptInv

\* What is saved is the list as it is.
LEMMA SavedKept ==
  ASSUME ConvInv, KeptInv, Succeed \/ Pause
  PROVE  KeptStep
<1>1. run.pc # "idle" /\ Replied(run.prefix \o run.input) /\ run' = NoRun
  <2>1. run.pc \in {"over", "ready"} /\ run' = NoRun
    BY DEF Succeed, Pause, EndRun
  <2> QED BY <2>1, RunningSound DEF RunSound, Listed
<1>2. RepairDanglingToolCalls(run.input) = run.input
  BY <1>1, RepairedSame
<1>3. EndRun(run, run.input, TRUE)
  BY <1>2 DEF Succeed, Pause
<1>4. hist' = run.prefix \o run.input
  BY <1>3, Zenon DEF EndRun, Saved
<1>5. Carried(run.prefix \o run.input, hist')
  BY <1>4, CarriedSame
<1> QED BY <1>1, <1>5, EndCarries

\* The answer to a synthesis call is saved behind the whole list.
LEMMA SynthesisKept ==
  ASSUME ConvInv, KeptInv, Synthesize
  PROVE  KeptStep
<1> DEFINE flat == InjectSyntheticReasoning(FlattenToolItems(run.input))
<1>1. run.pc # "idle" /\ run.pc = "ready"
  BY DEF Synthesize
<1>2. PICK r \in Filtered(run, flat), ok \in BOOLEAN :
        EndRun(r, RepairDanglingToolCalls(run.input) \o (IF ok THEN <<It("say", made + 1)>> ELSE <<>>), TRUE)
  BY Zenon DEF Synthesize
<1>3. /\ made \in Nat /\ run \in RunRecs(made)
      /\ run.prefix \in Seq(MadeItems(made)) /\ run.input \in Seq(MadeItems(made))
  BY <1>1, RunLists
<1>4. Replied(run.prefix \o run.input)
  BY <1>1, RunningSound DEF RunSound, Listed
<1>5. RepairDanglingToolCalls(run.input) = run.input
  BY <1>1, <1>4, RepairedSame
<1>6. flat \in Seq(MadeItems(made))
  BY <1>3, FlattenType, InjectSpreads
<1> HIDE DEF flat
<1>7. r.prefix = run.prefix
  BY <1>2, <1>3, <1>6, FilteredSound DEF FilterKeeps
<1> DEFINE e == IF ok THEN <<It("say", made + 1)>> ELSE <<>>
           m == made + 1
<1>8. e \in Seq(MadeItems(m)) /\ Once(e) /\ After(made, e) /\ m \in Nat /\ made <= m
  <2>1. SayOf(ok, made + 1, e)
    BY Zenon DEF SayOf
  <2>2. It("say", made + 1) \in MadeItems(m)
    BY <1>3 DEF It, MadeItems, Kinds
  <2>3. made + 1 \in Nat /\ made < made + 1 /\ m \in Nat /\ made <= m
    BY <1>3
  <2>4. e \in Seq(MadeItems(m))
    <3> HIDE DEF m
    <3> DEFINE S == MadeItems(m)
               x == It("say", made + 1)
    <3>1. x \in S /\ e = IF ok THEN <<x>> ELSE <<>>
      BY <2>2
    <3> HIDE DEF S, x, e
    <3>2. e \in Seq(S)
      BY <3>1
    <3> QED BY <3>2 DEF S
  <2> HIDE DEF e
  <2>5. Once(e) /\ After(made, e)
    BY <1>3, <2>1, <2>3, SayOnce
  <2> QED BY <2>3, <2>4, <2>5
<1>9. hist' = run.prefix \o (run.input \o e) /\ run' = NoRun
  <2>1. EndRun(r, run.input \o e, TRUE)
    BY <1>2, <1>5
  <2> HIDE DEF e
  <2>2. hist' = r.prefix \o (run.input \o e) /\ run' = NoRun
    BY <2>1, Zenon DEF EndRun, Saved
  <2> QED BY <1>7, <2>2
<1> HIDE DEF e, m
<1>10. Carried(run.prefix \o run.input, run.prefix \o (run.input \o e))
  BY <1>3, <1>8, InputCarried
<1> QED BY <1>1, <1>9, <1>10, EndCarries

\* A run that fails is saved with the result that was lost made up.
LEMMA FailKept ==
  ASSUME ConvInv, KeptInv, Fail
  PROVE  KeptStep
<1> DEFINE S == MadeItems(made)
           u == run.prefix
<1>1. /\ run.pc # "idle" /\ EndRun(run, RepairDanglingToolCalls(run.input), FALSE)
  BY DEF Fail
<1>2. RunSound(run, made, cursor, covered, unseen, blind, shifted) /\ made \in Nat
  BY <1>1, RunningSound
<1>3. hist' = run.prefix \o RepairDanglingToolCalls(run.input) /\ run' = NoRun
  BY <1>1, Zenon DEF EndRun, Saved
<1>4. CASE Replied(run.prefix \o run.input)
  <2>1. RepairDanglingToolCalls(run.input) = run.input
    BY <1>1, <1>4, RepairedSame
  <2>2. Carried(run.prefix \o run.input, hist')
    BY <1>3, <2>1, CarriedSame
  <2> QED BY <1>1, <1>3, <2>2, EndCarries
<1>5. CASE ~Replied(run.prefix \o run.input)
  <2>1. \E c \in Nat, base \in Seq(S) :
            /\ c + 1 <= made /\ run.input = base \o LostTail(c) /\ Replied(u \o base)
            /\ \A i \in 1 .. Len(base) : base[i].id < c
            /\ \A i \in 1 .. Len(u) : u[i].id < c
    BY <1>2, <1>5, Zenon DEF RunSound, Listed
  <2>2. PICK c \in Nat, base \in Seq(S) :
            /\ c + 1 <= made /\ run.input = base \o LostTail(c) /\ Replied(u \o base)
            /\ \A i \in 1 .. Len(base) : base[i].id < c
            /\ \A i \in 1 .. Len(u) : u[i].id < c
    BY <2>1
  <2> DEFINE lost == LostTail(c)
             mended == MendedTail(c)
             w == u \o base
  <2>3. u \in Seq(S) /\ base \in Seq(S) /\ lost \in Seq(S) /\ mended \in Seq(S)
    BY <1>1, <1>2, <2>2, MendedSound, RunLists
  <2>4. RepairDanglingToolCalls(base \o lost) = base \o mended
    <3>1. Replied(base)
      <4> HIDE DEF S, u
      <4> QED BY <2>2, <2>3, RepliedBehind
    <3> QED BY <1>2, <2>2, <3>1, RepairLost
  <2>5. /\ w \in Seq(S) /\ Len(w) = Len(u) + Len(base) /\ Len(u) \in Nat /\ Len(base) \in Nat
        /\ \A i \in 1 .. Len(u) : w[i] = u[i]
        /\ \A i \in 1 .. Len(base) : w[Len(u) + i] = base[i]
    <3> HIDE DEF S, u
    <3> QED BY <2>3, JoinIs
  <2>6. hist' = u \o (base \o mended) /\ run.input = base \o lost
    BY <1>3, <2>2, <2>4
  <2> HIDE DEF S, u, lost, mended, w
  <2>7. \A i \in 1 .. Len(w) : w[i].id < c
    <3>1. SUFFICES ASSUME NEW i \in 1 .. Len(w) PROVE w[i].id < c
      OBVIOUS
    <3>2. CASE i <= Len(u)
      <4>1. i \in 1 .. Len(u)
        BY <2>5, <3>2
      <4> QED BY <2>2, <2>5, <4>1
    <3>3. CASE ~(i <= Len(u))
      <4>1. i - Len(u) \in 1 .. Len(base) /\ Len(u) + (i - Len(u)) = i
        BY <2>5, <3>3
      <4>2. w[i] = base[i - Len(u)]
        BY <2>5, <4>1
      <4> QED BY <2>2, <4>1, <4>2
    <3> QED BY <3>2, <3>3
  <2>8. Carried(w \o lost, w \o mended)
    BY <1>2, <2>2, <2>5, <2>7, MendedCarried DEF S, lost, mended
  <2>9. ThreeJoined(u, base, lost) /\ ThreeJoined(u, base, mended)
    BY <2>3, JoinThree
  <2>10. w \o lost = u \o (base \o lost) /\ w \o mended = u \o (base \o mended)
    BY <2>9, Zenon DEF ThreeJoined, w
  <2>11. Carried(run.prefix \o run.input, hist')
    BY <2>6, <2>8, <2>10 DEF u
  <2> QED BY <1>1, <1>3, <2>11, EndCarries
<1> QED BY <1>4, <1>5

\* A run that is cancelled saves nothing, and a step outside runs is none.
LEMMA RestKept ==
  ASSUME KeptInv, CancelRun \/ UNCHANGED convVars
  PROVE  KeptStep
<1>1. hist' = hist /\ (run' = NoRun \/ run' = run)
  BY DEF CancelRun, convVars
<1>2. KeepsOrder(hist, hist)
  BY CarriedSame DEF Carried
<1> QED BY <1>1, <1>2 DEF KeptStep, KeptInv

\* Every step owes that to the transcript, and pays.
LEMMA HistoryStep ==
  ASSUME ConvInv, KeptInv, [ConvNext]_convVars
  PROVE  KeptStep
  BY StartKept, StillKept, ToolKept, ReplyKept, RescueKept, SavedKept, SynthesisKept, FailKept, RestKept
  DEF ConvNext

\* However a run ends, the saved row has every item of the row before it, in
\* the same order, and none twice: what was folded or cut away in front is put
\* back once, and what the repair makes up is in nobody's way (agent.py:
\* persist_prefix, _repair_dangling_tool_calls, _finalize_history).
THEOREM HistoryAlwaysKept == ConvSpec => HistoryKept
<1>1. ConvInit => ConvInv /\ KeptInv
  <2>1. ConvInit => KeptInv
    BY DEF ConvInit, KeptInv, Once
  <2> QED BY <2>1, ConvStarts
<1>2. ConvInv /\ KeptInv /\ [ConvNext]_convVars => ConvInv' /\ KeptInv'
  BY ConvKeeps, HistoryStep DEF KeptStep
<1>3. ConvInv /\ KeptInv /\ [ConvNext]_convVars =>
         [hist' # hist => Once(hist') /\ KeepsOrder(hist, hist')]_hist
  BY HistoryStep DEF KeptStep
<1> QED BY <1>1, <1>2, <1>3, PTL DEF ConvSpec, HistoryKept

-----------------------------------------------------------------------------
(* The repair of the messages.                                             *)

\* The specification of the pass, and the messages it may meet.
RepairSpec == RepairInit /\ [][RepairNext]_repairVars

AskLists == {ids \in Seq(CallIds) : ids # <<>> /\ IsInjective(ids)}
AnyMessage == {Text, Empty} \cup {Asks(ids) : ids \in AskLists}
              \cup {Reply(id, real) : id \in CallIds, real \in BOOLEAN}

\* A message is one of four kinds.
MessageIs(m) ==
    \/ m = Text /\ m.role = "text"
    \/ m = Empty /\ m.role = "empty"
    \/ m.role = "calls" /\ m.ids \in AskLists /\ m = Asks(m.ids)
    \/ m.role = "tool" /\ m.id \in CallIds /\ m.real \in BOOLEAN /\ m = Reply(m.id, m.real)

\* Every message of a history is one of these.
LEMMA MessageKinds ==
  ASSUME NEW m \in AnyMessage
  PROVE  MessageIs(m)
  BY DEF AnyMessage, MessageIs, Text, Empty, Asks, Reply

\* What the kinds of messages look like.
LEMMA KindsDiffer ==
  /\ Text \in AnyMessage /\ Empty \in AnyMessage /\ Text.role = "text" /\ Empty.role = "empty"
  /\ \A ids \in AskLists : Asks(ids) \in AnyMessage /\ Asks(ids).role = "calls" /\ Asks(ids).ids = ids
  /\ \A id \in CallIds, real \in BOOLEAN :
        /\ Reply(id, real) \in AnyMessage /\ Reply(id, real).role = "tool"
        /\ Reply(id, real).id = id /\ Reply(id, real).real = real
<1>1. /\ Text \in AnyMessage /\ Empty \in AnyMessage
  BY DEF AnyMessage
<1>6. ASSUME NEW ids \in AskLists PROVE Asks(ids) \in AnyMessage
  BY DEF AnyMessage
<1>5. ASSUME NEW id \in CallIds, NEW real \in BOOLEAN PROVE Reply(id, real) \in AnyMessage
  BY DEF AnyMessage
<1>2. Text.role = "text" /\ Empty.role = "empty"
  BY DEF Text, Empty
<1>3. ASSUME NEW ids PROVE Asks(ids).role = "calls" /\ Asks(ids).ids = ids
  BY DEF Asks
<1>4. ASSUME NEW id, NEW real
      PROVE  Reply(id, real).role = "tool" /\ Reply(id, real).id = id /\ Reply(id, real).real = real
  BY DEF Reply
<1> QED BY <1>1, <1>2, <1>3, <1>4, <1>5, <1>6

\* A set of numbers with a member has a least one.
LEMMA LeastIs ==
  ASSUME NEW S \in SUBSET Nat, NEW x \in S
  PROVE  \E m \in S : \A y \in S : m <= y
<1> DEFINE X == {n \in Nat : \A y \in S : n <= y}
<1>1. SUFFICES ASSUME ~ \E m \in S : \A y \in S : m <= y PROVE FALSE
  OBVIOUS
<1>2. 0 \in X
  OBVIOUS
<1>3. ASSUME NEW n \in X PROVE n + 1 \in X
  <2>1. n \notin S
    BY <1>1
  <2>2. \A y \in S : y \in Nat /\ n <= y /\ y # n
    BY <2>1
  <2>3. \A y \in S : n + 1 <= y
    BY <2>2
  <2> QED BY <2>3
<1>4. X = Nat
  <2> HIDE DEF X
  <2>1. X \in SUBSET Nat
    BY DEF X
  <2> QED BY <1>2, <1>3, <2>1, NatInductive
<1>5. x + 1 \in X
  BY <1>4
<1> QED BY <1>5

\* What holds of a place if it holds of those behind it holds of all, and of the end.
LEMMA FromBehind ==
  ASSUME NEW N \in Nat, NEW X, N + 1 \in X,
         \A i \in 1 .. N : (\A j \in i + 1 .. N + 1 : j \in X) => i \in X
  PROVE  \A i \in 1 .. N + 1 : i \in X
<1> DEFINE D == {d \in Nat : \A j \in 1 .. N + 1 : j + d >= N + 1 => j \in X}
<1>1. 0 \in D
  OBVIOUS
<1>2. ASSUME NEW d \in D PROVE d + 1 \in D
  <2> SUFFICES ASSUME NEW j \in 1 .. N + 1, j + (d + 1) >= N + 1 PROVE j \in X
    OBVIOUS
  <2>1. \A k \in 1 .. N + 1 : k + d >= N + 1 => k \in X
    OBVIOUS
  <2>2. CASE j = N + 1
    BY <2>2
  <2>3. CASE j # N + 1
    <3>1. j \in 1 .. N
      BY <2>3
    <3>2. \A k \in j + 1 .. N + 1 : k \in 1 .. N + 1 /\ k + d >= N + 1
      BY <3>1
    <3>3. \A k \in j + 1 .. N + 1 : k \in X
      BY <2>1, <3>2
    <3> QED BY <3>1, <3>3
  <2> QED BY <2>2, <2>3
<1>3. D = Nat
  <2> HIDE DEF D
  <2>1. D \in SUBSET Nat
    BY DEF D
  <2> QED BY <1>1, <1>2, <2>1, NatInductive
<1>4. N + 1 \in D
  BY <1>3
<1> QED BY <1>4

\* The block of replies behind a place ends at e.
EndsAt(ms, i, e) ==
    /\ e \in i .. Len(ms)
    /\ \A k \in i + 1 .. e : Passes(ms[k])
    /\ e < Len(ms) => ~Passes(ms[e + 1])

\* There is such an end, and it is where BlockEnd says.
LEMMA BlockEnds ==
  ASSUME NEW ms \in Seq(AnyMessage), NEW i \in 1 .. Len(ms)
  PROVE  EndsAt(ms, i, BlockEnd(ms, i))
<1> DEFINE S == {k \in i + 1 .. Len(ms) : ~Passes(ms[k])}
<1>0. Len(ms) \in Nat
  OBVIOUS
<1>1. \E e \in i .. Len(ms) : (\A k \in i + 1 .. e : Passes(ms[k])) /\ (e < Len(ms) => ~Passes(ms[e + 1]))
  <2>1. CASE S = {}
    <3>1. \A k \in i + 1 .. Len(ms) : Passes(ms[k])
      BY <2>1
    <3>2. Len(ms) \in i .. Len(ms) /\ ~(Len(ms) < Len(ms))
      BY <1>0
    <3> QED BY <3>1, <3>2
  <2>2. CASE S # {}
    <3>1. PICK m \in S : \A y \in S : m <= y
      <4>1. S \in SUBSET Nat /\ \E x \in S : TRUE
        BY <2>2
      <4> HIDE DEF S
      <4> QED BY <4>1, LeastIs
    <3>2. m - 1 \in i .. Len(ms) /\ (m - 1) + 1 = m
      BY <1>0
    <3>3. \A k \in i + 1 .. m - 1 : k \in i + 1 .. Len(ms) /\ k \notin S
      BY <1>0, <3>1
    <3>4. \A k \in i + 1 .. m - 1 : Passes(ms[k])
      BY <3>3
    <3> QED BY <3>2, <3>4
  <2> QED BY <2>1, <2>2
<1> QED BY <1>1, Zenon DEF EndsAt, BlockEnd

\* There is only one.
LEMMA BlockEndsOnce ==
  ASSUME NEW ms \in Seq(AnyMessage), NEW i \in 1 .. Len(ms), NEW e, EndsAt(ms, i, e)
  PROVE  BlockEnd(ms, i) = e
<1> DEFINE b == BlockEnd(ms, i)
<1>1. EndsAt(ms, i, b)
  BY BlockEnds
<1> HIDE DEF b
<1>2. e \in Nat /\ b \in Nat /\ Len(ms) \in Nat /\ e <= Len(ms) /\ b <= Len(ms) /\ i <= e /\ i <= b
  BY <1>1 DEF EndsAt
<1>3. ~(e < b)
  <2>1. SUFFICES ASSUME e < b PROVE FALSE
    OBVIOUS
  <2>2. e + 1 \in i + 1 .. b /\ e < Len(ms)
    BY <1>2, <2>1
  <2> QED BY <1>1, <2>2 DEF EndsAt
<1>4. ~(b < e)
  <2>1. SUFFICES ASSUME b < e PROVE FALSE
    OBVIOUS
  <2>2. b + 1 \in i + 1 .. e /\ b < Len(ms)
    BY <1>2, <2>1
  <2> QED BY <1>1, <2>2 DEF EndsAt
<1> QED BY <1>2, <1>3, <1>4 DEF b

\* A reply in the block of i, for one of its calls.
RepliesTo(ms, i, k, id) ==
    k \in i + 1 .. BlockEnd(ms, i) /\ ms[k].role = "tool" /\ ms[k].id = id

\* A call is given a reply from its block, or the placeholder if there is none.
LEMMA ReplyIs ==
  ASSUME NEW ms \in Seq(AnyMessage), NEW i \in 1 .. Len(ms), NEW id \in CallIds
  PROVE  /\ \E real \in BOOLEAN : ReplyFor(ms, i, id) = Reply(id, real)
         /\ (\E k : RepliesTo(ms, i, k, id)) => \E k : RepliesTo(ms, i, k, id) /\ ReplyFor(ms, i, id) = ms[k]
<1> DEFINE found == {k \in (i + 1) .. BlockEnd(ms, i) : ms[k].role = "tool" /\ ms[k].id = id}
           r == ReplyFor(ms, i, id)
           c == CHOOSE k \in found : \A other \in found : k <= other
<1>1. BlockEnd(ms, i) \in i .. Len(ms)
  BY BlockEnds DEF EndsAt
<1>2. CASE found = {}
  <2>1. r = Reply(id, FALSE)
    BY <1>2, Zenon DEF ReplyFor
  <2>2. ~ \E k : RepliesTo(ms, i, k, id)
    BY <1>2 DEF RepliesTo
  <2> QED BY <2>1, <2>2
<1>3. CASE found # {}
  <2>1. r = ms[c]
    BY <1>3, Zenon DEF ReplyFor
  <2>2. c \in found
    <3>1. found \in SUBSET Nat /\ \E x \in found : TRUE
      BY <1>1, <1>3
    <3>2. \E m \in found : \A y \in found : m <= y
      <4> HIDE DEF found
      <4> QED BY <3>1, LeastIs
    <3> QED BY <3>2, Zenon
  <2> HIDE DEF c, r
  <2>3. RepliesTo(ms, i, c, id)
    BY <2>2 DEF RepliesTo
  <2> HIDE DEF found
  <2>4. c \in 1 .. Len(ms)
    BY <1>1, <2>3 DEF RepliesTo
  <2>5. MessageIs(ms[c])
    BY <2>4, MessageKinds
  <2>6. \E real \in BOOLEAN : ms[c] = Reply(id, real)
    BY <2>3, <2>5 DEF MessageIs, RepliesTo, Text, Empty
  <2> QED BY <2>1, <2>3, <2>6 DEF r
<1> QED BY <1>2, <1>3

\* f lists what the pass makes of the messages from each place on.
PassStep(ms, f, i) ==
    CASE ms[i].role = "calls" -> Answered(ms, i) \o f[BlockEnd(ms, i) + 1]
      [] ms[i].role = "tool"  -> f[i + 1]
      [] OTHER                -> << ms[i] >> \o f[i + 1]
PassOf(f, ms, N) == f = [i \in 1 .. N + 1 |-> IF i > N THEN <<>> ELSE PassStep(ms, f, i)]

\* So far as it has been made from the end.
PassFrom(f, ms, N, m) ==
    /\ f[N + 1] = <<>>
    /\ \A i \in m .. N : f[i] = PassStep(ms, f, i)

\* A step looks only behind its place.
LEMMA StepBehind ==
  ASSUME NEW ms \in Seq(AnyMessage), NEW i \in 1 .. Len(ms), NEW f, NEW g,
         \A j \in i + 1 .. Len(ms) + 1 : f[j] = g[j]
  PROVE  PassStep(ms, f, i) = PassStep(ms, g, i)
<1> DEFINE b == BlockEnd(ms, i)
<1>1. b + 1 \in i + 1 .. Len(ms) + 1 /\ i + 1 \in i + 1 .. Len(ms) + 1
  BY BlockEnds DEF EndsAt
<1>2. f[b + 1] = g[b + 1] /\ f[i + 1] = g[i + 1]
  BY <1>1
<1> QED BY <1>2, Zenon DEF PassStep

\* A pass from the end makes the whole list.
LEMMA PassExists ==
  ASSUME NEW ms \in Seq(AnyMessage)
  PROVE  \E f : PassOf(f, ms, Len(ms))
<1> DEFINE N == Len(ms)
           X == {d \in Nat : d <= N => \E f : PassFrom(f, ms, N, N + 1 - d)}
<1>0. N \in Nat
  OBVIOUS
<1>1. 0 \in X
  <2> DEFINE f == [i \in 1 .. N + 1 |-> <<>>]
  <2>1. f[N + 1] = <<>> /\ \A i \in N + 1 - 0 .. N : FALSE
    BY <1>0
  <2>2. PassFrom(f, ms, N, N + 1 - 0)
    BY <2>1 DEF PassFrom
  <2> QED BY <2>2
<1>2. ASSUME NEW d \in X PROVE d + 1 \in X
  <2>1. SUFFICES ASSUME d + 1 <= N PROVE \E f : PassFrom(f, ms, N, N + 1 - (d + 1))
    OBVIOUS
  <2>2. PICK g : PassFrom(g, ms, N, N + 1 - d)
    BY <1>0, <1>2, <2>1
  <2> DEFINE m == N - d
             f == [i \in 1 .. N + 1 |-> IF i = m THEN PassStep(ms, g, m) ELSE g[i]]
  <2>3. m \in 1 .. N /\ N + 1 - d = m + 1 /\ N + 1 - (d + 1) = m
    BY <1>0, <2>1
  <2>4. f[m] = PassStep(ms, g, m) /\ \A i \in m + 1 .. N + 1 : f[i] = g[i]
    BY <2>3
  <2> HIDE DEF f, m
  <2>5. f[N + 1] = <<>>
    BY <2>2, <2>3, <2>4 DEF PassFrom
  <2>6. ASSUME NEW i \in m .. N PROVE f[i] = PassStep(ms, f, i)
    <3>1. i \in 1 .. Len(ms) /\ \A j \in i + 1 .. Len(ms) + 1 : f[j] = g[j]
      BY <2>3, <2>4
    <3>2. PassStep(ms, f, i) = PassStep(ms, g, i)
      BY <3>1, StepBehind
    <3>3. CASE i = m
      BY <2>4, <3>2, <3>3
    <3>4. CASE i # m
      <4>1. i \in m + 1 .. N /\ i \in m + 1 .. N + 1
        BY <2>3, <3>4
      <4>2. g[i] = PassStep(ms, g, i)
        BY <2>2, <2>3, <4>1 DEF PassFrom
      <4> QED BY <2>4, <3>2, <4>1, <4>2
    <3> QED BY <3>3, <3>4
  <2>7. PassFrom(f, ms, N, m)
    BY <2>5, <2>6 DEF PassFrom
  <2> QED BY <2>3, <2>7
<1>3. X = Nat
  <2> HIDE DEF X
  <2>1. X \in SUBSET Nat
    BY DEF X
  <2> QED BY <1>1, <1>2, <2>1, NatInductive
<1>4. PICK g : PassFrom(g, ms, N, 1)
  <2>1. N \in X /\ N + 1 - N = 1
    BY <1>0, <1>3
  <2> QED BY <2>1
<1> DEFINE f == [i \in 1 .. N + 1 |-> g[i]]
<1>5. ASSUME NEW i \in 1 .. N + 1 PROVE f[i] = IF i > N THEN <<>> ELSE PassStep(ms, f, i)
  <2>1. CASE i = N + 1
    BY <1>0, <1>4, <2>1 DEF PassFrom
  <2>2. CASE i # N + 1
    <3>1. i \in 1 .. N /\ ~(i > N) /\ \A j \in i + 1 .. Len(ms) + 1 : f[j] = g[j]
      BY <1>0, <2>2
    <3>2. f[i] = g[i] /\ g[i] = PassStep(ms, g, i)
      BY <1>4, <3>1 DEF PassFrom
    <3> HIDE DEF f, N
    <3>3. PassStep(ms, f, i) = PassStep(ms, g, i)
      BY <3>1, StepBehind DEF N
    <3> QED BY <3>1, <3>2, <3>3
  <2> QED BY <2>1, <2>2
<1>6. f = [i \in 1 .. N + 1 |-> f[i]]
  OBVIOUS
<1> HIDE DEF f
<1>7. PassOf(f, ms, N)
  BY <1>5, <1>6, Zenon DEF PassOf
<1> QED BY <1>7

\* What the pass makes, step by step.
Passed(f, ms) ==
    /\ Repair(ms) = f[1] /\ f[Len(ms) + 1] = <<>>
    /\ \A i \in 1 .. Len(ms) : f[i] = PassStep(ms, f, i)

\* Repair is such a pass.
LEMMA RepairPasses ==
  ASSUME NEW ms \in Seq(AnyMessage)
  PROVE  \E f : Passed(f, ms)
<1> DEFINE f == CHOOSE g : PassOf(g, ms, Len(ms))
<1>1. PassOf(f, ms, Len(ms))
  BY PassExists, Zenon
<1>2. Repair(ms) = f[1]
  BY Zenon DEF Repair, PassOf, PassStep
<1> HIDE DEF f
<1>3. Len(ms) \in Nat
  OBVIOUS
<1>4. \A i \in 1 .. Len(ms) + 1 : f[i] = IF i > Len(ms) THEN <<>> ELSE PassStep(ms, f, i)
  BY <1>1 DEF PassOf
<1>5. \A i \in 1 .. Len(ms) : f[i] = PassStep(ms, f, i)
  <2> SUFFICES ASSUME NEW i \in 1 .. Len(ms) PROVE f[i] = PassStep(ms, f, i)
    OBVIOUS
  <2>1. i \in 1 .. Len(ms) + 1 /\ ~(i > Len(ms))
    BY <1>3
  <2> QED BY <1>4, <2>1, Zenon
<1>6. f[Len(ms) + 1] = <<>>
  <2>1. Len(ms) + 1 \in 1 .. Len(ms) + 1 /\ Len(ms) + 1 > Len(ms)
    BY <1>3
  <2> QED BY <1>4, <2>1, Zenon
<1> QED BY <1>2, <1>5, <1>6 DEF Passed
-----------------------------------------------------------------------------
(* What a provider accepts, piece by piece.                                *)

\* A list may stand behind the replies to a call.
Opens(b) == b = <<>> \/ ~Passes(b[1])

\* A list that is accepted, in which nothing that would be passed over stands
\* behind the replies to a call.
Firm(a) ==
    /\ a \in Seq(AnyMessage) /\ Accepted(a)
    /\ \A i \in DOMAIN a : a[i].role = "calls" /\ i + Len(a[i].ids) < Len(a) =>
          ~Passes(a[i + Len(a[i].ids) + 1])

\* b may follow a.
Joins(a, b) == Opens(b) \/ \A i \in DOMAIN a : a[i].role # "calls"

\* Where the items of two lists are when they are joined.
LEMMA JoinedAt ==
  ASSUME NEW S, NEW a \in Seq(S), NEW b \in Seq(S)
  PROVE  /\ a \o b \in Seq(S) /\ Len(a \o b) = Len(a) + Len(b) /\ Len(a) \in Nat /\ Len(b) \in Nat
         /\ DOMAIN a = 1 .. Len(a) /\ DOMAIN b = 1 .. Len(b) /\ DOMAIN (a \o b) = 1 .. Len(a) + Len(b)
         /\ \A k \in 1 .. Len(a) : (a \o b)[k] = a[k]
         /\ \A k \in 1 .. Len(b) : (a \o b)[Len(a) + k] = b[k]
  OBVIOUS

\* The call at i of the list t has its replies right behind it.
CallAt(t, i) ==
    /\ splits => Len(t[i].ids) = 1
    /\ i + Len(t[i].ids) <= Len(t)
    /\ \A n \in DOMAIN t[i].ids : t[i + n].role = "tool" /\ t[i + n].id = t[i].ids[n]
    /\ i + Len(t[i].ids) < Len(t) => ~Passes(t[i + Len(t[i].ids) + 1])
ReplyAt(t, k) == \E i \in 1 .. (k - 1) : t[i].role = "calls" /\ k <= i + Len(t[i].ids)

\* An accepted list, message by message.
LEMMA FirmIs ==
  ASSUME NEW t
  PROVE  Firm(t) <=> /\ t \in Seq(AnyMessage)
                     /\ \A i \in 1 .. Len(t) : t[i].role = "calls" => CallAt(t, i)
                     /\ \A k \in 1 .. Len(t) : t[k].role = "tool" => ReplyAt(t, k)
<1> SUFFICES ASSUME t \in Seq(AnyMessage)
             PROVE  Firm(t) <=> /\ \A i \in 1 .. Len(t) : t[i].role = "calls" => CallAt(t, i)
                                /\ \A k \in 1 .. Len(t) : t[k].role = "tool" => ReplyAt(t, k)
  BY DEF Firm
<1>1. DOMAIN t = 1 .. Len(t)
  OBVIOUS
<1> QED BY <1>1, Zenon DEF Firm, Accepted, CallAt, ReplyAt

\* The number of calls of a message is a number.
LEMMA AsksSome ==
  ASSUME NEW m \in AnyMessage, m.role = "calls"
  PROVE  Len(m.ids) \in Nat \ {0} /\ DOMAIN m.ids = 1 .. Len(m.ids) /\ m.ids \in AskLists
<1>1. m.ids \in AskLists
  BY MessageKinds DEF MessageIs, Text, Empty, Reply
<1>2. m.ids \in Seq(CallIds) /\ m.ids # <<>>
  BY <1>1 DEF AskLists
<1> DEFINE q == m.ids
<1>3. q \in Seq(CallIds) /\ q # <<>>
  BY <1>2
<1> HIDE DEF q
<1>4. Len(q) \in Nat \ {0} /\ DOMAIN q = 1 .. Len(q)
  BY <1>3
<1> QED BY <1>1, <1>4 DEF q

\* Accepted lists that may follow one another are accepted as one.
LEMMA FirmJoined ==
  ASSUME NEW a, NEW b, Firm(a), Firm(b), Joins(a, b)
  PROVE  Firm(a \o b)
<1> DEFINE t == a \o b
<1>1. a \in Seq(AnyMessage) /\ b \in Seq(AnyMessage)
  BY DEF Firm
<1>2. /\ t \in Seq(AnyMessage) /\ Len(t) = Len(a) + Len(b) /\ Len(a) \in Nat /\ Len(b) \in Nat
      /\ \A k \in 1 .. Len(a) : t[k] = a[k] /\ a[k] \in AnyMessage
      /\ \A k \in 1 .. Len(b) : t[Len(a) + k] = b[k] /\ b[k] \in AnyMessage
  BY <1>1, JoinedAt
<1>7. Len(t) = Len(a) + Len(b) /\ Len(a) \in Nat /\ Len(b) \in Nat
  BY <1>2
<1>3. /\ \A i \in 1 .. Len(a) : a[i].role = "calls" => CallAt(a, i)
      /\ \A k \in 1 .. Len(a) : a[k].role = "tool" => ReplyAt(a, k)
      /\ \A i \in 1 .. Len(b) : b[i].role = "calls" => CallAt(b, i)
      /\ \A k \in 1 .. Len(b) : b[k].role = "tool" => ReplyAt(b, k)
  BY FirmIs
<1> HIDE DEF t
<1>4. \A k \in 1 .. Len(t) : k \in 1 .. Len(a) \/ (k - Len(a) \in 1 .. Len(b) /\ Len(a) + (k - Len(a)) = k)
  BY <1>2
<1>5. ASSUME NEW i \in 1 .. Len(t), t[i].role = "calls" PROVE CallAt(t, i)
  <2>1. CASE i \in 1 .. Len(a)
    <3> DEFINE L == Len(a[i].ids)
    <3>1. t[i] = a[i] /\ L \in Nat \ {0} /\ DOMAIN a[i].ids = 1 .. L
      BY <1>2, <1>5, <2>1, AsksSome
    <3>2. CallAt(a, i)
      BY <1>2, <1>3, <1>5, <2>1
    <3>3. /\ splits => L = 1
          /\ i + L <= Len(a)
          /\ \A n \in 1 .. L : a[i + n].role = "tool" /\ a[i + n].id = a[i].ids[n]
          /\ i + L < Len(a) => ~Passes(a[i + L + 1])
      BY <3>1, <3>2 DEF CallAt
    <3>7. L = Len(t[i].ids) /\ DOMAIN t[i].ids = 1 .. L /\ t[i].ids = a[i].ids
      BY <3>1
    <3>8. L \in Nat \ {0}
      BY <3>1
    <3> HIDE DEF L
    <3>4. \A n \in 1 .. L : t[i + n] = a[i + n]
      <4>1. \A n \in 1 .. L : i + n \in 1 .. Len(a)
        BY <1>7, <3>8, <3>3
      <4> QED BY <1>2, <4>1
    <3>5. i + L < Len(t) => ~Passes(t[i + L + 1])
      <4>1. SUFFICES ASSUME i + L < Len(t) PROVE ~Passes(t[i + L + 1])
        OBVIOUS
      <4>2. CASE i + L < Len(a)
        <5>1. i + L + 1 \in 1 .. Len(a)
          BY <1>2, <3>1, <4>2
        <5> QED BY <1>2, <3>3, <4>2, <5>1
      <4>3. CASE i + L = Len(a)
        <5>1. 1 \in 1 .. Len(b) /\ Len(a) + 1 = i + L + 1
          BY <1>7, <4>1, <4>3
        <5>2. t[i + L + 1] = b[1]
          BY <1>2, <5>1
        <5>3. b # <<>> /\ i \in DOMAIN a /\ a[i].role = "calls"
          BY <1>1, <1>2, <1>5, <2>1, <5>1
        <5>4. ~Passes(b[1])
          BY <5>3, Zenon DEF Joins, Opens
        <5> QED BY <5>2, <5>4
      <4> QED BY <1>2, <3>1, <3>3, <4>2, <4>3
    <3>6. i + L <= Len(t)
      BY <1>7, <3>8, <3>3
    <3> QED BY <3>3, <3>4, <3>5, <3>6, <3>7, Zenon DEF CallAt
  <2>2. CASE i - Len(a) \in 1 .. Len(b) /\ Len(a) + (i - Len(a)) = i
    <3> DEFINE j == i - Len(a)
               L == Len(b[j].ids)
    <3>0. j \in 1 .. Len(b) /\ i = Len(a) + j
      BY <2>2
    <3> HIDE DEF j
    <3>1. t[i] = b[j] /\ L \in Nat \ {0} /\ DOMAIN b[j].ids = 1 .. L
      BY <1>2, <1>5, <3>0, AsksSome
    <3>2. CallAt(b, j)
      BY <1>2, <1>3, <1>5, <3>0
    <3>3. /\ splits => L = 1
          /\ j + L <= Len(b)
          /\ \A n \in 1 .. L : b[j + n].role = "tool" /\ b[j + n].id = b[j].ids[n]
          /\ j + L < Len(b) => ~Passes(b[j + L + 1])
      BY <3>1, <3>2 DEF CallAt
    <3>7. L = Len(t[i].ids) /\ DOMAIN t[i].ids = 1 .. L /\ t[i].ids = b[j].ids
      BY <3>1
    <3>8. L \in Nat \ {0}
      BY <3>1
    <3> HIDE DEF L
    <3>4. \A n \in 1 .. L : t[i + n] = b[j + n]
      <4>1. \A n \in 1 .. L : j + n \in 1 .. Len(b) /\ Len(a) + (j + n) = i + n
        BY <1>7, <3>0, <3>8, <3>3
      <4> QED BY <1>2, <4>1
    <3>5. i + L < Len(t) => ~Passes(t[i + L + 1])
      <4>1. SUFFICES ASSUME i + L < Len(t) PROVE ~Passes(t[i + L + 1])
        OBVIOUS
      <4>2. j + L < Len(b) /\ j + L + 1 \in 1 .. Len(b) /\ Len(a) + (j + L + 1) = i + L + 1
        BY <1>7, <3>0, <3>8, <4>1
      <4> QED BY <1>2, <3>3, <4>2
    <3>6. i + L <= Len(t)
      BY <1>7, <3>0, <3>8, <3>3
    <3> QED BY <3>3, <3>4, <3>5, <3>6, <3>7, Zenon DEF CallAt
  <2> QED BY <1>4, <2>1, <2>2
<1>6. ASSUME NEW k \in 1 .. Len(t), t[k].role = "tool" PROVE ReplyAt(t, k)
  <2>1. CASE k \in 1 .. Len(a)
    <3>1. ReplyAt(a, k)
      BY <1>2, <1>3, <1>6, <2>1
    <3>2. PICK i \in 1 .. (k - 1) : a[i].role = "calls" /\ k <= i + Len(a[i].ids)
      BY <3>1, Zenon DEF ReplyAt
    <3>3. i \in 1 .. Len(a)
      BY <1>2, <2>1
    <3>4. t[i] = a[i]
      BY <1>2, <3>3
    <3> QED BY <3>2, <3>4, Zenon DEF ReplyAt
  <2>2. CASE k - Len(a) \in 1 .. Len(b) /\ Len(a) + (k - Len(a)) = k
    <3> DEFINE j == k - Len(a)
    <3>0. j \in 1 .. Len(b) /\ k = Len(a) + j
      BY <2>2
    <3> HIDE DEF j
    <3>1. ReplyAt(b, j)
      BY <1>2, <1>3, <1>6, <3>0
    <3>2. PICK i \in 1 .. (j - 1) : b[i].role = "calls" /\ j <= i + Len(b[i].ids)
      BY <3>1, Zenon DEF ReplyAt
    <3>3. i \in 1 .. Len(b) /\ Len(a) + i \in 1 .. (k - 1)
      <4>1. i \in 1 .. (j - 1) /\ j \in 1 .. Len(b) /\ k = Len(a) + j
        BY <3>0
      <4> QED BY <1>7, <4>1
    <3>4. t[Len(a) + i] = b[i] /\ Len(b[i].ids) \in Nat
      BY <1>2, <3>2, <3>3, AsksSome
    <3>5. k <= (Len(a) + i) + Len(b[i].ids)
      <4> DEFINE L == Len(b[i].ids)
      <4>1. j <= i + L /\ L \in Nat
        BY <3>2, <3>4
      <4> HIDE DEF L
      <4>2. k <= (Len(a) + i) + L
        BY <1>7, <3>0, <4>1
      <4> QED BY <4>2 DEF L
    <3> QED BY <3>2, <3>3, <3>4, <3>5, Zenon DEF ReplyAt
  <2> QED BY <1>4, <2>1, <2>2
<1> QED BY <1>2, <1>5, <1>6, FirmIs DEF t

\* A message that is neither call nor reply stands alone.
LEMMA FirmAlone ==
  ASSUME NEW m \in AnyMessage, m.role \notin {"calls", "tool"}
  PROVE  Firm(<< m >>) /\ \A b : Joins(<< m >>, b)
<1> DEFINE t == << m >>
<1>1. t \in Seq(AnyMessage) /\ Len(t) = 1 /\ DOMAIN t = 1 .. 1 /\ t[1] = m
  OBVIOUS
<1> HIDE DEF t
<1>2. \A i \in 1 .. Len(t) : t[i].role # "calls" /\ t[i].role # "tool"
  BY <1>1
<1>3. Firm(t)
  BY <1>1, <1>2, FirmIs
<1>4. \A b : Joins(t, b)
  BY <1>1, <1>2 DEF Joins
<1> QED BY <1>3, <1>4 DEF t
-----------------------------------------------------------------------------
(* A call turn with its replies.                                           *)

\* Accepted by itself, with a call in front and no text.
CallTurn(t) ==
    /\ Firm(t) /\ t # <<>> /\ Opens(t)
    /\ \A k \in 1 .. Len(t) : t[k].role # "text"

\* rep is a list of replies for the calls ids.
RepliesFor(ids, rep) ==
    /\ rep \in Seq(AnyMessage) /\ Len(rep) = Len(ids)
    /\ \A n \in 1 .. Len(ids) : rep[n].role = "tool" /\ rep[n].id = ids[n]

\* A call with a reply for each of its ids is such a turn.
LEMMA TurnWhole ==
  ASSUME NEW m \in AnyMessage, m.role = "calls", splits => Len(m.ids) = 1,
         NEW rep, RepliesFor(m.ids, rep)
  PROVE  CallTurn(<< m >> \o rep)
<1> DEFINE L == Len(m.ids)
           t == << m >> \o rep
<1>1. L \in Nat \ {0} /\ DOMAIN m.ids = 1 .. L
  BY AsksSome
<1>2. rep \in Seq(AnyMessage) /\ Len(rep) = L /\ \A n \in 1 .. L : rep[n].role = "tool" /\ rep[n].id = m.ids[n]
  BY DEF RepliesFor
<1>3. << m >> \in Seq(AnyMessage) /\ Len(<< m >>) = 1 /\ << m >>[1] = m
  OBVIOUS
<1>4. t \in Seq(AnyMessage) /\ Len(t) = 1 + L /\ t[1] = m /\ \A n \in 1 .. L : t[1 + n] = rep[n]
  <2>1. 1 \in 1 .. Len(<< m >>)
    BY <1>3
  <2> QED BY <1>2, <1>3, <2>1, JoinedAt
<1> HIDE DEF L, t
<1>5. \A n \in 1 .. L : t[1 + n].role = "tool" /\ t[1 + n].id = m.ids[n]
  BY <1>2, <1>4
<1>6. \A k \in 1 .. Len(t) : k = 1 \/ (k - 1 \in 1 .. L /\ 1 + (k - 1) = k)
  BY <1>1, <1>4
<1>7. \A k \in 1 .. Len(t) : k = 1 \/ t[k].role = "tool"
  BY <1>5, <1>6
<1>8. CallAt(t, 1)
  <2>1. 1 + L <= Len(t) /\ ~(1 + L < Len(t))
    BY <1>1, <1>4
  <2> QED BY <1>1, <1>4, <1>5, <2>1, Zenon DEF CallAt, L
<1>9. ASSUME NEW k \in 1 .. Len(t), t[k].role = "tool" PROVE ReplyAt(t, k)
  <2>1. k # 1
    BY <1>4, <1>9
  <2>2. 1 \in 1 .. (k - 1) /\ k <= 1 + L
    BY <1>1, <1>4, <2>1
  <2> QED BY <1>4, <2>2, Zenon DEF ReplyAt, L
<1>10. \A i \in 1 .. Len(t) : t[i].role = "calls" => CallAt(t, i)
  <2>1. \A i \in 1 .. Len(t) : t[i].role = "calls" => i = 1
    BY <1>7
  <2> QED BY <1>8, <2>1, Zenon
<1>11. Firm(t)
  BY <1>4, <1>9, <1>10, FirmIs
<1>12. t # <<>> /\ Opens(t)
  <2>1. t # <<>>
    BY <1>1, <1>4
  <2> QED BY <1>4, <2>1 DEF Opens, Passes
<1>13. \A k \in 1 .. Len(t) : t[k].role # "text"
  BY <1>4, <1>7
<1> QED BY <1>11, <1>12, <1>13 DEF CallTurn, t

\* Turns one after the other.
LEMMA TurnJoined ==
  ASSUME NEW a, NEW b, a = <<>> \/ CallTurn(a), CallTurn(b), a \in Seq(AnyMessage)
  PROVE  CallTurn(a \o b)
<1>1. CASE a = <<>>
  <2>1. b \in Seq(AnyMessage)
    BY DEF CallTurn, Firm
  <2>2. a \o b = b
    BY <1>1, <2>1
  <2> QED BY <2>2
<1>2. CASE CallTurn(a)
  <2> DEFINE t == a \o b
  <2>1. Firm(a) /\ Firm(b) /\ Joins(a, b) /\ b \in Seq(AnyMessage) /\ a # <<>>
    BY <1>2 DEF CallTurn, Joins, Firm
  <2>2. Firm(t)
    BY <2>1, FirmJoined
  <2>3. /\ Len(t) = Len(a) + Len(b) /\ Len(a) \in Nat \ {0} /\ Len(b) \in Nat /\ t \in Seq(AnyMessage)
        /\ \A k \in 1 .. Len(a) : t[k] = a[k]
        /\ \A k \in 1 .. Len(b) : t[Len(a) + k] = b[k]
    BY <2>1, JoinedAt
  <2> HIDE DEF t
  <2>4. t # <<>> /\ t[1] = a[1]
    <3>1. 1 \in 1 .. Len(a) /\ Len(t) # 0
      BY <2>3
    <3> QED BY <2>3, <3>1
  <2>5. Opens(t)
    BY <1>2, <2>1, <2>4 DEF CallTurn, Opens
  <2>6. \A k \in 1 .. Len(t) : k \in 1 .. Len(a) \/ (k - Len(a) \in 1 .. Len(b) /\ Len(a) + (k - Len(a)) = k)
    BY <2>3
  <2>7. \A k \in 1 .. Len(t) : t[k].role # "text"
    <3> SUFFICES ASSUME NEW k \in 1 .. Len(t) PROVE t[k].role # "text"
      OBVIOUS
    <3>1. CASE k \in 1 .. Len(a)
      BY <1>2, <2>3, <3>1 DEF CallTurn
    <3>2. CASE k - Len(a) \in 1 .. Len(b) /\ Len(a) + (k - Len(a)) = k
      <4> DEFINE j == k - Len(a)
      <4>1. j \in 1 .. Len(b) /\ Len(a) + j = k
        BY <3>2
      <4> HIDE DEF j
      <4>2. t[k] = b[j]
        BY <2>3, <4>1
      <4> QED BY <4>1, <4>2 DEF CallTurn
    <3> QED BY <2>6, <3>1, <3>2
  <2> QED BY <2>2, <2>4, <2>5, <2>7 DEF CallTurn, t
<1> QED BY <1>1, <1>2

\* A call by itself, with its reply.
Pair(id, r) == << Asks(<< id >>), r >>

\* That is a turn too.
LEMMA PairTurn ==
  ASSUME NEW id \in CallIds, NEW r \in AnyMessage, r.role = "tool", r.id = id
  PROVE  CallTurn(Pair(id, r)) /\ Pair(id, r) \in Seq(AnyMessage) /\ Pair(id, r)[2] = r /\ Len(Pair(id, r)) = 2
<1> DEFINE q == << id >>
           m == Asks(q)
<1>1. q \in AskLists /\ Len(q) = 1 /\ q[1] = id
  BY DEF AskLists, IsInjective
<1> HIDE DEF q
<1>2. m \in AnyMessage /\ m.role = "calls" /\ m.ids = q
  BY <1>1, KindsDiffer
<1>3. RepliesFor(q, << r >>)
  BY <1>1 DEF RepliesFor
<1> HIDE DEF m
<1>4. CallTurn(<< m >> \o << r >>)
  BY <1>1, <1>2, <1>3, TurnWhole
<1>5. << m >> \o << r >> = << m, r >> /\ << m, r >> \in Seq(AnyMessage) /\ << m, r >>[2] = r /\ Len(<< m, r >>) = 2
  <2>1. << m, r >> \in Seq(AnyMessage) /\ << m, r >>[2] = r /\ Len(<< m, r >>) = 2
    BY <1>2
  <2>2. << m >> \o << r >> = << m, r >>
    <3> DEFINE c == << m >> \o << r >>
               d == << m, r >>
    <3>1. << m >> \in Seq(AnyMessage) /\ << r >> \in Seq(AnyMessage) /\ Len(<< m >>) = 1 /\ Len(<< r >>) = 1
      BY <1>2
    <3>2. c \in Seq(AnyMessage) /\ Len(c) = 2 /\ c[1] = << m >>[1] /\ c[1 + 1] = << r >>[1]
      BY <3>1, JoinedAt
    <3>3. d \in Seq(AnyMessage) /\ Len(d) = 2 /\ d[1] = m /\ d[2] = r
      BY <1>2
    <3>4. << m >>[1] = m /\ << r >>[1] = r
      OBVIOUS
    <3> HIDE DEF c, d
    <3>5. \A k \in 1 .. 2 : c[k] = d[k]
      BY <3>2, <3>3, <3>4
    <3> QED BY <3>2, <3>3, <3>5, SameList DEF c, d
  <2> QED BY <2>1, <2>2
<1> QED BY <1>4, <1>5, Zenon DEF Pair, m, q

\* The calls with their replies, one after the other.
LEMMA TurnSplit ==
  ASSUME NEW ids \in AskLists, NEW rep, RepliesFor(ids, rep)
  PROVE  LET t == FlattenSeq([n \in DOMAIN ids |-> << Asks(<< ids[n] >>), rep[n] >>])
         IN  CallTurn(t) /\ \A n \in 1 .. Len(ids) : \E k \in 1 .. Len(t) : t[k] = rep[n]
<1> DEFINE N == Len(ids)
           q == [n \in DOMAIN ids |-> Pair(ids[n], rep[n])]
           Has(t, j) == \A n \in 1 .. j : \E k \in 1 .. Len(t) : t[k] = rep[n]
<1>1. ids \in Seq(CallIds) /\ N \in Nat \ {0} /\ DOMAIN ids = 1 .. N
  BY DEF AskLists
<1>2. \A n \in 1 .. N : /\ CallTurn(q[n]) /\ q[n] \in Seq(AnyMessage) /\ q[n][2] = rep[n] /\ Len(q[n]) = 2
  <2> SUFFICES ASSUME NEW n \in 1 .. N
               PROVE CallTurn(q[n]) /\ q[n] \in Seq(AnyMessage) /\ q[n][2] = rep[n] /\ Len(q[n]) = 2
    BY Zenon
  <2>1. ids[n] \in CallIds /\ rep[n] \in AnyMessage /\ rep[n].role = "tool" /\ rep[n].id = ids[n]
    BY <1>1 DEF RepliesFor
  <2>2. q[n] = Pair(ids[n], rep[n])
    BY <1>1
  <2> HIDE DEF q
  <2> QED BY <2>1, <2>2, PairTurn
<1>3. DOMAIN q = 1 .. N
  BY <1>1
<1>4. FlattenSeq([n \in DOMAIN ids |-> << Asks(<< ids[n] >>), rep[n] >>]) = FlattenSeq(q)
  BY Zenon DEF Pair
<1>11. q = [n \in 1 .. N |-> q[n]]
  BY <1>1
<1> HIDE DEF q
<1>5. q \in Seq(Seq(AnyMessage))
  BY <1>1, <1>2, <1>11
<1>6. PICK f : FlatSteps(f, q, N, AnyMessage)
  BY <1>1, <1>3, <1>5, FlatFold
<1> DEFINE Good(j) == (j = 0 \/ CallTurn(f[j])) /\ Has(f[j], j)
           X == {j \in Nat : j <= N => Good(j)}
<1>7. 0 \in X
  OBVIOUS
<1>8. ASSUME NEW j \in X PROVE j + 1 \in X
  <2> SUFFICES ASSUME j + 1 <= N PROVE Good(j + 1)
    OBVIOUS
  <2>1. j \in 0 .. N /\ j + 1 \in 1 .. N /\ j + 1 \in 0 .. N
    BY <1>1, <1>8
  <2>2. Good(j)
    BY <1>1, <1>8, <2>1
  <2>3. f[j + 1] = f[j] \o q[j + 1] /\ f[j] \in Seq(AnyMessage) /\ (j = 0 => f[j] = <<>>)
    <3>1. (j + 1) - 1 = j
      BY <2>1
    <3> QED BY <2>1, <3>1 , <1>6 DEF FlatSteps
  <2> DEFINE a == f[j]
             b == q[j + 1]
             t == a \o b
  <2>4. (j = 0 \/ CallTurn(a)) /\ Has(a, j) /\ CallTurn(b) /\ b \in Seq(AnyMessage) /\ b[2] = rep[j + 1] /\ Len(b) = 2
    BY <1>2, <2>1, <2>2
  <2>5. f[j + 1] = t /\ a \in Seq(AnyMessage) /\ (j = 0 => a = <<>>)
    BY <2>3
  <2> HIDE DEF a, b
  <2>6. CallTurn(t)
    BY <2>4, <2>5, TurnJoined
  <2>7. Has(t, j + 1)
    <3>1. /\ Len(t) = Len(a) + Len(b) /\ Len(a) \in Nat
          /\ \A k \in 1 .. Len(a) : t[k] = a[k]
          /\ \A k \in 1 .. Len(b) : t[Len(a) + k] = b[k]
      <4>1. a \in Seq(AnyMessage) /\ b \in Seq(AnyMessage)
        BY <2>4, <2>5
      <4> QED BY <4>1, JoinedAt
    <3> HIDE DEF t
    <3>2. \A k \in 1 .. Len(a) : k \in 1 .. Len(t)
      BY <2>4, <3>1
    <3>3. 2 \in 1 .. Len(b) /\ Len(a) + 2 \in 1 .. Len(t)
      BY <2>4, <3>1
    <3>4. t[Len(a) + 2] = rep[j + 1]
      BY <2>4, <3>1, <3>3
    <3> SUFFICES ASSUME NEW n \in 1 .. j + 1 PROVE \E k \in 1 .. Len(t) : t[k] = rep[n]
      OBVIOUS
    <3>5. CASE n = j + 1
      BY <3>3, <3>4, <3>5
    <3>6. CASE n # j + 1
      <4>1. n \in 1 .. j
        BY <2>1, <3>6
      <4>2. PICK k \in 1 .. Len(a) : a[k] = rep[n]
        BY <2>4, <4>1
      <4> QED BY <3>1, <3>2, <4>2
    <3> QED BY <3>5, <3>6
  <2> HIDE DEF Has, t
  <2> QED BY <2>5, <2>6, <2>7
<1> HIDE DEF Good
<1>9. Good(N)
  <2>1. X = Nat
    BY <1>7, <1>8, NatInductive
  <2> QED BY <1>1, <2>1
<1>10. CallTurn(FlattenSeq(q)) /\ Has(FlattenSeq(q), N)
  BY <1>1, <1>6, <1>9, Zenon DEF Good, FlatSteps
<1> QED BY <1>4, <1>10, Zenon

\* What the pass puts for a call.
LEMMA AnsweredIs ==
  ASSUME NEW ms \in Seq(AnyMessage), NEW i \in 1 .. Len(ms), ms[i].role = "calls"
  PROVE  LET t == Answered(ms, i)
         IN  /\ CallTurn(t)
             /\ \A n \in 1 .. Len(ms[i].ids) : \E k \in 1 .. Len(t) : t[k] = ReplyFor(ms, i, ms[i].ids[n])
<1> DEFINE m == ms[i]
           ids == m.ids
           rep == [n \in DOMAIN ids |-> ReplyFor(ms, i, ids[n])]
           t == Answered(ms, i)
<1>1. m \in AnyMessage /\ m.role = "calls" /\ ids \in AskLists /\ Len(ids) \in Nat \ {0} /\ DOMAIN ids = 1 .. Len(ids)
  BY AsksSome
<1>2. \A n \in 1 .. Len(ids) : rep[n] = ReplyFor(ms, i, ids[n])
  BY <1>1
<1>3. \A n \in 1 .. Len(ids) : rep[n] \in AnyMessage /\ rep[n].role = "tool" /\ rep[n].id = ids[n]
  <2> SUFFICES ASSUME NEW n \in 1 .. Len(ids) PROVE rep[n] \in AnyMessage /\ rep[n].role = "tool" /\ rep[n].id = ids[n]
    BY Zenon
  <2>1. ids[n] \in CallIds
    BY <1>1 DEF AskLists
  <2>2. PICK real \in BOOLEAN : ReplyFor(ms, i, ids[n]) = Reply(ids[n], real)
    BY <2>1, ReplyIs
  <2> HIDE DEF rep, ids
  <2> QED BY <1>2, <2>1, <2>2, KindsDiffer
<1>4. rep = [n \in 1 .. Len(ids) |-> rep[n]]
  BY <1>1
<1>5. t = IF splits /\ Len(ids) > 1
          THEN FlattenSeq([n \in DOMAIN ids |-> << Asks(<< ids[n] >>), rep[n] >>])
          ELSE << m >> \o rep
  BY Zenon DEF Answered
<1> HIDE DEF rep, t, ids
<1>6. RepliesFor(ids, rep)
  BY <1>1, <1>3, <1>4 DEF RepliesFor
<1>7. CASE splits /\ Len(ids) > 1
  <2>1. t = FlattenSeq([n \in DOMAIN ids |-> << Asks(<< ids[n] >>), rep[n] >>])
    BY <1>5, <1>7, Zenon
  <2> DEFINE u == FlattenSeq([n \in DOMAIN ids |-> << Asks(<< ids[n] >>), rep[n] >>])
  <2>3. CallTurn(u) /\ \A n \in 1 .. Len(ids) : \E k \in 1 .. Len(u) : u[k] = rep[n]
    BY <1>1, <1>6, TurnSplit
  <2>4. t = u
    BY <2>1
  <2> HIDE DEF u
  <2>2. CallTurn(t) /\ \A n \in 1 .. Len(ids) : \E k \in 1 .. Len(t) : t[k] = rep[n]
    BY <2>3, <2>4, Zenon
  <2> QED BY <1>2, <2>2 DEF t, ids
<1>8. CASE ~(splits /\ Len(ids) > 1)
  <2>1. t = << m >> \o rep
    BY <1>5, <1>8, Zenon
  <2>2. splits => Len(ids) = 1
    BY <1>1, <1>8
  <2>3. CallTurn(t)
    BY <1>1, <1>6, <2>1, <2>2, TurnWhole DEF ids
  <2>4. \A n \in 1 .. Len(ids) : 1 + n \in 1 .. Len(t) /\ t[1 + n] = rep[n]
    <3>1. << m >> \in Seq(AnyMessage) /\ Len(<< m >>) = 1 /\ rep \in Seq(AnyMessage) /\ Len(rep) = Len(ids)
      BY <1>1, <1>6 DEF RepliesFor
    <3>2. Len(t) = 1 + Len(ids) /\ \A n \in 1 .. Len(ids) : t[1 + n] = rep[n]
      BY <2>1, <3>1, JoinedAt
    <3> QED BY <1>1, <3>2
  <2> QED BY <1>2, <2>3, <2>4 DEF t, ids
<1> QED BY <1>7, <1>8
-----------------------------------------------------------------------------
(* What the pass makes is accepted, and loses no text.                     *)

\* The three ways of a step.
LEMMA StepWays ==
  ASSUME NEW ms \in Seq(AnyMessage), NEW f, Passed(f, ms), NEW i \in 1 .. Len(ms)
  PROVE  \/ /\ ms[i].role = "calls" /\ f[i] = Answered(ms, i) \o f[BlockEnd(ms, i) + 1]
            /\ EndsAt(ms, i, BlockEnd(ms, i)) /\ BlockEnd(ms, i) + 1 \in i + 1 .. Len(ms) + 1
         \/ /\ ms[i].role = "tool" /\ f[i] = f[i + 1] /\ i + 1 \in i + 1 .. Len(ms) + 1
         \/ /\ ms[i].role \notin {"calls", "tool"} /\ f[i] = << ms[i] >> \o f[i + 1]
            /\ i + 1 \in i + 1 .. Len(ms) + 1
<1>1. f[i] = PassStep(ms, f, i)
  BY DEF Passed
<1>2. EndsAt(ms, i, BlockEnd(ms, i)) /\ BlockEnd(ms, i) + 1 \in i + 1 .. Len(ms) + 1
      /\ i + 1 \in i + 1 .. Len(ms) + 1
  BY BlockEnds DEF EndsAt
<1>3. PassStep(ms, f, i) = IF ms[i].role = "calls" THEN Answered(ms, i) \o f[BlockEnd(ms, i) + 1]
                       ELSE IF ms[i].role = "tool" THEN f[i + 1] ELSE << ms[i] >> \o f[i + 1]
  <2>1. CASE ms[i].role = "calls"
    BY <2>1 DEF PassStep
  <2>2. CASE ms[i].role = "tool"
    BY <2>2 DEF PassStep
  <2>3. CASE ms[i].role \notin {"calls", "tool"}
    BY <2>3 DEF PassStep
  <2> QED BY <2>1, <2>2, <2>3
<1> QED BY <1>1, <1>2, <1>3

\* What a place of the list may begin with.
OpensAt(ms, i) == i = Len(ms) + 1 \/ ~Passes(ms[i])

\* From every place on, what is made is accepted.
LEMMA PassedFirm ==
  ASSUME NEW ms \in Seq(AnyMessage), NEW f, Passed(f, ms)
  PROVE  \A i \in 1 .. Len(ms) + 1 : Firm(f[i]) /\ (OpensAt(ms, i) => Opens(f[i]))
<1> DEFINE N == Len(ms)
           X == {i \in 1 .. N + 1 : Firm(f[i]) /\ (OpensAt(ms, i) => Opens(f[i]))}
<1>1. N \in Nat
  OBVIOUS
<1>2. N + 1 \in X
  <2>1. f[N + 1] = <<>>
    BY DEF Passed
  <2>2. Firm(<<>>) /\ Opens(<<>>)
    <3>1. <<>> \in Seq(AnyMessage) /\ Len(<<>>) = 0
      OBVIOUS
    <3> DEFINE e == <<>>
    <3>3. e \in Seq(AnyMessage) /\ Len(e) = 0 /\ \A k \in 1 .. Len(e) : FALSE
      BY <3>1
    <3>2. Firm(<<>>)
      <4> HIDE DEF e
      <4>1. Firm(e)
        BY <3>3, FirmIs
      <4> QED BY <4>1 DEF e
    <3> QED BY <3>2 DEF Opens
  <2> QED BY <1>1, <2>1, <2>2
<1>3. ASSUME NEW i \in 1 .. N, \A j \in i + 1 .. N + 1 : j \in X PROVE i \in X
  <2>1. ms[i] \in AnyMessage /\ i \in 1 .. N + 1 /\ i # N + 1
    BY <1>1
  <2>2. CASE /\ ms[i].role = "calls" /\ f[i] = Answered(ms, i) \o f[BlockEnd(ms, i) + 1]
             /\ EndsAt(ms, i, BlockEnd(ms, i)) /\ BlockEnd(ms, i) + 1 \in i + 1 .. N + 1
    <3> DEFINE a == Answered(ms, i)
               j == BlockEnd(ms, i) + 1
    <3>1. CallTurn(a)
      BY <2>2, AnsweredIs
    <3>2. j \in X
      BY <1>3, <2>2
    <3>3. OpensAt(ms, j)
      <4>1. BlockEnd(ms, i) = N \/ BlockEnd(ms, i) < N
        BY <2>2 DEF EndsAt
      <4> QED BY <2>2, <4>1 DEF EndsAt, OpensAt
    <3>4. f[i] = a \o f[j]
      BY <2>2
    <3> HIDE DEF a, j
    <3>5. Firm(f[j]) /\ Opens(f[j])
      BY <3>2, <3>3
    <3>6. Firm(a \o f[j])
      BY <3>1, <3>5, FirmJoined DEF CallTurn, Joins
    <3>7. Opens(a \o f[j])
      <4>1. a \in Seq(AnyMessage) /\ f[j] \in Seq(AnyMessage) /\ a # <<>> /\ Opens(a)
        BY <3>1, <3>5 DEF CallTurn, Firm
      <4>2. a \o f[j] # <<>> /\ (a \o f[j])[1] = a[1]
        BY <4>1
      <4> QED BY <4>1, <4>2 DEF Opens
    <3> QED BY <2>1, <3>4, <3>6, <3>7
  <2>3. CASE ms[i].role = "tool" /\ f[i] = f[i + 1] /\ i + 1 \in i + 1 .. N + 1
    <3>1. i + 1 \in X /\ ~OpensAt(ms, i)
      BY <1>3, <2>1, <2>3 DEF OpensAt, Passes
    <3> QED BY <2>1, <2>3, <3>1
  <2>4. CASE /\ ms[i].role \notin {"calls", "tool"} /\ f[i] = << ms[i] >> \o f[i + 1]
             /\ i + 1 \in i + 1 .. N + 1
    <3>1. Firm(f[i + 1])
      BY <1>3, <2>4
    <3>2. Firm(<< ms[i] >>) /\ Joins(<< ms[i] >>, f[i + 1])
      BY <2>1, <2>4, FirmAlone
    <3>3. Firm(f[i])
      BY <2>4, <3>1, <3>2, FirmJoined
    <3>4. OpensAt(ms, i) => Opens(f[i])
      <4> DEFINE m == ms[i]
                 b == f[i + 1]
      <4>1. m \in AnyMessage /\ b \in Seq(AnyMessage)
        BY <2>1, <3>1 DEF Firm
      <4>2. f[i] = << m >> \o b
        BY <2>4
      <4> HIDE DEF m, b
      <4>3. f[i][1] = m
        BY <4>1, <4>2
      <4> QED BY <2>1, <4>3 DEF Opens, OpensAt, m
    <3> QED BY <2>1, <3>3, <3>4
  <2> QED BY <2>2, <2>3, <2>4, StepWays
<1> HIDE DEF X
<1>4. \A i \in 1 .. N + 1 : i \in X
  BY <1>1, <1>2, <1>3, FromBehind
<1> QED BY <1>4 DEF X

\* So is what is repaired.
LEMMA RepairFirm ==
  ASSUME NEW ms \in Seq(AnyMessage)
  PROVE  Firm(Repair(ms))
<1>1. PICK f : Passed(f, ms)
  BY RepairPasses
<1>2. 1 \in 1 .. Len(ms) + 1 /\ Repair(ms) = f[1]
  BY <1>1 DEF Passed
<1> QED BY <1>1, <1>2, PassedFirm

\* The texts of a list, and those from a place on.
TextsFrom(ms, i) == {k \in i .. Len(ms) : ms[k].role = "text"}
TextsOf(t) == {k \in 1 .. Len(t) : t[k].role = "text"}

\* Texts are found by their role.
LEMMA TextsAre ==
  ASSUME NEW t \in Seq(AnyMessage)
  PROVE  TextsIn(t) = TextsOf(t) /\ IsFiniteSet(TextsOf(t)) /\ Cardinality(TextsOf(t)) \in Nat
<1>1. \A k \in 1 .. Len(t) : t[k] = Text <=> t[k].role = "text"
  <2> SUFFICES ASSUME NEW k \in 1 .. Len(t) PROVE t[k] = Text <=> t[k].role = "text"
    OBVIOUS
  <2>1. MessageIs(t[k])
    BY MessageKinds
  <2>2. Text.role = "text" /\ Empty.role = "empty"
    BY KindsDiffer
  <2> QED BY <2>1, <2>2 DEF MessageIs
<1>2. DOMAIN t = 1 .. Len(t) /\ Len(t) \in Nat
  OBVIOUS
<1>3. TextsIn(t) = TextsOf(t)
  BY <1>1, <1>2 DEF TextsIn, TextsOf
<1>4. IsFiniteSet(1 .. Len(t)) /\ TextsOf(t) \in SUBSET (1 .. Len(t))
  BY <1>2, FS_Interval DEF TextsOf
<1> QED BY <1>3, <1>4, FS_Subset, FS_CardinalityType

\* Texts behind a list that has none are as many as before.
LEMMA TextsBehind ==
  ASSUME NEW a \in Seq(AnyMessage), NEW b \in Seq(AnyMessage), TextsOf(a) = {}
  PROVE  Cardinality(TextsOf(a \o b)) = Cardinality(TextsOf(b))
<1> DEFINE t == a \o b
           g == [k \in TextsOf(b) |-> Len(a) + k]
<1>1. /\ t \in Seq(AnyMessage) /\ Len(t) = Len(a) + Len(b) /\ Len(a) \in Nat /\ Len(b) \in Nat
      /\ \A k \in 1 .. Len(a) : t[k] = a[k]
      /\ \A k \in 1 .. Len(b) : t[Len(a) + k] = b[k]
  BY JoinedAt
<1> HIDE DEF t
<1>2. \A k \in TextsOf(b) : k \in Nat /\ Len(a) + k \in TextsOf(t)
  BY <1>1 DEF TextsOf
<1>3. ASSUME NEW x \in TextsOf(t) PROVE \E k \in TextsOf(b) : x = Len(a) + k
  <2>1. x \in 1 .. Len(t) /\ t[x].role = "text"
    BY <1>3 DEF TextsOf
  <2>2. ~(x \in 1 .. Len(a))
    BY <1>1, <2>1 DEF TextsOf
  <2> DEFINE k == x - Len(a)
  <2>3. k \in 1 .. Len(b) /\ x = Len(a) + k
    BY <1>1, <2>1, <2>2
  <2> HIDE DEF k
  <2>4. k \in TextsOf(b)
    BY <1>1, <2>1, <2>3 DEF TextsOf
  <2> QED BY <2>3, <2>4
<1>4. g \in Bijection(TextsOf(b), TextsOf(t))
  <2>1. g \in [TextsOf(b) -> TextsOf(t)]
    BY <1>2
  <2>2. \A k, l \in TextsOf(b) : g[k] = g[l] => k = l
    BY <1>1, <1>2
  <2>3. \A x \in TextsOf(t) : \E k \in TextsOf(b) : g[k] = x
    BY <1>3
  <2> QED BY <2>1, <2>2, <2>3 DEF Bijection, Injection, Surjection, IsInjective
<1>5. ExistsBijection(TextsOf(b), TextsOf(t)) /\ IsFiniteSet(TextsOf(b))
  BY <1>4, TextsAre DEF ExistsBijection
<1> QED BY <1>5, FS_Bijection DEF t

\* A text in front of a list is one more.
LEMMA TextsMore ==
  ASSUME NEW m \in AnyMessage, NEW b \in Seq(AnyMessage)
  PROVE  Cardinality(TextsOf(<< m >> \o b)) = IF m.role = "text" THEN Cardinality(TextsOf(b)) + 1
                                              ELSE Cardinality(TextsOf(b))
<1> DEFINE a == << m >>
           t == a \o b
           o == << Empty >> \o b
<1>1. a \in Seq(AnyMessage) /\ Len(a) = 1 /\ a[1] = m /\ << Empty >> \in Seq(AnyMessage) /\ Len(<< Empty >>) = 1 /\ << Empty >>[1] = Empty
  BY KindsDiffer
<1>2. Empty.role # "text"
  BY KindsDiffer
<1>3. /\ t \in Seq(AnyMessage) /\ Len(t) = 1 + Len(b) /\ Len(b) \in Nat
      /\ t[1] = m
      /\ \A k \in 1 .. Len(b) : t[1 + k] = b[k]
  <2>1. 1 \in 1 .. Len(a)
    BY <1>1
  <2> HIDE DEF a
  <2> QED BY <1>1, <2>1, JoinedAt
<1>4. /\ o \in Seq(AnyMessage) /\ Len(o) = 1 + Len(b)
      /\ o[1] = Empty
      /\ \A k \in 1 .. Len(b) : o[1 + k] = b[k]
  <2>1. 1 \in 1 .. Len(<< Empty >>)
    BY <1>1
  <2> QED BY <1>1, <2>1, JoinedAt
<1>5. TextsOf(<< Empty >>) = {}
  BY <1>1, <1>2 DEF TextsOf
<1>6. Cardinality(TextsOf(o)) = Cardinality(TextsOf(b))
  BY <1>1, <1>5, TextsBehind
<1> HIDE DEF t, o
<1>7. \A k \in 1 .. Len(t) : k = 1 \/ (k - 1 \in 1 .. Len(b) /\ 1 + (k - 1) = k)
  BY <1>3
<1>8. \A k \in 1 .. Len(t) : k = 1 \/ t[k] = o[k]
  BY <1>3, <1>4, <1>7
<1>9. 1 \notin TextsOf(o)
  BY <1>2, <1>4 DEF TextsOf
<1>10. CASE m.role = "text"
  <2>1. TextsOf(t) = TextsOf(o) \cup {1}
    <3>1. 1 \in TextsOf(t)
      BY <1>3, <1>10 DEF TextsOf
    <3>2. \A k \in TextsOf(t) : k = 1 \/ k \in TextsOf(o)
      BY <1>3, <1>4, <1>8 DEF TextsOf
    <3>3. \A k \in TextsOf(o) : k \in TextsOf(t)
      BY <1>3, <1>4, <1>8, <1>9 DEF TextsOf
    <3> QED BY <3>1, <3>2, <3>3
  <2>2. Cardinality(TextsOf(t)) = Cardinality(TextsOf(o)) + 1
    BY <1>4, <1>9, <2>1, TextsAre, FS_AddElement
  <2> QED BY <1>6, <1>10, <2>2 DEF t
<1>11. CASE m.role # "text"
  <2>1. 1 \notin TextsOf(t)
    BY <1>3, <1>11 DEF TextsOf
  <2>2. TextsOf(t) = TextsOf(o)
    <3>1. \A k \in TextsOf(t) : k # 1 /\ k \in TextsOf(o)
      BY <1>3, <1>4, <1>8, <2>1 DEF TextsOf
    <3>2. \A k \in TextsOf(o) : k # 1 /\ k \in TextsOf(t)
      BY <1>3, <1>4, <1>8, <1>9 DEF TextsOf
    <3> QED BY <3>1, <3>2
  <2> QED BY <1>6, <1>11, <2>2 DEF t
<1> QED BY <1>10, <1>11

\* A place counts if it is a text, and those passed over do not.
LEMMA TextsFromStep ==
  ASSUME NEW ms \in Seq(AnyMessage), NEW i \in 1 .. Len(ms), NEW j \in i + 1 .. Len(ms) + 1,
         \A k \in i + 1 .. j - 1 : ms[k].role # "text"
  PROVE  Cardinality(TextsFrom(ms, i)) = IF ms[i].role = "text" THEN Cardinality(TextsFrom(ms, j)) + 1
                                         ELSE Cardinality(TextsFrom(ms, j))
<1> DEFINE N == Len(ms)
<1>1. N \in Nat
  OBVIOUS
<1>2. IsFiniteSet(TextsFrom(ms, j))
  <2>1. TextsFrom(ms, j) \in SUBSET (1 .. N)
    <3>1. \A k \in j .. N : k \in 1 .. N
      BY <1>1
    <3> QED BY <3>1 DEF TextsFrom
  <2>2. IsFiniteSet(1 .. N)
    BY <1>1, FS_Interval
  <2> QED BY <2>1, <2>2, FS_Subset
<1>3. i \notin TextsFrom(ms, j)
  BY DEF TextsFrom
<1>4. \A k \in i .. N : k = i \/ k \in i + 1 .. j - 1 \/ k \in j .. N
  BY <1>1
<1>5. \A k \in j .. N : k \in i .. N
  BY <1>1
<1>6. i \in i .. N
  BY <1>1
<1>7. CASE ms[i].role = "text"
  <2>1. TextsFrom(ms, i) = TextsFrom(ms, j) \cup {i}
    <3>1. \A k \in TextsFrom(ms, i) : k = i \/ k \in TextsFrom(ms, j)
      BY <1>4 DEF TextsFrom
    <3>2. i \in TextsFrom(ms, i) /\ \A k \in TextsFrom(ms, j) : k \in TextsFrom(ms, i)
      BY <1>5, <1>6, <1>7 DEF TextsFrom
    <3> QED BY <3>1, <3>2
  <2> QED BY <1>2, <1>3, <1>7, <2>1, FS_AddElement
<1>8. CASE ms[i].role # "text"
  <2>1. TextsFrom(ms, i) = TextsFrom(ms, j)
    <3>1. \A k \in TextsFrom(ms, i) : k \in TextsFrom(ms, j)
      BY <1>4, <1>8 DEF TextsFrom
    <3>2. \A k \in TextsFrom(ms, j) : k \in TextsFrom(ms, i)
      BY <1>5 DEF TextsFrom
    <3> QED BY <3>1, <3>2
  <2> QED BY <1>8, <2>1
<1> QED BY <1>7, <1>8

\* The pass makes as many texts as there were from each place on.
LEMMA RepairTexts ==
  ASSUME NEW ms \in Seq(AnyMessage)
  PROVE  Cardinality(TextsIn(Repair(ms))) = Cardinality(TextsIn(ms))
<1>1. PICK f : Passed(f, ms)
  BY RepairPasses
<1> DEFINE N == Len(ms)
           Same(i) == Cardinality(TextsOf(f[i])) = Cardinality(TextsFrom(ms, i))
           X == {i \in 1 .. N + 1 : Same(i)}
<1>2. N \in Nat
  OBVIOUS
<1>3. \A i \in 1 .. N + 1 : f[i] \in Seq(AnyMessage)
  BY <1>1, PassedFirm DEF Firm
<1>4. N + 1 \in X
  <2>1. f[N + 1] = <<>>
    BY <1>1 DEF Passed
  <2>2. TextsOf(<<>>) = {} /\ TextsFrom(ms, N + 1) = {}
    BY <1>2 DEF TextsOf, TextsFrom
  <2>3. TextsOf(f[N + 1]) = TextsFrom(ms, N + 1)
    BY <2>1, <2>2, Zenon
  <2>4. Same(N + 1)
    BY <2>3
  <2> HIDE DEF Same
  <2> QED BY <1>2, <2>4
<1>5. ASSUME NEW i \in 1 .. N, \A j \in i + 1 .. N + 1 : j \in X PROVE i \in X
  <2>1. ms[i] \in AnyMessage /\ i \in 1 .. N + 1
    BY <1>2
  <2>2. CASE /\ ms[i].role = "calls" /\ f[i] = Answered(ms, i) \o f[BlockEnd(ms, i) + 1]
             /\ EndsAt(ms, i, BlockEnd(ms, i)) /\ BlockEnd(ms, i) + 1 \in i + 1 .. N + 1
    <3> DEFINE a == Answered(ms, i)
               e == BlockEnd(ms, i)
    <3>1. CallTurn(a)
      BY <2>2, AnsweredIs
    <3>2. f[i] = a \o f[e + 1] /\ EndsAt(ms, i, e) /\ e + 1 \in i + 1 .. N + 1
      BY <2>2
    <3> HIDE DEF a, e
    <3>3. Same(e + 1) /\ e + 1 \in 1 .. N + 1
      BY <1>5, <3>2
    <3>4. f[e + 1] \in Seq(AnyMessage)
      BY <1>3, <3>3
    <3>5. a \in Seq(AnyMessage) /\ TextsOf(a) = {}
      BY <3>1 DEF CallTurn, Firm, TextsOf
    <3>6. Cardinality(TextsOf(f[i])) = Cardinality(TextsOf(f[e + 1]))
      BY <3>2, <3>4, <3>5, TextsBehind
    <3>7. \A k \in i + 1 .. (e + 1) - 1 : ms[k].role # "text"
      <4>1. e \in Int /\ (e + 1) - 1 = e
        BY <1>2, <3>2 DEF EndsAt
      <4> QED BY <3>2, <4>1 DEF EndsAt, Passes
    <3>8. Cardinality(TextsFrom(ms, i)) = Cardinality(TextsFrom(ms, e + 1))
      BY <2>2, <3>2, <3>7, TextsFromStep
    <3> QED BY <2>1, <3>3, <3>6, <3>8
  <2>3. ASSUME i + 1 \in i + 1 .. N + 1
        PROVE  /\ Same(i + 1) /\ f[i + 1] \in Seq(AnyMessage)
               /\ Cardinality(TextsFrom(ms, i)) = IF ms[i].role = "text" THEN Cardinality(TextsFrom(ms, i + 1)) + 1
                                                  ELSE Cardinality(TextsFrom(ms, i + 1))
    <3>1. Same(i + 1) /\ f[i + 1] \in Seq(AnyMessage)
      BY <1>3, <1>5, <2>3
    <3>2. \A k \in i + 1 .. (i + 1) - 1 : FALSE
      BY <1>2
    <3>3. i + 1 \in i + 1 .. Len(ms) + 1
      BY <2>3
    <3> QED BY <3>1, <3>2, <3>3, TextsFromStep
  <2>4. CASE ms[i].role = "tool" /\ f[i] = f[i + 1] /\ i + 1 \in i + 1 .. N + 1
    BY <2>1, <2>3, <2>4
  <2>5. CASE /\ ms[i].role \notin {"calls", "tool"} /\ f[i] = << ms[i] >> \o f[i + 1]
             /\ i + 1 \in i + 1 .. N + 1
    <3>1. Cardinality(TextsOf(f[i])) = IF ms[i].role = "text" THEN Cardinality(TextsOf(f[i + 1])) + 1
                                       ELSE Cardinality(TextsOf(f[i + 1]))
      BY <2>1, <2>3, <2>5, TextsMore
    <3>2. Same(i)
      <4> DEFINE c == Cardinality(TextsOf(f[i]))
                 d == Cardinality(TextsOf(f[i + 1]))
                 p == Cardinality(TextsFrom(ms, i))
                 q == Cardinality(TextsFrom(ms, i + 1))
      <4>1. d = q /\ (c = IF ms[i].role = "text" THEN d + 1 ELSE d)
                  /\ (p = IF ms[i].role = "text" THEN q + 1 ELSE q)
        BY <2>3, <2>5, <3>1
      <4> HIDE DEF c, d, p, q
      <4>2. c = p
        BY <4>1
      <4> QED BY <4>2 DEF c, p
    <3> QED BY <2>1, <3>2
  <2> QED BY <1>1, <2>2, <2>4, <2>5, StepWays
<1> HIDE DEF X
<1>6. \A i \in 1 .. N + 1 : i \in X
  BY <1>2, <1>4, <1>5, FromBehind
<1>7. 1 \in X
  BY <1>2, <1>6
<1>8. Same(1)
  BY <1>7 DEF X
<1>9. TextsFrom(ms, 1) = TextsIn(ms) /\ TextsOf(f[1]) = TextsIn(Repair(ms))
  <2>1. Repair(ms) = f[1] /\ f[1] \in Seq(AnyMessage)
    BY <1>1, <1>2, <1>3 DEF Passed
  <2> QED BY <2>1, TextsAre DEF TextsFrom, TextsOf
<1> QED BY <1>8, <1>9

-----------------------------------------------------------------------------
(* A list that is accepted is left as it is.                               *)

\* The rest of a list.
Rest(t, k) == [x \in 1 .. Len(t) + 1 - k |-> t[k + x - 1]]

\* What it holds.
LEMMA RestIs ==
  ASSUME NEW t \in Seq(AnyMessage), NEW k \in 1 .. Len(t) + 1
  PROVE  /\ Rest(t, k) \in Seq(AnyMessage) /\ Len(Rest(t, k)) = Len(t) + 1 - k
         /\ \A x \in 1 .. Len(t) + 1 - k : Rest(t, k)[x] = t[k + x - 1]
<1>1. Len(t) \in Nat
  OBVIOUS
<1>2. Len(t) + 1 - k \in Nat
  BY <1>1
<1>3. \A x \in 1 .. Len(t) + 1 - k : t[k + x - 1] \in AnyMessage
  BY <1>1
<1> QED BY <1>2, <1>3 DEF Rest

\* The turn at k of an accepted list.
LEMMA TurnKept ==
  ASSUME NEW t, Firm(t), NEW k \in 1 .. Len(t), t[k].role = "calls"
  PROVE  LET L == Len(t[k].ids)
         IN  /\ L \in Nat \ {0} /\ EndsAt(t, k, k + L) /\ Len(Answered(t, k)) = 1 + L
             /\ Answered(t, k) \in Seq(AnyMessage)
             /\ \A x \in 1 .. 1 + L : Answered(t, k)[x] = t[k + x - 1]
<1> DEFINE m == t[k]
           ids == m.ids
           L == Len(ids)
           rep == [n \in DOMAIN ids |-> ReplyFor(t, k, ids[n])]
           a == Answered(t, k)
<1>1. t \in Seq(AnyMessage) /\ CallAt(t, k) /\ m \in AnyMessage /\ Len(t) \in Nat /\ m.role = "calls"
  <2>1. t \in Seq(AnyMessage) /\ CallAt(t, k)
    BY FirmIs
  <2> QED BY <2>1
<1>2. L \in Nat \ {0} /\ DOMAIN ids = 1 .. L /\ ids \in AskLists
  BY <1>1, AsksSome
<1>3. /\ splits => L = 1
      /\ k + L <= Len(t)
      /\ \A n \in 1 .. L : t[k + n].role = "tool" /\ t[k + n].id = ids[n]
      /\ k + L < Len(t) => ~Passes(t[k + L + 1])
  BY <1>1, <1>2 DEF CallAt
<1>4. a = << m >> \o rep
  <2>1. ~(splits /\ L > 1)
    <3>1. splits => L = 1
      BY <1>3
    <3> HIDE DEF L
    <3>2. L = 1 => ~(L > 1)
      OBVIOUS
    <3> QED BY <3>1, <3>2, Zenon
  <2> QED BY <2>1, Zenon DEF Answered
<1>13. \A n \in 1 .. L : rep[n] = ReplyFor(t, k, ids[n])
  BY <1>2
<1>14. rep = [n \in 1 .. L |-> rep[n]]
  BY <1>2
<1> HIDE DEF m, L, rep, a
<1>5. \A n, l \in 1 .. L : ids[n] = ids[l] => n = l
  BY <1>2 DEF AskLists, IsInjective
<1>6. EndsAt(t, k, k + L)
  <2>1. k + L \in k .. Len(t)
    BY <1>1, <1>2, <1>3
  <2>2. \A x \in k + 1 .. k + L : x - k \in 1 .. L /\ k + (x - k) = x
    BY <1>1, <1>2
  <2>3. \A x \in k + 1 .. k + L : Passes(t[x])
    BY <1>3, <2>2 DEF Passes
  <2> QED BY <1>3, <2>1, <2>3 DEF EndsAt
<1>7. BlockEnd(t, k) = k + L
  BY <1>1, <1>6, BlockEndsOnce
<1>8. ASSUME NEW n \in 1 .. L PROVE rep[n] = t[k + n]
  <2>1. ids[n] \in CallIds
    BY <1>2 DEF AskLists
  <2>2. k + n \in k + 1 .. k + L
    BY <1>1, <1>2
  <2>3. RepliesTo(t, k, k + n, ids[n])
    BY <1>3, <1>7, <2>2 DEF RepliesTo
  <2>4. PICK c : RepliesTo(t, k, c, ids[n]) /\ ReplyFor(t, k, ids[n]) = t[c]
    <3>1. \E c : RepliesTo(t, k, c, ids[n])
      BY <2>3
    <3> QED BY <1>1, <2>1, <3>1, ReplyIs
  <2> DEFINE l == c - k
  <2>5. l \in 1 .. L /\ c = k + l
    BY <1>1, <1>2, <1>7, <2>4 DEF RepliesTo
  <2> HIDE DEF l
  <2>6. t[c].id = ids[l] /\ t[c].id = ids[n]
    BY <1>3, <2>4, <2>5 DEF RepliesTo
  <2>7. l = n
    BY <1>5, <2>5, <2>6
  <2> QED BY <1>13, <2>4, <2>5, <2>7
<1>9. rep \in Seq(AnyMessage) /\ Len(rep) = L
  <2>1. \A n \in 1 .. L : rep[n] \in AnyMessage
    <3>1. \A n \in 1 .. L : k + n \in 1 .. Len(t)
      BY <1>1, <1>2, <1>3
    <3> QED BY <1>1, <1>8, <3>1
  <2> QED BY <1>2, <1>14, <2>1
<1>10. /\ a \in Seq(AnyMessage) /\ Len(a) = 1 + L /\ a[1] = m
       /\ \A n \in 1 .. L : a[1 + n] = rep[n]
  <2> DEFINE h == << m >>
  <2>1. h \in Seq(AnyMessage) /\ Len(h) = 1 /\ h[1] = m /\ 1 \in 1 .. Len(h) /\ a = h \o rep
    BY <1>1, <1>4
  <2> HIDE DEF h
  <2>2. /\ a \in Seq(AnyMessage) /\ Len(a) = Len(h) + Len(rep) /\ a[1] = h[1]
        /\ \A n \in 1 .. Len(rep) : a[Len(h) + n] = rep[n]
    <3> DEFINE c == h \o rep
    <3>1. h \in Seq(AnyMessage) /\ rep \in Seq(AnyMessage) /\ 1 \in 1 .. Len(h)
      BY <1>9, <2>1
    <3>2. /\ c \in Seq(AnyMessage) /\ Len(c) = Len(h) + Len(rep) /\ c[1] = h[1]
          /\ \A n \in 1 .. Len(rep) : c[Len(h) + n] = rep[n]
      BY <3>1, JoinedAt
    <3>3. a = c
      BY <2>1
    <3> HIDE DEF c
    <3> QED BY <3>2, <3>3, Zenon
  <2>3. Len(rep) = L /\ Len(h) = 1 /\ h[1] = m
    BY <1>9, <2>1
  <2> HIDE DEF rep
  <2>4. Len(a) = 1 + L
    BY <2>2, <2>3, Zenon
  <2>5. a[1] = m
    BY <2>2, <2>3, Zenon
  <2>6. \A n \in 1 .. L : a[1 + n] = rep[n]
    BY <2>2, <2>3, Zenon
  <2> QED BY <2>2, <2>4, <2>5, <2>6
<1>11. ASSUME NEW x \in 1 .. 1 + L PROVE a[x] = t[k + x - 1]
  <2>1. CASE x = 1
    <3>1. k + x - 1 = k
      BY <1>1, <2>1
    <3> QED BY <1>10, <2>1, <3>1 DEF m
  <2>2. CASE x # 1
    <3> DEFINE n == x - 1
    <3>1. n \in 1 .. L /\ x = 1 + n /\ k + x - 1 = k + n
      BY <1>1, <1>2, <2>2
    <3> HIDE DEF n
    <3> QED BY <1>8, <1>10, <3>1
  <2> QED BY <2>1, <2>2
<1> QED BY <1>2, <1>6, <1>10, <1>11 DEF L, a, m

\* A list that runs along t from i on, and the rest of t, are the rest of t from i on.
LEMMA RestJoined ==
  ASSUME NEW t \in Seq(AnyMessage), NEW i \in 1 .. Len(t), NEW a \in Seq(AnyMessage),
         i + Len(a) \in 1 .. Len(t) + 1,
         \A x \in 1 .. Len(a) : a[x] = t[i + x - 1]
  PROVE  a \o Rest(t, i + Len(a)) = Rest(t, i)
<1> DEFINE N == Len(t)
           L == Len(a)
           j == i + L
           b == Rest(t, j)
           c == a \o b
           r == Rest(t, i)
<1>1. N \in Nat /\ L \in Nat /\ j = i + L /\ j \in 1 .. N + 1 /\ i \in 1 .. N
  OBVIOUS
<1>2. /\ b \in Seq(AnyMessage) /\ Len(b) = N + 1 - j
      /\ \A x \in 1 .. N + 1 - j : b[x] = t[j + x - 1]
  BY RestIs
<1>3. /\ r \in Seq(AnyMessage) /\ Len(r) = N + 1 - i
      /\ \A x \in 1 .. N + 1 - i : r[x] = t[i + x - 1]
  <2>1. i \in 1 .. N + 1
    BY <1>1
  <2> QED BY <2>1, RestIs
<1> HIDE DEF b, r
<1>4. /\ c \in Seq(AnyMessage) /\ Len(c) = L + Len(b)
      /\ \A x \in 1 .. L : c[x] = a[x]
      /\ \A x \in 1 .. Len(b) : c[L + x] = b[x]
  <2>1. a \in Seq(AnyMessage) /\ b \in Seq(AnyMessage)
    BY <1>2
  <2> QED BY <2>1, JoinedAt
<1>5. \A x \in 1 .. L : a[x] = t[i + x - 1]
  OBVIOUS
<1> HIDE DEF N, L, j, c
<1>6. Len(c) = Len(r)
  BY <1>1, <1>2, <1>3, <1>4
<1>7. ASSUME NEW x \in 1 .. N + 1 - i PROVE c[x] = r[x]
  <2>1. CASE x \in 1 .. L
    BY <1>3, <1>4, <1>5, <2>1
  <2>2. CASE x \notin 1 .. L
    <3> DEFINE y == x - L
    <3>1. y \in 1 .. N + 1 - j /\ x = L + y /\ j + y - 1 = i + x - 1
      BY <1>1, <2>2
    <3> HIDE DEF y
    <3>2. c[x] = b[y]
      BY <1>2, <1>4, <3>1
    <3> QED BY <1>2, <1>3, <3>1, <3>2
  <2> QED BY <2>1, <2>2
<1>8. c = r
  BY <1>3, <1>4, <1>6, <1>7, SameList
<1> QED BY <1>8 DEF c, r, b, j, L

\* The pass copies an accepted list.
LEMMA PassSame ==
  ASSUME NEW t, Firm(t)
  PROVE  Repair(t) = t
<1>1. t \in Seq(AnyMessage) /\ Len(t) \in Nat
  BY DEF Firm
<1>2. PICK f : Passed(f, t)
  BY <1>1, RepairPasses
<1> DEFINE N == Len(t)
           Kept(i) == (i = N + 1 \/ t[i].role # "tool") => f[i] = Rest(t, i)
           X == {i \in 1 .. N + 1 : Kept(i)}
<1>3. N + 1 \in X
  <2>1. f[N + 1] = <<>>
    BY <1>2 DEF Passed
  <2>2. Rest(t, N + 1) \in Seq(AnyMessage) /\ Len(Rest(t, N + 1)) = 0
    BY <1>1, RestIs
  <2>3. Rest(t, N + 1) = <<>>
    BY <2>2
  <2> QED BY <1>1, <2>1, <2>3
<1>4. ASSUME NEW i \in 1 .. N, \A j \in i + 1 .. N + 1 : j \in X PROVE i \in X
  <2>1. i \in 1 .. N + 1 /\ t[i] \in AnyMessage
    BY <1>1
  <2>2. SUFFICES ASSUME t[i].role # "tool" PROVE f[i] = Rest(t, i)
    BY <2>1
  <2>3. Rest(t, i) \in Seq(AnyMessage) /\ Len(Rest(t, i)) = N + 1 - i
        /\ \A x \in 1 .. N + 1 - i : Rest(t, i)[x] = t[i + x - 1]
    BY <1>1, <2>1, RestIs
  <2>4. CASE t[i].role = "calls" /\ f[i] = Answered(t, i) \o f[BlockEnd(t, i) + 1]
    <3> DEFINE L == Len(t[i].ids)
               a == Answered(t, i)
               j == i + L + 1
               b == Rest(t, j)
    <3>1. /\ L \in Nat \ {0} /\ EndsAt(t, i, i + L) /\ Len(a) = 1 + L /\ a \in Seq(AnyMessage)
          /\ \A x \in 1 .. 1 + L : a[x] = t[i + x - 1]
      BY <2>4, TurnKept
    <3>2. BlockEnd(t, i) = i + L
      BY <1>1, <3>1, BlockEndsOnce
    <3>3. f[i] = a \o f[j]
      BY <2>4, <3>2
    <3> HIDE DEF L, a
    <3>4. j \in i + 1 .. N + 1 /\ j \in 1 .. N + 1
      BY <1>1, <3>1 DEF EndsAt
    <3>5. j = N + 1 \/ t[j].role # "tool"
      <4>1. i + L = N \/ i + L < N
        BY <1>1, <3>1 DEF EndsAt
      <4> QED BY <3>1, <4>1 DEF EndsAt, Passes
    <3>6. f[j] = b
      BY <1>4, <3>4, <3>5
    <3>7. i + Len(a) = j /\ j \in 1 .. Len(t) + 1 /\ i \in 1 .. Len(t)
      BY <1>1, <3>1, <3>4
    <3>8. \A x \in 1 .. Len(a) : a[x] = t[i + x - 1]
      BY <3>1
    <3> HIDE DEF j
    <3>9. a \o Rest(t, j) = Rest(t, i)
      BY <1>1, <3>1, <3>7, <3>8, RestJoined
    <3> QED BY <3>3, <3>6, <3>9, Zenon
  <2>5. CASE t[i].role \notin {"calls", "tool"} /\ f[i] = << t[i] >> \o f[i + 1]
    <3> DEFINE a == << t[i] >>
               j == i + 1
               b == Rest(t, j)
    <3>1. Len(a) = 1 /\ a \in Seq(AnyMessage) /\ a[1] = t[i]
      BY <2>1
    <3>3. f[i] = a \o f[j]
      BY <2>5
    <3>4. j \in i + 1 .. N + 1 /\ j \in 1 .. N + 1
      BY <1>1
    <3>5. j = N + 1 \/ t[j].role # "tool"
      <4>1. SUFFICES ASSUME j \in 1 .. N, t[j].role = "tool" PROVE FALSE
        BY <1>1
      <4>2. ReplyAt(t, j)
        BY <4>1, FirmIs
      <4>3. PICK k \in 1 .. (j - 1) : t[k].role = "calls" /\ j <= k + Len(t[k].ids)
        BY <4>2, Zenon DEF ReplyAt
      <4>4. k # i /\ k \in 1 .. N /\ k < i
        BY <1>1, <2>5, <4>1, <4>3
      <4>5. CallAt(t, k) /\ t[k] \in AnyMessage
        BY <1>1, <4>3, <4>4, FirmIs
      <4> DEFINE L == Len(t[k].ids)
                 n == i - k
      <4>6. L \in Nat /\ DOMAIN t[k].ids = 1 .. L /\ j <= k + L
        BY <4>3, <4>5, AsksSome
      <4> HIDE DEF L
      <4>7. n \in 1 .. L /\ k + n = i
        BY <4>4, <4>6
      <4> HIDE DEF n
      <4>8. t[k + n].role = "tool"
        BY <4>5, <4>6, <4>7 DEF CallAt
      <4> QED BY <2>5, <4>7, <4>8
    <3>6. f[j] = b
      BY <1>4, <3>4, <3>5
    <3>7. i + Len(a) = j /\ j \in 1 .. Len(t) + 1 /\ i \in 1 .. Len(t)
      BY <1>1, <3>1, <3>4
    <3>8. \A x \in 1 .. Len(a) : a[x] = t[i + x - 1]
      <4>1. \A x \in 1 .. Len(a) : x = 1 /\ i + x - 1 = i
        BY <1>1, <3>1
      <4> QED BY <3>1, <4>1
    <3> HIDE DEF a, j
    <3>9. a \o Rest(t, j) = Rest(t, i)
      BY <1>1, <3>1, <3>7, <3>8, RestJoined
    <3> QED BY <3>3, <3>6, <3>9, Zenon
  <2> QED BY <1>1, <1>2, <2>2, <2>4, <2>5, StepWays
<1> HIDE DEF X
<1>5. \A i \in 1 .. N + 1 : i \in X
  BY <1>1, <1>3, <1>4, FromBehind
<1>6. 1 = N + 1 \/ t[1].role # "tool"
  <2>1. SUFFICES ASSUME 1 \in 1 .. N, t[1].role = "tool" PROVE FALSE
    BY <1>1
  <2>2. ReplyAt(t, 1)
    BY <2>1, FirmIs
  <2> QED BY <2>2 DEF ReplyAt
<1>7. f[1] = Rest(t, 1)
  <2>1. 1 \in X
    BY <1>1, <1>5
  <2> QED BY <1>6, <2>1 DEF X
<1>8. Rest(t, 1) = t
  <2>1. Rest(t, 1) \in Seq(AnyMessage) /\ Len(Rest(t, 1)) = Len(t) /\ \A x \in 1 .. Len(t) : Rest(t, 1)[x] = t[x]
    <3>1. 1 \in 1 .. Len(t) + 1 /\ Len(t) + 1 - 1 = Len(t) /\ \A x \in 1 .. Len(t) : 1 + x - 1 = x
      BY <1>1
    <3>2. /\ Rest(t, 1) \in Seq(AnyMessage) /\ Len(Rest(t, 1)) = Len(t) + 1 - 1
          /\ \A x \in 1 .. Len(t) + 1 - 1 : Rest(t, 1)[x] = t[1 + x - 1]
      BY <1>1, <3>1, RestIs
    <3> HIDE DEF Rest
    <3> QED BY <3>1, <3>2
  <2> HIDE DEF Rest
  <2> QED BY <1>1, <2>1, SameList
<1> QED BY <1>2, <1>7, <1>8 DEF Passed

-----------------------------------------------------------------------------
(* No reply is lost.                                                       *)

\* The reply at k stands behind the call at i, which asked for it.
Owed(ms, i, k) ==
    /\ i < k /\ ms[i].role = "calls" /\ ms[k].role = "tool"
    /\ \E n \in DOMAIN ms[i].ids : ms[i].ids[n] = ms[k].id
    /\ \A b \in (i + 1) .. (k - 1) : ms[b].role \in {"tool", "empty"}

\* Replies are as they came in: none is a placeholder.
Genuine(ms) == \A k \in 1 .. Len(ms) : ms[k].role = "tool" => ms[k].real = TRUE

\* The pass finds that reply in the block of its call.
LEMMA OwedKept ==
  ASSUME NEW ms \in Seq(AnyMessage), Genuine(ms),
         NEW i \in 1 .. Len(ms), NEW k \in 1 .. Len(ms), Owed(ms, i, k)
  PROVE  \E r \in 1 .. Len(Repair(ms)) : Repair(ms)[r] = ms[k]
<1> DEFINE N == Len(ms)
           e == BlockEnd(ms, i)
           id == ms[k].id
<1>1. N \in Nat /\ ms[i] \in AnyMessage /\ ms[k] \in AnyMessage /\ i < k
  BY DEF Owed
<1>2. ms[i].role = "calls" /\ ms[k].role = "tool" /\ id \in CallIds /\ ms[k] = Reply(id, TRUE)
  <2>1. MessageIs(ms[k])
    BY <1>1, MessageKinds
  <2>2. ms[i].role = "calls" /\ ms[k].role = "tool" /\ ms[k].real = TRUE
    BY DEF Owed, Genuine
  <2>3. Text.role = "text" /\ Empty.role = "empty"
    BY KindsDiffer
  <2> QED BY <2>1, <2>2, <2>3 DEF MessageIs
<1> HIDE DEF id
<1>3. k <= e
  <2>1. EndsAt(ms, i, e)
    BY BlockEnds
  <2> HIDE DEF e
  <2>2. SUFFICES ASSUME e < k PROVE FALSE
    BY <1>1, <2>1 DEF EndsAt
  <2>3. e + 1 \in i + 1 .. k /\ e < Len(ms)
    BY <1>1, <2>1, <2>2 DEF EndsAt
  <2>4. ~Passes(ms[e + 1])
    BY <2>1, <2>3 DEF EndsAt
  <2>5. e + 1 = k \/ e + 1 \in i + 1 .. k - 1
    BY <1>1, <2>3
  <2> QED BY <1>2, <2>4, <2>5 DEF Owed, Passes
<1>4. RepliesTo(ms, i, k, id)
  <2>1. e \in Int
    BY BlockEnds DEF EndsAt
  <2> QED BY <1>1, <1>2, <1>3, <2>1 DEF RepliesTo, id
<1>5. ReplyFor(ms, i, id) = ms[k]
  <2>1. PICK c : RepliesTo(ms, i, c, id) /\ ReplyFor(ms, i, id) = ms[c]
    <3>1. \E c : RepliesTo(ms, i, c, id)
      BY <1>4
    <3> QED BY <1>2, <3>1, ReplyIs
  <2>2. c \in 1 .. Len(ms) /\ ms[c].role = "tool" /\ ms[c].id = id
    BY <2>1, BlockEnds DEF RepliesTo, EndsAt
  <2>3. ms[c].real = TRUE /\ MessageIs(ms[c])
    BY <2>2, MessageKinds DEF Genuine
  <2>4. Text.role = "text" /\ Empty.role = "empty"
    BY KindsDiffer
  <2>5. ms[c] = Reply(id, TRUE)
    BY <2>2, <2>3, <2>4 DEF MessageIs
  <2> QED BY <1>2, <2>1, <2>5
<1>6. PICK f : Passed(f, ms)
  BY RepairPasses
<1> DEFINE Holds(t) == \E r \in 1 .. Len(t) : t[r] = ms[k]
           X == {j \in 1 .. N + 1 : j <= i => Holds(f[j])}
<1>7. \A j \in 1 .. N + 1 : f[j] \in Seq(AnyMessage)
  BY <1>6, PassedFirm DEF Firm
<1>8. ASSUME NEW a \in Seq(AnyMessage), NEW b \in Seq(AnyMessage), Holds(a) \/ Holds(b)
      PROVE  Holds(a \o b)
  <2> DEFINE t == a \o b
  <2>1. /\ Len(t) = Len(a) + Len(b) /\ Len(a) \in Nat /\ Len(b) \in Nat
        /\ \A x \in 1 .. Len(a) : t[x] = a[x]
        /\ \A x \in 1 .. Len(b) : t[Len(a) + x] = b[x]
    BY JoinedAt
  <2> HIDE DEF t
  <2>2. CASE Holds(a)
    <3>1. \A x \in 1 .. Len(a) : x \in 1 .. Len(t)
      BY <2>1
    <3> QED BY <2>1, <2>2, <3>1 DEF t
  <2>3. CASE Holds(b)
    <3>1. \A x \in 1 .. Len(b) : Len(a) + x \in 1 .. Len(t)
      BY <2>1
    <3> QED BY <2>1, <2>3, <3>1 DEF t
  <2> QED BY <1>8, <2>2, <2>3
<1>9. Holds(Answered(ms, i)) /\ Answered(ms, i) \in Seq(AnyMessage)
  <2> DEFINE t == Answered(ms, i)
             ids == ms[i].ids
  <2>1. CallTurn(t) /\ \A n \in 1 .. Len(ids) : \E x \in 1 .. Len(t) : t[x] = ReplyFor(ms, i, ids[n])
    BY <1>2, AnsweredIs
  <2>2. DOMAIN ids = 1 .. Len(ids)
    BY <1>1, <1>2, AsksSome
  <2>3. \E n \in 1 .. Len(ids) : ids[n] = id
    BY <2>2 DEF Owed, id
  <2> HIDE DEF t, ids
  <2>4. Holds(t)
    BY <1>5, <2>1, <2>3
  <2> QED BY <2>1, <2>4 DEF CallTurn, Firm, t
<1> HIDE DEF Holds
<1>10. N + 1 \in X
  BY <1>1
<1>11. ASSUME NEW j \in 1 .. N, \A x \in j + 1 .. N + 1 : x \in X PROVE j \in X
  <2>1. j \in 1 .. N + 1
    BY <1>1
  <2>2. SUFFICES ASSUME j <= i PROVE Holds(f[j])
    BY <2>1
  <2>3. CASE /\ ms[j].role = "calls" /\ f[j] = Answered(ms, j) \o f[BlockEnd(ms, j) + 1]
             /\ EndsAt(ms, j, BlockEnd(ms, j)) /\ BlockEnd(ms, j) + 1 \in j + 1 .. N + 1
    <3> DEFINE a == Answered(ms, j)
               y == BlockEnd(ms, j) + 1
    <3>1. a \in Seq(AnyMessage)
      BY <2>3, AnsweredIs DEF CallTurn, Firm
    <3>2. y \in 1 .. N + 1 /\ f[y] \in Seq(AnyMessage) /\ f[j] = a \o f[y] /\ y \in j + 1 .. N + 1
      BY <1>1, <1>7, <2>3
    <3>3. CASE j = i
      BY <1>8, <1>9, <3>1, <3>2, <3>3
    <3>4. CASE j # i
      <4>1. y <= i
        <5>1. SUFFICES ASSUME i \in j + 1 .. BlockEnd(ms, j) PROVE FALSE
          BY <1>1, <2>2, <2>3, <3>4 DEF EndsAt
        <5> QED BY <1>2, <2>3, <5>1 DEF EndsAt, Passes
      <4>2. Holds(f[y])
        BY <1>11, <3>2, <4>1
      <4> HIDE DEF a, y
      <4> QED BY <1>8, <3>1, <3>2, <4>2
    <3> QED BY <3>3, <3>4
  <2>4. ASSUME j + 1 \in j + 1 .. N + 1, ms[j].role # "calls" PROVE Holds(f[j + 1]) /\ f[j + 1] \in Seq(AnyMessage)
    <3>1. j + 1 <= i
      BY <1>1, <1>2, <2>2, <2>4
    <3> QED BY <1>7, <1>11, <2>4, <3>1
  <2>5. CASE ms[j].role = "tool" /\ f[j] = f[j + 1] /\ j + 1 \in j + 1 .. N + 1
    BY <2>4, <2>5
  <2>6. CASE /\ ms[j].role \notin {"calls", "tool"} /\ f[j] = << ms[j] >> \o f[j + 1]
             /\ j + 1 \in j + 1 .. N + 1
    <3>1. << ms[j] >> \in Seq(AnyMessage)
      BY <1>1
    <3> QED BY <1>8, <2>4, <2>6, <3>1
  <2> QED BY <1>6, <2>3, <2>5, <2>6, StepWays
<1> HIDE DEF X
<1>12. \A j \in 1 .. N + 1 : j \in X
  BY <1>1, <1>10, <1>11, FromBehind
<1>13. Holds(f[1])
  <2>1. 1 \in X /\ 1 <= i
    BY <1>1, <1>12
  <2> QED BY <2>1 DEF X
<1> QED BY <1>6, <1>13 DEF Holds, Passed

-----------------------------------------------------------------------------
(* The repair is sound.                                                    *)

\* The messages are as they came in, or have been repaired.
RepairInv == msgs \in Seq(AnyMessage) /\ (Genuine(msgs) \/ Firm(msgs))

\* What comes in: real replies only.
LEMMA GenuineFirst ==
  ASSUME RepairInit
  PROVE  msgs \in Seq(AnyMessage) /\ Genuine(msgs)
<1> DEFINE In == {m \in Messages : m.role = "calls" => IsInjective(m.ids)}
<1>1. PICK n \in 0 .. MaxLen : msgs \in [1 .. n -> In]
  BY Zenon DEF RepairInit
<1>2. \A m \in In : m \in AnyMessage /\ (m.role = "tool" => m.real = TRUE)
  <2> SUFFICES ASSUME NEW m \in In PROVE m \in AnyMessage /\ (m.role = "tool" => m.real = TRUE)
    BY Zenon
  <2>1. CASE m \in {Text, Empty}
    BY <2>1, KindsDiffer
  <2>2. CASE \E id \in CallIds : m = Reply(id, TRUE)
    BY <2>2, KindsDiffer
  <2>3. ASSUME NEW q \in Seq(CallIds), q # <<>>, m = Asks(q) PROVE m \in AnyMessage /\ m.role # "tool"
    <3>1. m.role = "calls" /\ m.ids = q
      BY <2>3 DEF Asks
    <3>2. q \in AskLists
      BY <2>3, <3>1 DEF AskLists
    <3> QED BY <2>3, <3>1, <3>2, KindsDiffer
  <2>4. CASE \E id \in CallIds : m = Asks(<< id >>)
    <3>1. PICK id \in CallIds : m = Asks(<< id >>)
      BY <2>4
    <3>2. << id >> \in Seq(CallIds) /\ << id >> # <<>>
      OBVIOUS
    <3> QED BY <2>3, <3>1, <3>2
  <2>5. CASE \E x, y \in CallIds : m = Asks(<< x, y >>)
    <3>1. PICK x, y \in CallIds : m = Asks(<< x, y >>)
      BY <2>5
    <3>2. << x, y >> \in Seq(CallIds) /\ << x, y >> # <<>>
      OBVIOUS
    <3> QED BY <2>3, <3>1, <3>2
  <2>6. \/ m \in {Text, Empty}
        \/ \E id \in CallIds : m = Reply(id, TRUE)
        \/ \E id \in CallIds : m = Asks(<< id >>)
        \/ \E x, y \in CallIds : m = Asks(<< x, y >>)
    <3>1. m \in Messages
      OBVIOUS
    <3> HIDE DEF In
    <3> DEFINE A == {Asks(<< id >>) : id \in CallIds}
               B == {Reply(id, TRUE) : id \in CallIds}
               C == {Asks(pair) : pair \in CallIds \X CallIds}
    <3>2. m \in {Text, Empty} \/ m \in A \/ m \in B \/ m \in C
      <4>1. Messages = {Text, Empty} \cup A \cup B \cup C
        BY Zenon DEF Messages
      <4> HIDE DEF A, B, C
      <4> QED BY <3>1, <4>1
    <3>3. m \in C => \E x, y \in CallIds : m = Asks(<< x, y >>)
      <4> SUFFICES ASSUME NEW pair \in CallIds \X CallIds, m = Asks(pair)
                   PROVE  \E x, y \in CallIds : m = Asks(<< x, y >>)
        OBVIOUS
      <4>1. pair = << pair[1], pair[2] >> /\ pair[1] \in CallIds /\ pair[2] \in CallIds
        OBVIOUS
      <4> QED BY <4>1, Zenon
    <3>4. m \in A => \E id \in CallIds : m = Asks(<< id >>)
      OBVIOUS
    <3>5. m \in B => \E id \in CallIds : m = Reply(id, TRUE)
      OBVIOUS
    <3> HIDE DEF A, B, C
    <3> QED BY <3>2, <3>3, <3>4, <3>5, Zenon
  <2> QED BY <2>1, <2>2, <2>4, <2>5, <2>6, Zenon
<1> HIDE DEF In
<1>3. n \in Nat /\ \A k \in 1 .. n : msgs[k] \in AnyMessage /\ (msgs[k].role = "tool" => msgs[k].real = TRUE)
  BY <1>1, <1>2, RepairAssumption
<1>4. msgs \in Seq(AnyMessage) /\ Len(msgs) = n
  <2>1. msgs = [k \in 1 .. n |-> msgs[k]]
    BY <1>1
  <2> QED BY <1>3, <2>1
<1> QED BY <1>3, <1>4 DEF Genuine

\* One pass.
RepairOnce ==
    /\ Accepted(msgs') /\ Repair(msgs') = msgs'
    /\ Cardinality(TextsIn(msgs')) = Cardinality(TextsIn(msgs))
    /\ \A i, k \in DOMAIN msgs :
         /\ i < k /\ msgs[i].role = "calls" /\ msgs[k].role = "tool"
         /\ \E n \in DOMAIN msgs[i].ids : msgs[i].ids[n] = msgs[k].id
         /\ \A b \in (i + 1)..(k - 1) : msgs[b].role \in {"tool", "empty"}
         => \E r \in DOMAIN msgs' : msgs'[r] = msgs[k]

\* It keeps the invariant and what the repair promises.
LEMMA RepairStep ==
  ASSUME RepairInv, RepairMessages
  PROVE  RepairInv' /\ RepairOnce
<1> DEFINE old == msgs
           new == Repair(msgs)
<1>1. msgs' = new /\ splits' = splits
  BY DEF RepairMessages
<1>2. msgs \in Seq(AnyMessage)
  BY DEF RepairInv
<1>3. Firm(new) /\ Repair(new) = new /\ Cardinality(TextsIn(new)) = Cardinality(TextsIn(msgs))
  <2>1. Firm(new)
    BY <1>2, RepairFirm
  <2> HIDE DEF new
  <2>2. Repair(new) = new
    BY <2>1, PassSame
  <2>3. Cardinality(TextsIn(new)) = Cardinality(TextsIn(msgs))
    BY <1>2, RepairTexts DEF new
  <2> QED BY <2>1, <2>2, <2>3
<1>4. \A i, k \in 1 .. Len(msgs) : Owed(msgs, i, k) => \E r \in 1 .. Len(new) : new[r] = msgs[k]
  <2> SUFFICES ASSUME NEW i \in 1 .. Len(msgs), NEW k \in 1 .. Len(msgs), Owed(msgs, i, k)
               PROVE  \E r \in 1 .. Len(new) : new[r] = msgs[k]
    BY Zenon
  <2>1. CASE Genuine(msgs)
    BY <1>2, <2>1, OwedKept
  <2>2. CASE Firm(msgs)
    <3>1. new = msgs
      BY <2>2, PassSame
    <3> QED BY <3>1
  <2> QED BY <2>1, <2>2 DEF RepairInv
<1> HIDE DEF new
<1>5. new \in Seq(AnyMessage) /\ Accepted(new)
  BY <1>3 DEF Firm
<1>6. DOMAIN msgs = 1 .. Len(msgs) /\ DOMAIN new = 1 .. Len(new)
  BY <1>2, <1>5
<1>7. Firm(msgs)' /\ Accepted(msgs)' /\ Repair(msgs)' = msgs'
  <2>1. Firm(msgs)'
    BY <1>1, <1>3 DEF Firm, Accepted
  <2>2. Repair(msgs)' = Repair(new)
    BY <1>1 DEF Repair, Answered, ReplyFor, BlockEnd, Passes
  <2> QED BY <1>1, <1>3, <2>1, <2>2 DEF Firm
<1> QED BY <1>1, <1>3, <1>4, <1>5, <1>6, <1>7, Zenon DEF RepairInv, RepairOnce, Owed

\* Whatever history reaches the last pass before a request, what it makes is
\* accepted, a second pass leaves it alone, and no text and no reply that stands
\* behind its call is lost (agent.py: _repair_tool_messages).
THEOREM RepairAlwaysSound == RepairSpec => RepairSound
<1>1. RepairInit => RepairInv
  BY GenuineFirst DEF RepairInv
<1>2. RepairInv /\ [RepairNext]_repairVars => RepairInv'
  <2>1. CASE RepairMessages
    BY <2>1, RepairStep
  <2>2. CASE UNCHANGED repairVars
    BY <2>2 DEF RepairInv, Genuine, Firm, Accepted, repairVars
  <2> QED BY <2>1, <2>2 DEF RepairNext
<1>3. RepairInv /\ [RepairNext]_repairVars => [RepairOnce]_repairVars
  BY RepairStep DEF RepairNext
<1> QED BY <1>1, <1>2, <1>3, PTL DEF RepairSpec, RepairSound, RepairOnce

=============================================================================
