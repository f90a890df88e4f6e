---------------------------- MODULE RunLifecycle ----------------------------
(***************************************************************************)
(* What a task_runs row promises its reader (agent/tasks/store.py), free   *)
(* of who does it: a row is queued, claimed oldest first by at most one    *)
(* worker, and finished once.  A restart finishes whatever was active; a   *)
(* deleted row never returns.                                              *)
(***************************************************************************)
EXTENDS Naturals

CONSTANT Rows           \* row ids, in insertion order

VARIABLE stage          \* [Rows -> {"none","queued","running","done","gone"}]

ActiveStages == {"queued", "running"}

Init == stage = [r \in Rows |-> "none"]

\* create_run / create_continue_run: a fresh row, after every earlier one.
Enqueue(r) ==
    /\ stage[r] = "none" /\ \A q \in Rows : q < r => stage[q] # "none"
    /\ stage' = [stage EXCEPT ![r] = "queued"]

\* claim_run: the oldest queued row.
Start(r) ==
    /\ stage[r] = "queued" /\ \A q \in Rows : stage[q] = "queued" => r <= q
    /\ stage' = [stage EXCEPT ![r] = "running"]

\* finish_run, on a run that ran or on one that was skipped.
Finish(r) ==
    /\ stage[r] \in ActiveStages
    /\ stage' = [stage EXCEPT ![r] = "done"]

\* claim_run followed at once by finish_run: the task or its model is gone.
StartAndFail(r) ==
    /\ stage[r] = "queued" /\ \A q \in Rows : stage[q] = "queued" => r <= q
    /\ stage' = [stage EXCEPT ![r] = "done"]

\* requeue_orphaned_runs at start-up.
Interrupt ==
    stage' = [r \in Rows |-> IF stage[r] \in ActiveStages THEN "done" ELSE stage[r]]

\* prune_runs, purge_runs, reclaim_orphaned_runs.
Drop(D) ==
    /\ \A r \in D : stage[r] # "none"
    /\ stage' = [r \in Rows |-> IF r \in D THEN "gone" ELSE stage[r]]

Next == \/ \E r \in Rows : Enqueue(r) \/ Start(r) \/ Finish(r) \/ StartAndFail(r)
        \/ Interrupt
        \/ \E D \in SUBSET Rows : Drop(D)

Spec == Init /\ [][Next]_stage
=============================================================================
