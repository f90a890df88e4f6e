-------------------------- MODULE MCTaskScheduler --------------------------
(* Small instances of TaskScheduler for TLC. *)
EXTENDS TaskScheduler

Base == [enabled |-> TRUE, trig |-> "interval", cronOk |-> TRUE, secs |-> Period,
         overlap |-> "skip", catchup |-> "skip"]

\* An interval task and a cron task, under both values of each policy; the
\* third is how the agent's own tool creates one, disabled.
MCConfigs == {[Base EXCEPT !.overlap = "queue", !.catchup = "run_once"],
              [Base EXCEPT !.trig = "cron", !.catchup = "run_once"],
              [Base EXCEPT !.enabled = FALSE]}

\* An edit that empties the interval, and one that makes it the schedule,
\* switches the task on and stops it overlapping.
MCPatches == {[secs |-> 0],
              [trig |-> "interval", enabled |-> TRUE, overlap |-> "skip"]}
=============================================================================
