----------------------------- MODULE MCLiveness -----------------------------
(* Liveness for TLC, under fairness of coroutines, workers and timers only: *)
(* the confirmation cards, and the jobs over the same sessions.  The two    *)
(* share no state, so each behaviour is one of them at work with the other  *)
(* at rest.                                                                 *)
EXTENDS Confirmations

CONSTANTS Texts, MaxAttempts, ChunkSize, Window, MaxSaid, MaxMems, MaxAsks, MaxToggles, MaxDeletes, MaxCrashes

VARIABLES part,   \* the one at work
    kind, said, deletion, row, work, enabled, offset, chunks, mems, asks, toggles, crashes, want, seen, dropped

Jobs == INSTANCE SessionJobs WITH Channel <- ChannelSessions

jobVars ==
    <<kind, said, deletion, row, work, enabled, offset, chunks, mems, asks, toggles, crashes, want, seen, dropped>>
mcVars == <<part, vars, jobVars>>

MCInit ==
    /\ part \in {"cards", "jobs"} /\ Init /\ Jobs!JobsInit
    /\ part # "jobs" => kind = "memory"

OnCards(A) == part = "cards" /\ A /\ UNCHANGED <<part, jobVars>>
OnJobs(A)  == part = "jobs" /\ A /\ UNCHANGED <<part, vars>>

MCNext == OnCards(Next) \/ OnJobs(Jobs!JobsNext)

\* Fairness and JobsFairness, each of its own part.
MCSpec ==
    /\ MCInit /\ [][MCNext]_mcVars
    /\ \A c \in Cards :
          /\ WF_mcVars(OnCards(Wake(c))) /\ WF_mcVars(OnCards(WakeCancelled(c)))
          /\ WF_mcVars(OnCards(EscalateStep(c))) /\ WF_mcVars(OnCards(CardTimeout(c)))
          /\ WF_mcVars(OnCards(WaitTimeout(c) /\ card[c].kind \in {"egress", "link"}))
    /\ \A s \in Sessions : WF_mcVars(OnCards(DriverStep(s)))
    /\ WF_mcVars(OnJobs(Jobs!JobClaims)) /\ WF_mcVars(OnJobs(Jobs!JobCalls)) /\ WF_mcVars(OnJobs(Jobs!IndexCommit))

\* Every job of a session ends, done or given up (Jobs!JobsSettle: process_pending_once,
\* _fail_job and _requeue_orphaned of the three workers).
JobsSettle == Jobs!JobsSettle
=============================================================================
