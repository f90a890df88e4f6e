------------------------------ MODULE MCNotes ------------------------------
(* The notes' background loops for TLC: the distillation of documents and   *)
(* the reconciler.  They share no state, so each behaviour is one of them   *)
(* at work with the other at rest.                                          *)
EXTENDS NotesDistill, NotesSync

VARIABLE part   \* the loop at work

mcVars == <<part, distillVars, syncVars>>

MCInit ==
    /\ part \in {"distill", "sync"}
    /\ DistillInit /\ SyncInit
    /\ part # "distill" => disk = [f \in Files |-> 0]

Distill(A) == part = "distill" /\ A /\ UNCHANGED <<part, syncVars>>
Sync(A)    == part = "sync" /\ A /\ UNCHANGED <<part, distillVars>>

MCNext == Distill(DistillNext) \/ Sync(SyncNext)

\* DistillFairness and SyncFairness, each of its own part.
MCSpec ==
    /\ MCInit /\ [][MCNext]_mcVars
    /\ WF_mcVars(Distill(DistillWorks) \/ Sync(Sweeping))
    /\ WF_mcVars(Distill(Scanning))
    /\ \A w \in Writers : SF_mcVars(Sync(CallEnds(w)))
=============================================================================
