------------------------------ MODULE JobQueue ------------------------------
(***************************************************************************)
(* What WorkThread promises the rest of hydranode (hnbase/workthread.h,    *)
(* class comment of ThreadWork): jobs are taken in the order they were     *)
(* posted, only one is processed at any time, and a job yields at most one *)
(* result.  A job may also be let go without one: it was cancelled, or its *)
(* process() failed.                                                       *)
(*                                                                         *)
(* WorkThread implements this module (MCWorkThread checks the refinement), *)
(* and PartData relies on no more of the I/O thread than what is said here.*)
(***************************************************************************)
EXTENDS Sequences, FiniteSets

CONSTANTS Jobs,     \* the ThreadWork objects
          NoJob     \* "the thread holds no job"

VARIABLES waiting,   \* jobs posted and not yet taken, oldest first
          active,    \* the job the thread holds, or NoJob
          worked,    \* jobs on which at least one pass of work was done
          answers,   \* jobs that posted their result, in that order
          posted     \* jobs ever posted

jobVars == <<waiting, active, worked, answers, posted>>

Init ==
    /\ waiting = <<>> /\ active = NoJob
    /\ worked = {} /\ answers = <<>> /\ posted = {}

Post(j) ==
    /\ j \notin posted
    /\ posted' = posted \cup {j}
    /\ waiting' = Append(waiting, j)
    /\ UNCHANGED <<active, worked, answers>>

Take ==
    /\ active = NoJob
    /\ waiting # <<>>
    /\ active' = Head(waiting)
    /\ waiting' = Tail(waiting)
    /\ UNCHANGED <<worked, answers, posted>>

\* A pass of work; the last one posts the job's only result.
Work(result) ==
    /\ active # NoJob
    /\ \A i \in DOMAIN answers : answers[i] # active
    /\ worked' = worked \cup {active}
    /\ answers' = IF result THEN Append(answers, active) ELSE answers
    /\ UNCHANGED <<waiting, active, posted>>

\* The job is let go: finished, cancelled, or failing in its last pass.
Release(failed) ==
    /\ active # NoJob
    /\ active' = NoJob
    /\ worked' = IF failed THEN worked \cup {active} ELSE worked
    /\ UNCHANGED <<waiting, answers, posted>>

Next ==
    \/ \E j \in Jobs : Post(j)
    \/ Take
    \/ \E b \in BOOLEAN : Work(b) \/ Release(b)

Spec == Init /\ [][Next]_jobVars
=============================================================================
