----------------------------- MODULE WorkThread -----------------------------
(***************************************************************************)
(* hnbase/workthread.{h,cpp} and the job side of it, hncore/hasher.{h,cpp}:*)
(* one worker thread that takes ThreadWork objects from a queue filled by  *)
(* the main thread, sleeping on a condition variable when it has none or   *)
(* when it is paused.  IOThread (hncore) and ResolverThread (hnbase) are   *)
(* instances of this class.                                                *)
(*                                                                         *)
(* The two threads interleave at the granularity of the mutexes: a step of *)
(* either thread is one critical section.  The condition variable is the   *)
(* set of positions at which the worker sleeps ("sleep" without a job,     *)
(* "pausedSleep" with one); notify_all moves the worker out of it.         *)
(***************************************************************************)
EXTENDS Naturals, Sequences

CONSTANTS Jobs,        \* ThreadWork objects the main thread may post
          NoJob,       \* a null ThreadWorkPtr
          MaxPasses,   \* bound: calls of process() before a job must finish
          MaxPausers   \* bound: nested Pauser objects

ASSUME WorkThreadAssumption ==
    /\ NoJob \notin Jobs
    /\ MaxPasses \in Nat \ {0}
    /\ MaxPausers \in Nat

VARIABLES
    queue,        \* m_queue
    exiting,      \* m_exiting
    running,      \* m_running
    pauserCount,  \* m_pauserCount
    valid,        \* [Jobs -> BOOLEAN], ThreadWork::m_valid
    hashValid,    \* [Jobs -> BOOLEAN], HashWork::m_valid
    complete,     \* [Jobs -> BOOLEAN], ThreadWork::m_complete
    pc,           \* where the worker thread is in threadLoop()
    wrk,          \* threadLoop()'s local variable
    mainPc,       \* where the main thread is in a call that takes two steps
    \* What an observer of the program sees.
    posted,       \* jobs given to postWork()
    passes,       \* [Jobs -> Nat], calls of process() begun
    results,      \* jobs whose result event was posted, in order
    dropped,      \* jobs that left the thread by an exception of process()
    limit,        \* [Jobs -> Nat], of a cancelled job: the passes it may have at most
    slack         \* passes begun since the current outermost Pauser was built

mutable == <<queue, exiting, running, pauserCount, valid, hashValid, complete>>
vars == <<queue, exiting, running, pauserCount, valid, hashValid, complete, pc,
          wrk, mainPc, posted, passes, results, dropped, limit, slack>>

WorkerPcs == {"check", "fetch", "sleep", "test", "askRunning", "process",
              "answered", "pauseLock", "pausedSleep", "exited"}
MainPcs   == {"run", "resuming", "joining", "joined"}

TypeOK ==
    /\ queue \in Seq(Jobs)
    /\ exiting \in BOOLEAN /\ running \in BOOLEAN
    /\ pauserCount \in 0..MaxPausers
    /\ valid \in [Jobs -> BOOLEAN]
    /\ hashValid \in [Jobs -> BOOLEAN]
    /\ complete \in [Jobs -> BOOLEAN]
    /\ pc \in WorkerPcs
    /\ wrk \in Jobs \cup {NoJob}
    /\ mainPc \in MainPcs
    /\ posted \in SUBSET Jobs
    /\ passes \in [Jobs -> 0..MaxPasses]
    /\ results \in Seq(Jobs)
    /\ dropped \in SUBSET Jobs
    /\ limit \in [Jobs -> Nat]
    /\ slack \in Nat

\* The worker thread is started before m_running and m_pauserCount have their
\* values, but it reads m_running only with a job in hand, and no job can be
\* posted before the constructor returned: the race is over before it matters.
Init ==
    /\ queue = <<>> /\ exiting = FALSE /\ running = TRUE /\ pauserCount = 0
    /\ valid = [j \in Jobs |-> TRUE]
    /\ hashValid = [j \in Jobs |-> TRUE]
    /\ complete = [j \in Jobs |-> FALSE]
    /\ pc = "check" /\ wrk = NoJob /\ mainPc = "run"
    /\ posted = {} /\ passes = [j \in Jobs |-> 0] /\ results = <<>>
    /\ dropped = {} /\ limit = [j \in Jobs |-> 0] /\ slack = 0

-----------------------------------------------------------------------------
(* m_notify.notify_all(): the thread sleeping on the condition, if any, goes  *)
(* on after its wait().                                                       *)

\* Mutation: the caller forgets to notify.
NotifyNobody == pc

Notified == CASE pc = "sleep" -> "test"
              [] pc = "pausedSleep" -> "check"
              [] OTHER -> pc

(* The worker: WorkThread::threadLoop(). *)

CheckExit ==
    /\ pc = "check"
    /\ pc' = IF exiting THEN "exited" ELSE IF wrk = NoJob THEN "fetch" ELSE "test"
    /\ UNCHANGED <<mutable, wrk, mainPc, posted, passes, results, dropped, limit, slack>>

\* m_notifyLock is held from the look into the queue to the wait().
Fetch ==
    /\ pc = "fetch"
    /\ IF queue # <<>>
       THEN /\ wrk' = Head(queue)
            /\ queue' = Tail(queue)
            /\ pc' = "test"
       ELSE /\ pc' = "sleep"
            /\ UNCHANGED <<wrk, queue>>
    /\ UNCHANGED <<exiting, running, pauserCount, valid, hashValid, complete,
                   mainPc, posted, passes, results, dropped, limit, slack>>

\* Mutation: the worker does not ask whether the job is still wanted.
TestIgnoringCancel ==
    /\ pc = "test"
    /\ IF wrk # NoJob /\ ~complete[wrk]
       THEN /\ pc' = "askRunning"
            /\ UNCHANGED wrk
       ELSE /\ pc' = "check"
            /\ wrk' = NoJob
    /\ UNCHANGED <<mutable, mainPc, posted, passes, results, dropped, limit, slack>>

\* wrk && wrk->isValid() && !wrk->isComplete(); otherwise wrk is let go.
Test ==
    /\ pc = "test"
    /\ IF wrk # NoJob /\ valid[wrk] /\ ~complete[wrk]
       THEN /\ pc' = "askRunning"
            /\ UNCHANGED wrk
       ELSE /\ pc' = "check"
            /\ wrk' = NoJob
    /\ UNCHANGED <<mutable, mainPc, posted, passes, results, dropped, limit, slack>>

\* Mutation: a job in hand is run whether or not the thread is paused.
AskNothing ==
    /\ pc = "askRunning"
    /\ mainPc # "resuming"
    /\ pc' = "process"
    /\ UNCHANGED <<mutable, wrk, mainPc, posted, passes, results, dropped, limit, slack>>

\* isRunning() needs m_runningLock, which resume() holds throughout.
AskRunning ==
    /\ pc = "askRunning"
    /\ mainPc # "resuming"
    /\ pc' = IF running THEN "process" ELSE "pauseLock"
    /\ UNCHANGED <<mutable, wrk, mainPc, posted, passes, results, dropped, limit, slack>>

\* The pause branch takes m_notifyLock only after isRunning() gave its lock up.
PauseWait ==
    /\ pc = "pauseLock"
    /\ pc' = "pausedSleep"
    /\ UNCHANGED <<mutable, wrk, mainPc, posted, passes, results, dropped, limit, slack>>

Pass(j) ==
    /\ pc = "process"
    /\ wrk = j
    /\ passes[j] < MaxPasses
    /\ passes' = [passes EXCEPT ![j] = @ + 1]
    /\ slack' = IF pauserCount > 0 THEN slack + 1 ELSE slack

\* process() read one buffer of its file and returned with more to do.
ProcessMore(j) ==
    /\ Pass(j)
    /\ passes[j] + 1 < MaxPasses
    /\ pc' = "check"
    /\ UNCHANGED <<mutable, wrk, mainPc, posted, results, dropped, limit>>

\* finish(), or the exception handler of HashWork::process(): the event is
\* posted first and the job marked complete afterwards.
ProcessAnswer(j) ==
    /\ Pass(j)
    /\ results' = Append(results, j)
    /\ pc' = "answered"
    /\ UNCHANGED <<mutable, wrk, mainPc, posted, dropped, limit>>

\* Mutation: the job that posted its event is not marked complete.
SetCompleteForgotten ==
    /\ pc = "answered"
    /\ pc' = "check"
    /\ UNCHANGED <<mutable, wrk, mainPc, posted, passes, results, dropped, limit, slack>>

SetComplete ==
    /\ pc = "answered"
    /\ complete' = [complete EXCEPT ![wrk] = TRUE]
    /\ pc' = "check"
    /\ UNCHANGED <<queue, exiting, running, pauserCount, valid, hashValid, wrk,
                   mainPc, posted, passes, results, dropped, limit, slack>>

\* An exception that leaves process(): the job is forgotten, without a result.
ProcessThrow(j) ==
    /\ Pass(j)
    /\ dropped' = dropped \cup {j}
    /\ wrk' = NoJob
    /\ pc' = "check"
    /\ UNCHANGED <<mutable, mainPc, posted, results, limit>>

Worker ==
    \/ CheckExit \/ Fetch \/ Test \/ AskRunning \/ PauseWait \/ SetComplete
    \/ \E j \in Jobs : ProcessMore(j) \/ ProcessAnswer(j) \/ ProcessThrow(j)

\* A condition wait may return although nobody notified it.
SpuriousWakeup ==
    /\ pc \in {"sleep", "pausedSleep"}
    /\ pc' = Notified
    /\ UNCHANGED <<mutable, wrk, mainPc, posted, passes, results, dropped, limit, slack>>

-----------------------------------------------------------------------------
(* The main thread. *)

PostWork(j) ==
    /\ mainPc = "run"
    /\ j \notin posted
    /\ posted' = posted \cup {j}
    /\ queue' = Append(queue, j)
    /\ pc' = Notified
    /\ UNCHANGED <<exiting, running, pauserCount, valid, hashValid, complete, wrk,
                   mainPc, passes, results, dropped, limit, slack>>

\* The worker found j wanted, and will not ask again before it calls process().
DecidedOn(j) == wrk = j /\ pc \in {"askRunning", "process"}

\* ThreadWork::cancel()
Cancel(j) ==
    /\ mainPc = "run"
    /\ j \in posted
    /\ valid' = [valid EXCEPT ![j] = FALSE]
    /\ limit' = IF ~valid[j] THEN limit
                ELSE [limit EXCEPT ![j] = passes[j] + IF DecidedOn(j) THEN 1 ELSE 0]
    /\ UNCHANGED <<queue, exiting, running, pauserCount, hashValid, complete, pc,
                   wrk, mainPc, posted, passes, results, dropped, slack>>

\* HashWork::invalidate(): it writes HashWork's own m_valid, which only
\* HashWork::isValid() reads; the worker calls the base class' isValid().
Invalidate(j) ==
    /\ mainPc = "run"
    /\ j \in posted
    /\ hashValid' = [hashValid EXCEPT ![j] = FALSE]
    /\ UNCHANGED <<queue, exiting, running, pauserCount, valid, complete, pc, wrk,
                   mainPc, posted, passes, results, dropped, limit, slack>>

\* Pauser::Pauser(): the first one pauses the thread.
PauserBegin ==
    /\ mainPc = "run"
    /\ pauserCount < MaxPausers
    /\ pauserCount' = pauserCount + 1
    /\ running' = IF pauserCount = 0 THEN FALSE ELSE running
    /\ slack' = IF pauserCount = 0 THEN 0 ELSE slack
    /\ UNCHANGED <<queue, exiting, valid, hashValid, complete, pc, wrk, mainPc,
                   posted, passes, results, dropped, limit>>

\* Pauser::~Pauser(): the last one calls resume(), which sets m_running and then,
\* still holding m_runningLock, takes m_notifyLock to notify.
PauserEnd ==
    /\ mainPc = "run"
    /\ pauserCount > 0
    /\ pauserCount' = pauserCount - 1
    /\ IF pauserCount = 1
       THEN running' = TRUE /\ mainPc' = "resuming"
       ELSE UNCHANGED <<running, mainPc>>
    /\ UNCHANGED <<queue, exiting, valid, hashValid, complete, pc, wrk, posted,
                   passes, results, dropped, limit, slack>>

ResumeNotify ==
    /\ mainPc = "resuming"
    /\ mainPc' = "run"
    /\ pc' = Notified
    /\ UNCHANGED <<mutable, wrk, posted, passes, results, dropped, limit, slack>>

\* WorkThread::~WorkThread(): exit() and then join().
Exit ==
    /\ mainPc = "run"
    /\ exiting' = TRUE
    /\ pc' = Notified
    /\ mainPc' = "joining"
    /\ UNCHANGED <<queue, running, pauserCount, valid, hashValid, complete, wrk,
                   posted, passes, results, dropped, limit, slack>>

Join ==
    /\ mainPc = "joining"
    /\ pc = "exited"
    /\ mainPc' = "joined"
    /\ UNCHANGED <<mutable, pc, wrk, posted, passes, results, dropped, limit, slack>>

Main ==
    \/ \E j \in Jobs : PostWork(j) \/ Cancel(j) \/ Invalidate(j)
    \/ PauserBegin \/ PauserEnd \/ ResumeNotify \/ Exit \/ Join

Next == Worker \/ SpuriousWakeup \/ Main

Spec == Init /\ [][Next]_vars

\* The operating system schedules the worker, and the main thread does not stop
\* in the middle of resume() or of a join that can return.  Nothing obliges the
\* main thread to make another call, and no wake-up is owed without a notify.
FairSpec == Spec /\ WF_vars(Worker) /\ WF_vars(ResumeNotify) /\ WF_vars(Join)
-----------------------------------------------------------------------------
(* Properties *)

\* The worker never sleeps on work: if it is asleep for want of a job the queue
\* is empty.  It needs postWork() and the look into the queue to share
\* m_notifyLock; with a gap between them a job posted in it would wait for the
\* next one.
NoJobLeftBehind == pc = "sleep" => queue = <<>>

\* "Only one work is being processed at any time": a job on which process() was
\* called and which is not over is the job the thread holds - also when it was
\* put aside by a pause half way through.
OneAtATime ==
    \A j \in Jobs : /\ passes[j] > 0
                    /\ valid[j] /\ ~complete[j] /\ j \notin dropped
                    => wrk = j

\* Cancelling takes effect before the next pass, wherever it finds the job: one
\* that waits in the queue is never started, one that lies with the thread between
\* two passes or is put aside by a pause does not go on, also when the pause ends,
\* and one found wanted just before the cancel makes that one pass, and may answer
\* in it, and no other.
CancelHolds == \A j \in Jobs : ~valid[j] => passes[j] <= limit[j]

\* Pausing takes effect after the pass in progress, whatever the number of
\* nested Pausers: at most one more call of process() is made while paused.
PauserHolds == pauserCount > 0 => slack <= 1

\* The nesting of Pausers is kept: between calls of the main thread the worker
\* is allowed to run exactly when no Pauser exists.
PauserNesting == running <=> pauserCount = 0

Settled(j) == complete[j] \/ j \in dropped \/ ~valid[j]

\* As long as nobody pauses the worker every posted job is brought to an end,
\* unless the thread is destroyed.  (With Pausers see ResumeRestarts.)
JobsServed ==
    [](pauserCount = 0) => \A j \in Jobs : (j \in posted) ~> (Settled(j) \/ exiting)

\* workthread.h says of exit() that it "signals work thread to exit ASAP", and of
\* the destructor that "Current job is aborted, and the thread is joined": the
\* call returns.
ExitJoins == (mainPc = "joining") ~> (mainPc = "joined")

\* workthread.h says of resume(): "Resume the thread execution".  A job that was
\* stopped by a pause goes on once no Pauser is left.  This is false: resume()
\* may notify between isRunning() and the wait.
ResumeRestarts ==
    \A j \in Jobs : (wrk = j /\ pauserCount = 0)
                        ~> (Settled(j) \/ pauserCount > 0 \/ exiting)

\* hasher.h says of HashWork::invalidate(): "If the work is in progress already,
\* it will also be aborted, and no results posted."  This is false: the worker
\* asks ThreadWork::isValid(), whose flag invalidate() does not write.
InvalidatedIsSilent ==
    [][\A j \in Jobs : ~hashValid[j] =>
          ((\E i \in DOMAIN results' : results'[i] = j)
              => (\E i \in DOMAIN results : results[i] = j))]_vars

\* What is visible of the thread from outside: see JobQueue.
Promise == INSTANCE JobQueue WITH
    waiting  <- queue,
    active   <- wrk,
    worked   <- {j \in Jobs : passes[j] > 0},
    answers  <- results

ImplementsJobQueue == Promise!Spec
=============================================================================
