------------------------------ MODULE MasterRun -----------------------------
(***************************************************************************)
(* The threads of a regression (utils/regression/master_run.py): the main  *)
(* thread loads tasks into the process queue, the process thread starts a  *)
(* worker thread for each of them, at most ProcessMax at a time, workers   *)
(* run the task in a process of its own and put the result on the summary  *)
(* queue, and the summary thread commits results.                          *)
(*                                                                         *)
(* Tasks are numbered in the order in which the control files name them.   *)
(* A step is what a thread does between two accesses to what threads share.*)
(* The queue of HiThreadedProducerConsumerQueue is a list and a semaphore  *)
(* that counts its items; they are not changed together.                   *)
(***************************************************************************)
EXTENDS Integers, Sequences, FiniteSets

CONSTANTS
    NumTasks,     \* number of tasks (and faulty control items) in the control files
    ProcessMax,   \* --max, worker threads at a time
    MaxFails,     \* --max-fails, 0 for no limit
    Outcomes,     \* what can become of a task, a subset of AllOutcomes
    Modes         \* --mode: "regress", or "count", which only counts the tasks

(* pass, fail: results to commit; error: the worker raised; raise: the     *)
(* result cannot be committed.                                             *)
AllOutcomes == {"pass", "fail", "error", "raise"}

ASSUME ConstantsAssumption ==
    /\ NumTasks \in Nat /\ ProcessMax \in Nat \ {0} /\ MaxFails \in Nat
    /\ Outcomes \subseteq AllOutcomes /\ Outcomes # {}
    /\ Modes \subseteq {"regress", "count"}

Tasks == 1..NumTasks

VARIABLES
    mMode,          \* the mode of this regression
    mpc,            \* main thread
    next,           \* next task the main thread loads
    logged,         \* tasks whose error went to the log only
    fully_loaded,
    processQueue, processAval,   \* ProcessQueue: list and produceAval
    ppc, item,      \* process thread, and the task it took off the queue
    start_raised,   \* a Thread.start raised (history)
    semaphore,      \* workers that may still be started
    thread_count,   \* HiAtomicInteger: workers started and not yet done
    wpc,            \* worker of each task
    summaryQueue, summaryAval,   \* SummaryQueue: results [task, outcome]
    spc,            \* summary thread
    tasks, errors,  \* what was committed: tasks by outcome, and errors
    max_fails, terminated,
    mNumTestsCount,
    workers_done_event, summary_done_event

loadVars == <<mpc, next, logged, fully_loaded>>
processVars == <<ppc, item, start_raised, semaphore, workers_done_event, mNumTestsCount>>
summaryVars == <<spc, tasks, errors, max_fails, terminated, summary_done_event>>

vars == <<mMode, loadVars, processQueue, processAval, processVars, thread_count, wpc,
          summaryQueue, summaryAval, summaryVars>>

Init ==
    /\ mMode \in Modes
    /\ mpc = "load" /\ next = 1 /\ logged = {} /\ fully_loaded = FALSE
    /\ processQueue = <<>> /\ processAval = 0
    /\ ppc = "loop" /\ item = 0 /\ start_raised = FALSE /\ semaphore = ProcessMax /\ thread_count = 0
    /\ wpc = [t \in Tasks |-> "none"]
    /\ summaryQueue = <<>> /\ summaryAval = 0
    /\ spc = "dequeue" /\ tasks = {} /\ errors = {}
    /\ max_fails = MaxFails /\ terminated = FALSE
    /\ mNumTestsCount = 0
    /\ workers_done_event = FALSE /\ summary_done_event = FALSE

Result(t, outcome) == [task |-> t, outcome |-> outcome]

-----------------------------------------------------------------------------
(* The main thread: FileController and TaskController walk the control     *)
(* files; what they cannot load goes to the summary queue as an error.     *)

(* is_terminated is asked before each task.                                *)
LoadTask ==
    /\ mpc = "load" /\ ~terminated /\ next \in Tasks
    /\ processQueue' = Append(processQueue, next)
    /\ mpc' = "release"
    /\ UNCHANGED <<next, logged, fully_loaded, processAval, processVars, thread_count, wpc,
                   summaryQueue, summaryAval, summaryVars>>

ReleaseTask ==
    /\ mpc = "release"
    /\ processAval' = processAval + 1
    /\ next' = next + 1
    /\ mpc' = "load"
    /\ UNCHANGED <<logged, fully_loaded, processQueue, processVars, thread_count, wpc,
                   summaryQueue, summaryAval, summaryVars>>

LoadError ==
    /\ mpc = "load" /\ ~terminated /\ next \in Tasks
    /\ summaryQueue' = Append(summaryQueue, Result(next, "error"))
    /\ mpc' = "releaseError"
    /\ UNCHANGED <<next, logged, fully_loaded, processQueue, processAval, processVars,
                   thread_count, wpc, summaryAval, summaryVars>>

ReleaseError ==
    /\ mpc = "releaseError"
    /\ summaryAval' = summaryAval + 1
    /\ next' = next + 1
    /\ mpc' = "load"
    /\ UNCHANGED <<logged, fully_loaded, processQueue, processAval, processVars, thread_count,
                   wpc, summaryQueue, summaryVars>>

(* A TypeError or a missing file is put on the summary queue; what else is *)
(* raised is logged, and the item is passed over.                          *)
LogError ==
    /\ mpc = "load" /\ ~terminated /\ next \in Tasks
    /\ logged' = logged \cup {next}
    /\ next' = next + 1
    /\ UNCHANGED <<mpc, fully_loaded, processQueue, processAval, processVars,
                   thread_count, wpc, summaryQueue, summaryAval, summaryVars>>

FullyLoaded ==
    /\ mpc = "load" /\ (terminated \/ next \notin Tasks)
    /\ fully_loaded' = TRUE
    /\ mpc' = "waitWorkers"
    /\ UNCHANGED <<next, logged, processQueue, processAval, processVars, thread_count, wpc,
                   summaryQueue, summaryAval, summaryVars>>

MainWaits ==
    /\ \/ mpc = "waitWorkers" /\ workers_done_event /\ mpc' = "waitSummary"
       \/ mpc = "waitSummary" /\ summary_done_event /\ mpc' = "done"
    /\ UNCHANGED <<next, logged, fully_loaded, processQueue, processAval, processVars,
                   thread_count, wpc, summaryQueue, summaryAval, summaryVars>>

-----------------------------------------------------------------------------
(* ProcessThread.run *)

othersOfProcess == <<loadVars, summaryQueue, summaryAval, summaryVars>>

TestLoop_SizeFirst ==
    /\ \/ ppc = "loop" /\ ppc' = IF processQueue # <<>> THEN "terminated" ELSE "count"
       \/ ppc = "count" /\ ppc' = IF thread_count > 0 THEN "terminated" ELSE "size"
       \/ ppc = "size" /\ ppc' = IF fully_loaded THEN "drain" ELSE "terminated"
       \/ ppc = "terminated" /\ ppc' = IF terminated THEN "drain" ELSE "dequeue"
    /\ UNCHANGED <<othersOfProcess, start_raised, item, semaphore, workers_done_event, mNumTestsCount,
                   processQueue, processAval, thread_count, wpc>>

(* The loop's condition reads fully_loaded, thread_count and size() in     *)
(* this order, each on its own.                                            *)
TestLoop ==
    /\ \/ ppc = "loop" /\ ppc' = IF fully_loaded THEN "count" ELSE "terminated"
       \/ ppc = "count" /\ ppc' = IF thread_count > 0 THEN "terminated" ELSE "size"
       \/ ppc = "size" /\ ppc' = IF processQueue # <<>> THEN "terminated" ELSE "drain"
       \/ ppc = "terminated" /\ ppc' = IF terminated THEN "drain" ELSE "dequeue"
    /\ UNCHANGED <<othersOfProcess, start_raised, item, semaphore, workers_done_event, mNumTestsCount,
                   processQueue, processAval, thread_count, wpc>>

Dequeue_IgnoresTimeout ==
    /\ ppc = "dequeue"
    /\ processAval' = IF processAval > 0 THEN processAval - 1 ELSE 0
    /\ ppc' = "pop"
    /\ UNCHANGED <<othersOfProcess, start_raised, item, semaphore, workers_done_event, mNumTestsCount,
                   processQueue, thread_count, wpc>>

(* dequeue(1): the semaphore, or a TimeoutError.                           *)
Dequeue ==
    /\ ppc = "dequeue"
    /\ \/ processAval > 0 /\ processAval' = processAval - 1 /\ ppc' = "pop"
       \/ processAval = 0 /\ UNCHANGED processAval /\ ppc' = "loop"
    /\ UNCHANGED <<othersOfProcess, start_raised, item, semaphore, workers_done_event, mNumTestsCount,
                   processQueue, thread_count, wpc>>

PopTask ==
    /\ ppc = "pop"
    /\ processQueue # <<>>
    /\ item' = Head(processQueue)
    /\ processQueue' = Tail(processQueue)
    /\ ppc' = IF mMode = "count" THEN "loop" ELSE "acquire"
    /\ mNumTestsCount' = IF mMode = "count" THEN mNumTestsCount + 1 ELSE mNumTestsCount
    /\ UNCHANGED <<othersOfProcess, start_raised, semaphore, workers_done_event, processAval,
                   thread_count, wpc>>

(* ProcessWorkerThread(): acquire and count before the thread is started.  *)
AcquireWorker ==
    /\ ppc = "acquire"
    /\ semaphore > 0
    /\ semaphore' = semaphore - 1
    /\ thread_count' = thread_count + 1
    /\ ppc' = "start"
    /\ UNCHANGED <<othersOfProcess, start_raised, item, workers_done_event, mNumTestsCount,
                   processQueue, processAval, wpc>>

(* An exception of start() leaves run through its finally.                 *)
StartWorker ==
    /\ ppc = "start"
    /\ \/ ppc' = "loop" /\ wpc' = [wpc EXCEPT ![item] = "run"] /\ UNCHANGED start_raised
       \/ ppc' = "signal" /\ start_raised' = TRUE /\ UNCHANGED wpc
    /\ UNCHANGED <<othersOfProcess, item, semaphore, workers_done_event, mNumTestsCount,
                   processQueue, processAval, thread_count>>

(* "need to wait until all worker threads are done before continuing"      *)
Drain ==
    /\ ppc = "drain"
    /\ thread_count = 0
    /\ ppc' = "signal"
    /\ UNCHANGED <<othersOfProcess, start_raised, item, semaphore, workers_done_event, mNumTestsCount,
                   processQueue, processAval, thread_count, wpc>>

SignalWorkersDone ==
    /\ ppc = "signal"
    /\ workers_done_event' = TRUE
    /\ ppc' = "done"
    /\ UNCHANGED <<othersOfProcess, start_raised, item, semaphore, mNumTestsCount, processQueue,
                   processAval, thread_count, wpc>>

-----------------------------------------------------------------------------
(* ProcessWorkerThread.run *)

othersOfWorker == <<loadVars, processQueue, processAval, ppc, item, start_raised, workers_done_event,
                    mNumTestsCount, summaryVars>>

RunTask_ErrorNotReported(t) ==
    /\ wpc[t] = "run"
    /\ \E outcome \in Outcomes :
          summaryQueue' = IF outcome = "error" THEN summaryQueue
                          ELSE Append(summaryQueue, Result(t, outcome))
    /\ wpc' = [wpc EXCEPT ![t] = "release"]
    /\ UNCHANGED <<othersOfWorker, semaphore, thread_count, summaryAval>>

(* The task's process ends, or something raised; enqueue of the result.    *)
RunTask(t) ==
    /\ wpc[t] = "run"
    /\ \E outcome \in Outcomes :
          summaryQueue' = Append(summaryQueue, Result(t, outcome))
    /\ wpc' = [wpc EXCEPT ![t] = "release"]
    /\ UNCHANGED <<othersOfWorker, semaphore, thread_count, summaryAval>>

ReleaseResult(t) ==
    /\ wpc[t] = "release"
    /\ summaryAval' = summaryAval + 1
    /\ wpc' = [wpc EXCEPT ![t] = "count"]
    /\ UNCHANGED <<othersOfWorker, semaphore, thread_count, summaryQueue>>

DecrementCount_Forgotten(t) ==
    /\ wpc[t] = "count"
    /\ wpc' = [wpc EXCEPT ![t] = "done"]
    /\ UNCHANGED <<othersOfWorker, semaphore, thread_count, summaryQueue, summaryAval>>

DecrementCount(t) ==
    /\ wpc[t] = "count"
    /\ thread_count' = thread_count - 1
    /\ wpc' = [wpc EXCEPT ![t] = "done"]
    /\ UNCHANGED <<othersOfWorker, semaphore, summaryQueue, summaryAval>>

ReleaseWorker(t) ==
    /\ wpc[t] = "done"
    /\ semaphore' = semaphore + 1
    /\ wpc' = [wpc EXCEPT ![t] = "ended"]
    /\ UNCHANGED <<othersOfWorker, thread_count, summaryQueue, summaryAval>>

-----------------------------------------------------------------------------
(* SummaryThread.run *)

othersOfSummary == <<loadVars, processQueue, processAval, processVars, thread_count, wpc>>

(* dequeue(0) raises a TimeoutError at once when nothing is there.         *)
SummaryDequeue ==
    /\ spc = "dequeue"
    /\ \/ summaryAval > 0 /\ summaryAval' = summaryAval - 1 /\ spc' = "pop"
       \/ summaryAval = 0 /\ UNCHANGED summaryAval /\ spc' = "timeout"
    /\ UNCHANGED <<othersOfSummary, summaryQueue, tasks, errors, max_fails, terminated,
                   summary_done_event>>

(* Only after the TimeoutError the event is tested.                        *)
SummaryTimeout ==
    /\ spc = "timeout"
    /\ spc' = IF workers_done_event THEN "signal" ELSE "dequeue"
    /\ UNCHANGED <<othersOfSummary, summaryQueue, summaryAval, tasks, errors, max_fails,
                   terminated, summary_done_event>>

(* MasterRun.handle_on_fail, installed only if there is a limit.           *)
HandleOnFail ==
    IF MaxFails = 0 \/ terminated
    THEN UNCHANGED <<max_fails, terminated>>
    ELSE /\ max_fails' = max_fails - 1
         /\ terminated' = (max_fails' <= 0)

(* commit_error_item, or load, commit_item and clean_up; what commit_item  *)
(* raises ends the thread.                                                 *)
Commit ==
    /\ spc = "pop"
    /\ summaryQueue # <<>>
    /\ LET result == Head(summaryQueue)
       IN  /\ errors' = IF result.outcome = "error" THEN errors \cup {result} ELSE errors
           /\ tasks' = IF result.outcome = "error" THEN tasks ELSE tasks \cup {result}
           /\ IF result.outcome = "fail" THEN HandleOnFail
              ELSE UNCHANGED <<max_fails, terminated>>
           /\ spc' = IF result.outcome = "raise" THEN "signal" ELSE "dequeue"
    /\ summaryQueue' = Tail(summaryQueue)
    /\ UNCHANGED <<othersOfSummary, summaryAval, summary_done_event>>

SignalSummaryDone ==
    /\ spc = "signal"
    /\ summary_done_event' = TRUE
    /\ spc' = "done"
    /\ UNCHANGED <<othersOfSummary, summaryQueue, summaryAval, tasks, errors, max_fails,
                   terminated>>

-----------------------------------------------------------------------------

MainThread ==
    /\ \/ LoadTask \/ ReleaseTask \/ LoadError \/ ReleaseError \/ LogError
       \/ FullyLoaded \/ MainWaits
    /\ UNCHANGED mMode

ProcessThread ==
    /\ \/ TestLoop \/ Dequeue \/ PopTask \/ AcquireWorker \/ StartWorker
       \/ Drain \/ SignalWorkersDone
    /\ UNCHANGED mMode

Worker(t) ==
    /\ RunTask(t) \/ ReleaseResult(t) \/ DecrementCount(t) \/ ReleaseWorker(t)
    /\ UNCHANGED mMode

SummaryThread ==
    /\ SummaryDequeue \/ SummaryTimeout \/ Commit \/ SignalSummaryDone
    /\ UNCHANGED mMode

(* master_run goes on to write the summary file; other threads are daemons.*)
Ended == mpc = "done" /\ UNCHANGED vars

Next ==
    \/ MainThread
    \/ ProcessThread
    \/ \E t \in Tasks : Worker(t)
    \/ SummaryThread
    \/ Ended

(* The interpreter runs every thread that can run; a task's process ends   *)
(* (exec_process terminates it after the timeout).                         *)
Fairness ==
    /\ WF_vars(MainThread) /\ WF_vars(ProcessThread) /\ WF_vars(SummaryThread)
    /\ \A t \in Tasks : WF_vars(Worker(t))

Spec == Init /\ [][Next]_vars /\ Fairness

-----------------------------------------------------------------------------
(* Properties *)

Running(t) == wpc[t] \in {"run", "release", "count"}

(* An item is in the list whenever a dequeue got past the semaphore, so    *)
(* pop(0) never raises an IndexError, which would end the thread.          *)
DequeueFindsItem ==
    /\ processAval + (IF ppc = "pop" THEN 1 ELSE 0) <= Len(processQueue)
    /\ summaryAval + (IF spc = "pop" THEN 1 ELSE 0) <= Len(summaryQueue)

(* How often a task is in the process queue, how many results it has, and  *)
(* the tasks that the main thread has put on a queue.                      *)
Waiting(t) == Cardinality({i \in DOMAIN processQueue : processQueue[i] = t})
Resulted(t) == Cardinality({i \in DOMAIN summaryQueue : summaryQueue[i].task = t})
                 + Cardinality({r \in tasks \cup errors : r.task = t})
Loaded == {t \in Tasks \ logged :
             t < next \/ (t = next /\ mpc \in {"release", "releaseError"})}

(* A task is in one place: not loaded, queued, with the process thread, at *)
(* a worker, or its one result queued or committed.  None is run twice and *)
(* no worker ends without a result, however it ended.                      *)
EachTaskOnce ==
    \A t \in Tasks :
        /\ Waiting(t) + Resulted(t) <= 1
        /\ wpc[t] # "none" => Waiting(t) = 0
        /\ wpc[t] \in {"release", "count", "done", "ended"} => Resulted(t) = 1
        /\ t \in Loaded /\ mMode # "count" /\ wpc[t] = "none" /\ Waiting(t) + Resulted(t) = 0
              => item = t /\ ppc \in {"acquire", "start", "signal", "done"}

(* When the process thread signals that all workers are done, no worker    *)
(* has a result to deliver, and unless the regression was terminated or a  *)
(* thread could not be started no task is left in the queue.  The loop     *)
(* reads fully_loaded, thread_count and size() at different moments.       *)
DoneMeansAllRun ==
    workers_done_event /\ ~start_raised =>
        /\ \A t \in Tasks : ~Running(t)
        /\ ~terminated => processQueue = <<>> /\ next \notin Tasks

(* master_run ends, also if a worker raises, a result cannot be committed, *)
(* the fail limit is reached or a thread cannot be started.                *)
RunEnds == <>(mpc = "done")

(* "Block on process queue while we have threads running and stuff to do"  *)
(* (SummaryThread.run): the thread does not end before every result has    *)
(* been taken off the queue.                                               *)
SummaryTakesAllResults == spc \in {"signal", "done"} => summaryQueue = <<>>
=============================================================================
