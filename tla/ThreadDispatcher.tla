-------------------------- MODULE ThreadDispatcher --------------------------
(***************************************************************************)
(* MultiThreadDispatcher (base/src/ThreadDispatcher.cc) and what runs on   *)
(* it: the execution threads of py/base/GenThreadExecutor.py, each making  *)
(* requests through the call guards of base/src/ThreadContext.cc.  They    *)
(* share the dispatch mutex, which is recursive and counts its locks, a    *)
(* condition variable, and Python's global interpreter lock (GIL).         *)
(*                                                                         *)
(* A thread holds the GIL while it runs Python or C++ code, gives it up    *)
(* before Request and takes it back when Request returns, with the mutex   *)
(* held.  All state of the scheduler is read and written with the mutex    *)
(* held; a step of this module is what a thread does between two points    *)
(* at which another thread can notice.                                     *)
(***************************************************************************)
EXTENDS Scheduler

CONSTANTS
    SyncSets,       \* sets of threads a thread may ask to synchronize with
    MaxLocking,     \* bound on nested lockThreadScheduler calls
    MaxRequests,    \* bound on the requests a thread makes
    MaxNesting      \* bound on requests made inside a request

ASSUME BoundsAssumption ==
    /\ \A S \in SyncSets : IsFiniteSet(S)
    /\ MaxLocking \in Nat /\ MaxRequests \in Nat /\ MaxNesting \in Nat

VARIABLES
    stage,        \* of the test: "setup", "running", "stopped", "destroyed"
    pc,           \* what each thread is doing, see Places
    leaving,      \* threads that are in reportThreadDone
    registered,   \* MultiThreadDispatcher::mThreadIds: threads known by their OS id
    requests,     \* number of outermost requests each thread has made
    owner,        \* the thread that holds mDispatchMutex, or NoThread
    mLockCount,   \* how many times it holds it
    synced,       \* the request being served has synchronized with a barrier
    gil           \* the thread that holds the GIL, or NoThread

threadVars == <<pc, leaving, registered, requests>>
mutexVars == <<owner, mLockCount, synced>>

dvars == <<schedulerVars, stage, threadVars, mutexVars, gil>>

(* new: not yet registered; barrier: at the start barrier; python: between *)
(* requests; lock: in Request, about to lock the mutex; wait: in Request,  *)
(* waiting for the condition variable; granted: Request returns, the GIL   *)
(* is still to be taken; serving: in a guarded call; notify: about to call *)
(* notify_all; exit: reportThreadDone returns; exited: joined.             *)
Places == {"new", "barrier", "python", "lock", "wait", "granted", "serving",
           "notify", "exit", "exited"}

DInit ==
    /\ SchedulerInit
    /\ stage = "setup"
    /\ pc = [t \in Threads |-> "new"]
    /\ leaving = {}
    /\ registered = {}
    /\ requests = [t \in Threads |-> 0]
    /\ owner = NoThread
    /\ mLockCount = 0
    /\ synced = FALSE
    /\ gil = NoThread

(* No FAIL has ended the process.                                          *)
Alive == failure = NoFailure

-----------------------------------------------------------------------------
(* The main thread: before the execution threads start, and after they are joined *)

DSetup(t) ==
    /\ Alive
    /\ stage = "setup"
    /\ AddThreadId(t)
    /\ UNCHANGED <<stage, threadVars, mutexVars, gil>>

DStart ==
    /\ Alive
    /\ stage = "setup"
    /\ mThreadIds = Threads
    /\ StartSchedule
    /\ stage' = "running"
    /\ UNCHANGED <<threadVars, mutexVars, gil>>

DStop ==
    /\ Alive
    /\ stage = "running"
    /\ \A t \in Threads : pc[t] = "exited"
    /\ failure' = StopError
    /\ stage' = "stopped"
    /\ UNCHANGED <<strategyVars, mBarriers, threadVars, mutexVars, gil>>

DDestroy ==
    /\ Alive
    /\ stage = "stopped"
    /\ failure' = DestroyError
    /\ stage' = "destroyed"
    /\ UNCHANGED <<strategyVars, mBarriers, threadVars, mutexVars, gil>>

-----------------------------------------------------------------------------
(* The GIL *)

(* Places where a thread has to have the GIL to go on.                     *)
NeedsGil(t) == pc[t] \in {"barrier", "python", "granted", "serving", "exit"}

(* Python hands the GIL to a thread that wants it, also by taking it away  *)
(* from one that runs.                                                     *)
TakeGil(t) ==
    /\ Alive
    /\ NeedsGil(t)
    /\ gil # t
    /\ gil # NoThread => pc[gil] \in {"barrier", "python", "serving"}
    /\ gil' = t
    /\ UNCHANGED <<schedulerVars, stage, threadVars, mutexVars>>

-----------------------------------------------------------------------------
(* A thread's start: ExecutionContextManager.__enter__ *)

RegisterExecutionThread_Forgotten(t) ==
    /\ Alive
    /\ stage = "running"
    /\ pc[t] = "new"
    /\ pc' = [pc EXCEPT ![t] = "barrier"]
    /\ UNCHANGED <<schedulerVars, stage, leaving, registered, requests, mutexVars, gil>>

RegisterExecutionThread(t) ==
    /\ Alive
    /\ stage = "running"
    /\ pc[t] = "new"
    /\ owner = NoThread
    /\ registered' = registered \cup {t}
    /\ pc' = [pc EXCEPT ![t] = "barrier"]
    /\ UNCHANGED <<schedulerVars, stage, leaving, requests, mutexVars, gil>>

(* threading.Barrier: nobody passes before all have come.                  *)
PassStartBarrier(t) ==
    /\ Alive
    /\ gil = t
    /\ pc[t] = "barrier"
    /\ \A u \in Threads : pc[u] # "new"
    /\ pc' = [pc EXCEPT ![t] = "python"]
    /\ UNCHANGED <<schedulerVars, stage, leaving, registered, requests, mutexVars, gil>>

-----------------------------------------------------------------------------
(* Request *)

(* ThreadContext(): the GIL is released, then Request is called.           *)
BeginRequest(t) ==
    /\ Alive
    /\ gil = t
    /\ \/ pc[t] = "python" /\ requests[t] < MaxRequests
       \/ pc[t] = "serving" /\ mLockCount <= MaxNesting /\ ~synced
    /\ gil' = NoThread
    /\ pc' = [pc EXCEPT ![t] = "lock"]
    /\ requests' = [requests EXCEPT ![t] = IF owner = t THEN @ ELSE @ + 1]
    /\ UNCHANGED <<schedulerVars, stage, leaving, registered, mutexVars>>

BeginReportThreadDone(t) ==
    /\ Alive
    /\ gil = t
    /\ pc[t] = "python"
    /\ gil' = NoThread
    /\ pc' = [pc EXCEPT ![t] = "lock"]
    /\ leaving' = leaving \cup {t}
    /\ UNCHANGED <<schedulerVars, stage, registered, requests, mutexVars>>

(* The mutex is free, or the thread has it already.                        *)
CanLock(t) == owner \in {NoThread, t}

DFail(reason) ==
    /\ Fail(reason)
    /\ UNCHANGED <<stage, threadVars, mutexVars, gil>>

(* wait() unlocks the mutex once and sleeps.                               *)
Wait(t) ==
    /\ mCurrentThreadId # t
    /\ pc' = [pc EXCEPT ![t] = "wait"]
    /\ UNCHANGED <<schedulerVars, stage, leaving, registered, requests, mutexVars, gil>>

Grant_Unchecked(t) ==
    /\ owner' = t
    /\ mLockCount' = mLockCount + 1
    /\ pc' = [pc EXCEPT ![t] = "granted"]
    /\ UNCHANGED <<schedulerVars, stage, leaving, registered, requests, synced, gil>>

(* The mutex stays locked once more.                                       *)
Grant(t) ==
    /\ mCurrentThreadId = t
    /\ owner' = t
    /\ mLockCount' = mLockCount + 1
    /\ pc' = [pc EXCEPT ![t] = "granted"]
    /\ UNCHANGED <<schedulerVars, stage, leaving, registered, requests, synced, gil>>

(* Locking the mutex, GetThreadId and testing the condition.               *)
DRequest(t) ==
    /\ Alive
    /\ pc[t] = "lock"
    /\ CanLock(t)
    /\ \/ t \notin registered /\ DFail("thread-dispatch-failure")
       \/ t \in registered /\ Wait(t)
       \/ t \in registered /\ t \notin leaving /\ Grant(t)

(* The condition variable wakes a thread without a notify_all.             *)
SpuriousWakeup(t) ==
    /\ Alive
    /\ pc[t] = "wait"
    /\ pc' = [pc EXCEPT ![t] = "lock"]
    /\ UNCHANGED <<schedulerVars, stage, leaving, registered, requests, mutexVars, gil>>

Return(t) ==
    /\ Alive
    /\ gil = t
    /\ pc[t] = "granted"
    /\ pc' = [pc EXCEPT ![t] = "serving"]
    /\ UNCHANGED <<schedulerVars, stage, leaving, registered, requests, mutexVars, gil>>

-----------------------------------------------------------------------------
(* Guarded calls *)

(* After a SynchronizeWithBarrier the guarded calls only return.           *)
Serving(t) == Alive /\ gil = t /\ pc[t] = "serving" /\ ~synced

DLock(t) ==
    /\ Serving(t)
    /\ mLockingLevel < MaxLocking
    /\ LockThreadScheduler(t)
    /\ UNCHANGED <<stage, threadVars, mutexVars, gil>>

DUnlock(t) ==
    /\ Serving(t)
    /\ UnlockThreadScheduler(t)
    /\ UNCHANGED <<stage, threadVars, mutexVars, gil>>

DSynchronize(t, S) ==
    /\ Serving(t)
    /\ SynchronizeWithBarrier(t, S)
    /\ synced' = TRUE
    /\ UNCHANGED <<stage, threadVars, owner, mLockCount, gil>>

-----------------------------------------------------------------------------
(* Finish *)

(* Unlocking the mutex once.                                               *)
UnlockOnce(t) ==
    /\ mLockCount' = mLockCount - 1
    /\ owner' = IF mLockCount = 1 THEN NoThread ELSE t
    /\ synced' = (synced /\ mLockCount # 1)

(* ~ThreadContext() calls Finish with the GIL held.  UnlockMutex moves on  *)
(* to the next thread only if this was the outermost request.              *)
DFinish(t) ==
    /\ Alive
    /\ gil = t
    /\ pc[t] = "serving"
    /\ mLockCount = 1
    /\ NextThread
    /\ UnlockOnce(t)
    /\ pc' = [pc EXCEPT ![t] = "notify"]
    /\ UNCHANGED <<stage, leaving, registered, requests, gil>>

FinishNested_Advances(t) ==
    /\ Alive
    /\ gil = t
    /\ pc[t] = "serving"
    /\ mLockCount > 1
    /\ NextThread
    /\ UnlockOnce(t)
    /\ UNCHANGED <<stage, threadVars, gil>>

FinishNested(t) ==
    /\ Alive
    /\ gil = t
    /\ pc[t] = "serving"
    /\ mLockCount > 1
    /\ UnlockOnce(t)
    /\ UNCHANGED <<schedulerVars, stage, threadVars, gil>>

(* ~ThreadContextNoAdvance(): nobody is notified.                          *)
DFinishNoAdvance(t) ==
    /\ Serving(t)
    /\ mLockCount = 1
    /\ UnlockOnce(t)
    /\ pc' = [pc EXCEPT ![t] = "python"]
    /\ UNCHANGED <<schedulerVars, stage, leaving, registered, requests, gil>>

NotifyAll_WakesOne(t) ==
    /\ Alive
    /\ pc[t] = "notify"
    /\ \E woken \in Threads :
          pc' = [u \in Threads |->
                   IF u = t THEN IF t \in leaving THEN "exit" ELSE "python"
                   ELSE IF pc[u] = "wait" /\ u = woken THEN "lock" ELSE pc[u]]
    /\ UNCHANGED <<schedulerVars, stage, leaving, registered, requests, mutexVars, gil>>

NotifyAll_WakesNobody(t) ==
    /\ Alive
    /\ pc[t] = "notify"
    /\ pc' = [pc EXCEPT ![t] = IF t \in leaving THEN "exit" ELSE "python"]
    /\ UNCHANGED <<schedulerVars, stage, leaving, registered, requests, mutexVars, gil>>

(* mCondVar.notify_all(), after the mutex is released.                     *)
NotifyAll(t) ==
    /\ Alive
    /\ pc[t] = "notify"
    /\ pc' = [u \in Threads |->
                 IF u = t THEN IF t \in leaving THEN "exit" ELSE "python"
                 ELSE IF pc[u] = "wait" THEN "lock" ELSE pc[u]]
    /\ UNCHANGED <<schedulerVars, stage, leaving, registered, requests, mutexVars, gil>>

-----------------------------------------------------------------------------
(* A thread's end: ExecutionContextManager.__exit__ *)

DReportThreadDone_OutOfTurn(t) ==
    /\ Alive
    /\ pc[t] = "lock"
    /\ t \in leaving
    /\ CanLock(t)
    /\ t \in registered
    /\ mLockCount = 0
    /\ RemoveThreadId(t)
    /\ registered' = registered \ {t}
    /\ pc' = [pc EXCEPT ![t] = "notify"]
    /\ UNCHANGED <<stage, leaving, requests, mutexVars, gil>>

(* The rest of ReportThreadDone once its Request returns: the mutex is     *)
(* held throughout and released by UnlockMutex.                            *)
DReportThreadDone(t) ==
    /\ Alive
    /\ pc[t] = "lock"
    /\ t \in leaving
    /\ CanLock(t)
    /\ t \in registered
    /\ mCurrentThreadId = t
    /\ \/ /\ mLockCount # 0
          /\ DFail("thread-dispatch-failure")
       \/ /\ mLockCount = 0
          /\ RemoveThreadId(t)
          /\ registered' = registered \ {t}
          /\ pc' = [pc EXCEPT ![t] = "notify"]
          /\ UNCHANGED <<stage, leaving, requests, mutexVars, gil>>

Exit(t) ==
    /\ Alive
    /\ gil = t
    /\ pc[t] = "exit"
    /\ gil' = NoThread
    /\ pc' = [pc EXCEPT ![t] = "exited"]
    /\ UNCHANGED <<schedulerVars, stage, leaving, registered, requests, mutexVars>>

-----------------------------------------------------------------------------

(* What a thread does by itself once it has the locks it needs.            *)
ThreadStep(t) ==
    \/ RegisterExecutionThread(t)
    \/ PassStartBarrier(t)
    \/ BeginRequest(t)
    \/ BeginReportThreadDone(t)
    \/ DRequest(t)
    \/ Return(t)
    \/ DFinish(t)
    \/ FinishNested(t)
    \/ DFinishNoAdvance(t)
    \/ NotifyAll(t)
    \/ DReportThreadDone(t)
    \/ Exit(t)

(* The process has ended.                                                  *)
DEnded ==
    /\ ~Alive \/ stage = "destroyed"
    /\ UNCHANGED dvars

DNext ==
    \/ DStart
    \/ DStop
    \/ DDestroy
    \/ DEnded
    \/ \E t \in Threads :
          \/ DSetup(t)
          \/ TakeGil(t)
          \/ SpuriousWakeup(t)
          \/ DLock(t)
          \/ DUnlock(t)
          \/ \E S \in SyncSets : DSynchronize(t, S)
          \/ ThreadStep(t)

(* Fairness.  The operating system runs every thread that can run (weak    *)
(* fairness).  CPython hands the GIL to every thread that keeps asking for *)
(* it, and lets it run for a while, so a thread's steps under the GIL are  *)
(* strongly fair.  The code of a request ends: at no depth do its nested   *)
(* requests and locks go on for ever.                                      *)
(* Nothing is assumed of spurious wake-ups.                                *)
Fairness ==
    /\ WF_dvars(DStart) /\ WF_dvars(DStop) /\ WF_dvars(DDestroy)
    /\ \A t \in Threads :
          /\ WF_dvars(DSetup(t) /\ t \notin mThreadIds)
          /\ SF_dvars(TakeGil(t))
          /\ SF_dvars(ThreadStep(t))
          /\ \A depth \in 1..(MaxNesting + 1) :
                SF_dvars(mLockCount = depth
                            /\ (DFinish(t) \/ DFinishNoAdvance(t) \/ FinishNested(t)))

DSpec == DInit /\ [][DNext]_dvars /\ Fairness

-----------------------------------------------------------------------------
(* Properties *)

(* A thread whose Request has returned is the one current thread and holds *)
(* the mutex until its Finish, so no two threads are ever in guarded calls *)
(* (the comment "Hold the mutex lock until Finish() is called").           *)
ServesAlone ==
    \A t \in Threads :
        pc[t] \in {"granted", "serving"} => owner = t /\ mCurrentThreadId = t

(* A request made inside a request (a Python callback of a guarded call)   *)
(* is granted at once: its wait() would give up only the inner one of the  *)
(* locks, and nobody could ever make the thread current again.             *)
NestedNeverWaits ==
    \A t \in Threads : owner = t => pc[t] # "wait" /\ mCurrentThreadId = t

(* The thread whose turn it is never sleeps on mCondVar unless a thread is *)
(* just about to call notify_all, though UnlockMutex notifies only after   *)
(* it unlocked and FinishNoAdvance does not notify at all.                 *)
NoLostWakeup ==
    \A t \in Threads :
        Alive /\ pc[t] = "wait" /\ mCurrentThreadId = t /\ t \in mThreadIds =>
            \E u \in Threads : pc[u] = "notify"

(* The checks of ThreadDispatcher.cc never fail: a thread is known from    *)
(* registerExecutionThread to the end of its last request, and reports its *)
(* end outside all requests; the schedule is empty when Stop is called.    *)
DispatchNeverFails == failure # "thread-dispatch-failure"

(* Every request of every thread is served, every thread ends and is       *)
(* joined, and the phase stops, unless a FAIL ends the process.  No        *)
(* deadlock between the mutex and the GIL, no starved thread.              *)
AllThreadsFinish == <>(stage = "destroyed" \/ ~Alive)

(* Which turn of RequestTurns a state of the threads and locks shows.      *)
Turn ==
    CASE ~Alive -> "failed"
      [] Alive /\ stage # "running" -> stage
      [] Alive /\ stage = "running" /\ owner = NoThread -> "idle"
      [] OTHER -> IF synced THEN "synced" ELSE "open"

Turns == INSTANCE RequestTurns WITH phase <- Turn

(* Whatever the threads do at the same time, the scheduler sees requests   *)
(* of the current thread, one after the other, each of them whole.         *)
TakesTurns == Turns!Spec
=============================================================================
