---------------------------- MODULE RequestTurns ----------------------------
(***************************************************************************)
(* The multi-threading phase of a test as the scheduler sees it: requests  *)
(* of the generator threads, served one at a time.  It is what the thread  *)
(* dispatcher promises ("coerce threads into executing in a prescribed,    *)
(* repeatable order", base/inc/ThreadDispatcher.h); ThreadDispatcher has   *)
(* the threads and locks that keep the promise.                            *)
(*                                                                         *)
(* The current thread's Request opens a turn; calls made in the turn       *)
(* change the scheduler's state; Finish closes the turn and moves on to    *)
(* the next thread, FinishNoAdvance closes it and does not.  A thread      *)
(* makes no other call in the turn in which it synchronized.               *)
(***************************************************************************)
EXTENDS Scheduler

CONSTANTS
    SyncSets,     \* sets of threads a thread may ask to synchronize with
    MaxLocking    \* bound on nested lockThreadScheduler calls

ASSUME SyncSetsAssumption == \A S \in SyncSets : IsFiniteSet(S)

ASSUME MaxLockingAssumption == MaxLocking \in Nat

VARIABLES phase   \* how far the multi-threading phase has got, see Phases

vars == <<schedulerVars, phase>>

(* setup: threads are being added; idle: no request is being served; open: *)
(* the current thread's request is; synced: so it is, and it has           *)
(* synchronized with a barrier; stopped: all threads have been joined;     *)
(* destroyed: the scheduler is gone; failed: a FAIL ended the process.     *)
Phases == {"setup", "idle", "open", "synced", "stopped", "destroyed", "failed"}

(* The phase after a call that may have failed.                            *)
EnterPhase(p) == phase' = IF failure' = NoFailure THEN p ELSE "failed"

Init == SchedulerInit /\ phase = "setup"

(* ThreadingEnableContextManager.__enter__ in py/base/GenThreadExecutor.py *)
(* adds every thread and starts the schedule before any thread runs.       *)
Setup(t) ==
    /\ phase = "setup"
    /\ AddThreadId(t)
    /\ UNCHANGED phase

Start ==
    /\ phase = "setup"
    /\ mThreadIds = Threads
    /\ StartSchedule
    /\ EnterPhase("idle")

Request(t) ==
    /\ phase = "idle"
    /\ t \in mThreadIds
    /\ t = mCurrentThreadId
    /\ phase' = "open"
    /\ UNCHANGED schedulerVars

Lock(t) ==
    /\ phase = "open"
    /\ t = mCurrentThreadId
    /\ mLockingLevel < MaxLocking
    /\ LockThreadScheduler(t)
    /\ EnterPhase("open")

Unlock(t) ==
    /\ phase = "open"
    /\ t = mCurrentThreadId
    /\ UnlockThreadScheduler(t)
    /\ EnterPhase("open")

Synchronize(t, S) ==
    /\ phase = "open"
    /\ t = mCurrentThreadId
    /\ SynchronizeWithBarrier(t, S)
    /\ EnterPhase("synced")

Finish_KeepsTurnAtBarrier ==
    /\ phase \in {"open", "synced"}
    /\ IF phase = "open" THEN NextThread ELSE UNCHANGED schedulerVars
    /\ EnterPhase("idle")

Finish ==
    /\ phase \in {"open", "synced"}
    /\ NextThread
    /\ EnterPhase("idle")

FinishNoAdvance ==
    /\ phase = "open"
    /\ phase' = "idle"
    /\ UNCHANGED schedulerVars

ReportThreadDone(t) ==
    /\ phase = "idle"
    /\ t \in mThreadIds
    /\ t = mCurrentThreadId
    /\ RemoveThreadId(t)
    /\ EnterPhase("idle")

(* After every execution thread is joined.                                 *)
Stop ==
    /\ phase = "idle"
    /\ mThreadIds = {}
    /\ failure' = StopError
    /\ EnterPhase("stopped")
    /\ UNCHANGED <<strategyVars, mBarriers>>

Destroy ==
    /\ phase = "stopped"
    /\ failure' = DestroyError
    /\ EnterPhase("destroyed")
    /\ UNCHANGED <<strategyVars, mBarriers>>

(* The process has ended.                                                  *)
Ended ==
    /\ phase \in {"destroyed", "failed"}
    /\ UNCHANGED vars

Next ==
    \/ Start
    \/ Finish
    \/ FinishNoAdvance
    \/ Stop
    \/ Destroy
    \/ Ended
    \/ \E t \in Threads :
          \/ Setup(t)
          \/ Request(t)
          \/ Lock(t)
          \/ Unlock(t)
          \/ \E S \in SyncSets : Synchronize(t, S)
          \/ ReportThreadDone(t)

Spec == Init /\ [][Next]_vars

-----------------------------------------------------------------------------
(* Properties *)

Running == phase \in {"idle", "open", "synced"}

(* FAILs that a request of a generator thread can cause.                   *)
RequestFailures == {
    "inconsistent-thread-scheduler-state", "inconsistent-thread-unlocking-id",
    "thread-deactivated-while-locked", "barrier-contains-non-existing-thread",
    "thread-not-in-current-barrier", "invalid-barriers-state"}

(* FAILs no request of a generator thread can cause, however threads lock, *)
(* synchronize and finish: they check the scheduler's own bookkeeping.     *)
InternalFailures == {
    "out-of-range", "inconsistent-thread-locking-id",
    "inconsistent-thread-unlocking-state", "inconsistent-thread-unlocking-level",
    "inactive-thread-deactivated", "active-thread-activated", "thread-not-existing",
    "count-larger-than-synchronized-threads-size", "not-include-thread",
    "thread-has-reached", "unreached-count-has-reached-to-zero",
    "thread-dispatch-failure", "should-not-has-any-barrier"}

(* Every field keeps a value of its type; ids in mActiveThreadIds are      *)
(* scheduled threads.                                                      *)
TypeOK ==
    /\ mState \in ESchedulingState
    /\ mCurrentThreadId \in Threads \cup {NoThread, 0}
    /\ mNextIndex \in Nat
    /\ mLockingState \in ESchedulingState
    /\ mLockingLevel \in Nat
    /\ mLockingThreadId \in Threads \cup {NoThread}
    /\ mThreadIds \subseteq Threads
    /\ mActiveThreadIds \in Seq(mThreadIds)
    /\ mBarriers \subseteq Barriers(Threads)
    /\ phase \in Phases
    /\ failure \in {NoFailure} \cup RequestFailures \cup InternalFailures

(* mUnreachedCount of every barrier is the number of its scheduled threads *)
(* that have not reached it, whatever threads finished since the barrier   *)
(* was created, and it is never 0: a barrier with nobody left to wait for  *)
(* has been released (SynchronizeBarrier::AddReachedThread and its two     *)
(* callers in Scheduler.cc).                                               *)
UnreachedCountExact ==
    \A b \in mBarriers :
        /\ b.unreached = Cardinality((b.synchronized \cap mThreadIds) \ b.reached)
        /\ b.unreached > 0

(* A scheduled thread is off mActiveThreadIds exactly if it waits at a     *)
(* barrier, and then it waits at one only: no thread is lost between       *)
(* DeactivateThread and ActivateSynchronizedThreads.                       *)
InactiveWaitsAtOneBarrier ==
    \A t \in mThreadIds :
        /\ t \notin Active => \E b \in mBarriers : t \in b.reached
        /\ \A b \in mBarriers : t \in b.reached =>
              /\ t \notin Active
              /\ \A c \in mBarriers : t \in c.reached => c = b

(* As long as there are scheduled threads one of them can be chosen: when  *)
(* all wait for each other, Validate has ended the process.                *)
SomeThreadActive ==
    Running /\ mThreadIds # {} => Active # {}

(* Between requests the current thread is an unfinished thread that waits  *)
(* at no barrier.  Only the current thread's Request returns, so otherwise *)
(* generation would hang, or a waiting thread would pass its barrier.      *)
CurrentThreadCanRun ==
    phase \in {"idle", "open"} /\ mThreadIds # {} =>
        mCurrentThreadId \in Active

(* While the schedule is locked the thread that locked it is the current   *)
(* one (LockSchedule, UnlockSchedule, NextThread).                         *)
LockHolderIsCurrent ==
    mState = "Locked" =>
        /\ mLockingLevel > 0
        /\ mLockingThreadId = mCurrentThreadId
        /\ mCurrentThreadId \in mThreadIds

(* mNextIndex is at least 1 as long as threads remain, so RemoveThreadId's *)
(* "--mNextIndex" on the unsigned index never wraps.                       *)
NextIndexPositive == Running /\ mThreadIds # {} => mNextIndex > 0

(* The consistency checks of SchedulingStrategy.cc, SynchronizeBarrier.cc  *)
(* and ThreadDispatcher.cc that only an inconsistent scheduler can fail    *)
(* never fail, and mActiveThreadIds.at() is never out of range.            *)
NoInternalFailure == failure \notin InternalFailures

(* What the methods rely on of each other beyond the properties above: ids *)
(* are in mActiveThreadIds once, no two barriers are for the same threads, *)
(* no threads are deadlocked, an unlock never restores the Locked state,   *)
(* and a thread that still runs and locked the schedule has it locked.     *)
SchedulerConsistent ==
    /\ IsInjective(mActiveThreadIds)
    /\ \A b \in mBarriers : b.reached \subseteq b.synchronized
    /\ \A b, c \in mBarriers : b.synchronized = c.synchronized => b = c
    /\ ~DeadLock(mBarriers, mThreadIds, Active)
    /\ mLockingState # "Locked"
    /\ mLockingThreadId \in mThreadIds => mState = "Locked"
    /\ (phase = "failed") = (failure # NoFailure)
    /\ phase = "setup" => mBarriers = {} /\ mState = "Random" /\ mLockingThreadId = NoThread
    /\ phase = "synced" => mState # "Locked"
    /\ phase \in {"open", "synced"} => mCurrentThreadId \in mThreadIds
    /\ phase \in {"stopped", "destroyed"} => mThreadIds = {}

(* A thread waiting at a barrier becomes active only when every scheduled  *)
(* thread of that barrier has reached it, and then all of them do, in one  *)
(* step (the count in AddReachedThread against ActivateSynchronizedThreads).*)
ReleasedTogether ==
    [][\A b \in mBarriers :
         (\E t \in b.reached \cap mThreadIds : t \in Range(mActiveThreadIds')) =>
            /\ b.synchronized \cap mThreadIds' \subseteq b.reached \cup {mCurrentThreadId}
            /\ b.synchronized \cap mThreadIds' \subseteq Range(mActiveThreadIds')]_vars

(* A locked schedule leaves its thread only when that thread has finished: *)
(* requests of other threads never come between lockThreadScheduler and    *)
(* the matching unlockThreadScheduler.                                     *)
LockedScheduleStays ==
    [][mState = "Locked" /\ mCurrentThreadId' # mCurrentThreadId =>
          mCurrentThreadId \notin mThreadIds']_vars
=============================================================================
